--------------------------- MODULE MCProtocols_proofs ---------------------------
(***************************************************************************)
(* Proofs about the two servers and the two clients of MCProtocols, for    *)
(* texts and for packages: whatever their peers send and however the       *)
(* network cuts it, for any number of connections.                         *)
(***************************************************************************)
EXTENDS MCProtocols, SequenceLemmas
-----------------------------------------------------------------------------
(* Positions in a stream, one after the other.                              *)

Run(a, b) == [i \in 1..(b - a) |-> a + i]

\* From a to b there are b - a of them, in order.
LEMMA RunFacts ==
    ASSUME NEW a \in Nat, NEW b \in Nat, a <= b
    PROVE  /\ Run(a, b) \in Seq(Nat) /\ Len(Run(a, b)) = b - a
           /\ DOMAIN Run(a, b) = 1..(b - a)
           /\ \A i \in 1..(b - a) : Run(a, b)[i] = a + i
           /\ \A m \in Nat : b <= m => Run(a, b) \in Seq(1..m)
           /\ a = b <=> Run(a, b) = <<>>
<1>1. b - a \in Nat
  OBVIOUS
<1>2. /\ Run(a, b) \in Seq(Nat) /\ Len(Run(a, b)) = b - a /\ DOMAIN Run(a, b) = 1..(b - a)
      /\ \A i \in 1..(b - a) : Run(a, b)[i] = a + i
  BY <1>1 DEF Run
<1>3. ASSUME NEW m \in Nat, b <= m PROVE Run(a, b) \in Seq(1..m)
  <2>1. \A i \in 1..(b - a) : a + i \in 1..m
    BY <1>3
  <2> QED BY <1>1, <2>1 DEF Run
<1>4. a = b => Run(a, b) = <<>>
  BY <1>1 DEF Run
<1>5. Run(a, b) = <<>> => a = b
  BY <1>2
<1> QED BY <1>2, <1>3, <1>4, <1>5

\* What follows goes behind it, what is first can be dropped.
LEMMA RunJoins ==
    ASSUME NEW a \in Nat, NEW b \in Nat, NEW c \in Nat, a <= b, b <= c
    PROVE  /\ Run(a, b) \o Run(b, c) = Run(a, c)
           /\ SubSeq(Run(a, c), (b - a) + 1, c - a) = Run(b, c)
<1>1. b - a \in Nat /\ c - b \in Nat /\ c - a \in Nat /\ (b - a) + (c - b) = c - a
  OBVIOUS
<1> DEFINE p == Run(a, b)
           q == Run(b, c)
           r == Run(a, c)
<1>2. /\ p \in Seq(Nat) /\ Len(p) = b - a /\ \A i \in 1..(b - a) : p[i] = a + i
  BY RunFacts
<1>3. /\ q \in Seq(Nat) /\ Len(q) = c - b /\ \A i \in 1..(c - b) : q[i] = b + i
  BY RunFacts
<1>4. /\ r \in Seq(Nat) /\ Len(r) = c - a /\ \A i \in 1..(c - a) : r[i] = a + i
  BY <1>1, RunFacts
<1> HIDE DEF p, q, r
<1>5. p \o q = r
  <2>1. p \o q \in Seq(Nat) /\ Len(p \o q) = c - a
    <3>1. p \o q \in Seq(Nat) /\ Len(p \o q) = Len(p) + Len(q)
      BY <1>2, <1>3, ConcatProperties
    <3> QED BY <3>1, <1>1, <1>2, <1>3
  <2>2. \A i \in 1..(c - a) : (p \o q)[i] = r[i]
    <3> SUFFICES ASSUME NEW i \in 1..(c - a) PROVE (p \o q)[i] = r[i]
      OBVIOUS
    <3>1. CASE i <= b - a
      <4>1. i \in 1..(b - a)
        BY <1>1, <3>1
      <4>2. (p \o q)[i] = p[i]
        BY <4>1, <1>2, <1>3
      <4> QED BY <4>1, <4>2, <1>2, <1>4
    <3>2. CASE i > b - a
      <4>1. i - (b - a) \in 1..(c - b) /\ b + (i - (b - a)) = a + i
        BY <1>1, <3>2
      <4>2. (p \o q)[i] = q[i - (b - a)]
        BY <4>1, <3>2, <1>1, <1>2, <1>3
      <4> QED BY <4>1, <4>2, <1>3, <1>4
    <3>3. i <= b - a \/ i > b - a
      OBVIOUS
    <3> QED BY <3>1, <3>2, <3>3
  <2> DEFINE t == p \o q
  <2>3. t \in Seq(Nat) /\ Len(t) = Len(r) /\ \A i \in 1..Len(t) : t[i] = r[i]
    BY <1>4, <2>1, <2>2
  <2> HIDE DEF t
  <2>4. t = r
    BY <2>3, <1>4, SeqEqual
  <2> QED BY <2>4 DEF t
<1>6. SubSeq(r, (b - a) + 1, c - a) = q
  <2> DEFINE m == (b - a) + 1
             n == c - a
             t == SubSeq(r, m, n)
  <2>1. m \in 1..(Len(r) + 1) /\ n \in (m - 1)..Len(r)
    BY <1>1, <1>4
  <2>2. n - m + 1 = c - b /\ \A i \in 1..(c - b) : m + i - 1 = i + (b - a)
    OBVIOUS
  <2> HIDE DEF m, n
  <2>3. /\ t \in Seq(Nat) /\ Len(t) = n - m + 1
        /\ \A i \in 1..(n - m + 1) : t[i] = r[m + i - 1]
    BY <1>4, <2>1, SubSeqProperties
  <2> HIDE DEF t
  <2>4. \A i \in 1..(c - b) : t[i] = q[i]
    <3> SUFFICES ASSUME NEW i \in 1..(c - b) PROVE t[i] = q[i]
      OBVIOUS
    <3>1. t[i] = r[i + (b - a)]
      BY <2>2, <2>3
    <3>2. i + (b - a) \in 1..(c - a) /\ a + (i + (b - a)) = b + i
      OBVIOUS
    <3> QED BY <3>1, <3>2, <1>3, <1>4
  <2>5. t = q
    BY <1>3, <2>2, <2>3, <2>4, SeqEqual
  <2> QED BY <2>5 DEF t, m, n
<1> QED BY <1>5, <1>6 DEF p, q, r


\* A piece of it.
LEMMA RunSub ==
    ASSUME NEW a \in Nat, NEW b \in Nat, NEW x \in Nat, NEW y \in Nat, a <= x, x <= y, y <= b
    PROVE  SubSeq(Run(a, b), (x - a) + 1, y - a) = Run(x, y)
<1> DEFINE r == Run(a, b)
           q == Run(x, y)
           m == (x - a) + 1
           n == y - a
           t == SubSeq(r, m, n)
<1>1. /\ r \in Seq(Nat) /\ Len(r) = b - a /\ \A i \in 1..(b - a) : r[i] = a + i
  <2>1. a <= b
    OBVIOUS
  <2> QED BY <2>1, RunFacts
<1>2. /\ q \in Seq(Nat) /\ Len(q) = y - x /\ \A i \in 1..(y - x) : q[i] = x + i
  BY RunFacts
<1>3. m \in Int /\ n \in Int /\ n - m + 1 = y - x /\ (m <= n \/ y = x)
      /\ \A i \in m..n : i \in 1..(b - a)
  OBVIOUS
<1>4. \A i \in 1..(y - x) : m + i - 1 \in 1..(b - a) /\ a + (m + i - 1) = x + i
  OBVIOUS
<1> HIDE DEF r, q, m, n
<1>5. \A i \in m..n : r[i] \in Nat
  <2>1. \A i \in 1..(b - a) : a + i \in Nat
    OBVIOUS
  <2>2. \A i \in 1..(b - a) : r[i] \in Nat
    BY <1>1, <2>1
  <2> QED BY <1>3, <2>2
<1>6. /\ t \in Seq(Nat) /\ Len(t) = (IF m <= n THEN n - m + 1 ELSE 0)
      /\ \A i \in 1..(n - m + 1) : t[i] = r[m + i - 1]
  BY <1>3, <1>5, SubSeqProperties
<1> HIDE DEF t
<1>7. Len(t) = Len(q)
  <2>1. y - x \in Nat /\ (y = x => n - m + 1 = 0)
    BY <1>3
  <2> QED BY <1>2, <1>3, <1>6, <2>1
<1>8. \A i \in 1..(y - x) : t[i] = q[i]
  <2> SUFFICES ASSUME NEW i \in 1..(y - x) PROVE t[i] = q[i]
    OBVIOUS
  <2> DEFINE j == m + i - 1
  <2>1. t[i] = r[j] /\ j \in 1..(b - a) /\ a + j = x + i
    BY <1>3, <1>4, <1>6
  <2> HIDE DEF j
  <2> QED BY <2>1, <1>1, <1>2
<1>9. t = q
  BY <1>2, <1>6, <1>7, <1>8, SeqEqual
<1> QED BY <1>9 DEF t, r, q, m, n

\* The piece between two positions of it.
Piece(a, b, x, y) == SubSeq(Run(a, b), (x - a) + 1, y - a)
LEMMA RunPiece ==
    ASSUME NEW a \in Nat, NEW b \in Nat, NEW x \in Nat, NEW y \in Nat, a <= x, x <= y, y <= b
    PROVE  Piece(a, b, x, y) = Run(x, y)
BY RunSub, ZenonT(40) DEF Piece
(* PackageServer: where packages end.                                       *)

PkgSizes(c) == [k \in 1..Len(pkgStream[c]) |-> Packages!PackageSize(pkgStream[c][k])]
PkgCount(c) == Len(pkgStream[c])

\* The ends of the packages of a stream begin with 0 and rise by a size each.
LEMMA PkgEnds ==
    ASSUME NEW c, pkgStream[c] \in PackageStreams
    PROVE  /\ PkgCount(c) \in Nat /\ Packages!EndOf(c, 0) = 0
           /\ \A k \in 0..PkgCount(c) : Packages!EndOf(c, k) \in Nat
           /\ \A k \in 1..PkgCount(c) :
                /\ Packages!EndOf(c, k) =
                       Packages!EndOf(c, k - 1) + Packages!PackageSize(pkgStream[c][k])
                /\ Packages!PackageSize(pkgStream[c][k]) \in Nat
                /\ Packages!PackageSize(pkgStream[c][k]) >= HeaderSize
           /\ \A j, k \in 0..PkgCount(c) : j < k => Packages!EndOf(c, j) < Packages!EndOf(c, k)
<1> DEFINE s == PkgSizes(c)
           n == PkgCount(c)
<1>1. pkgStream[c] \in Seq([payload : Nat, title : BOOLEAN]) /\ HeaderSize \in Nat \ {0}
  BY ProtocolsAssumption
<1>2. n \in Nat /\ DOMAIN pkgStream[c] = 1..n
  BY <1>1 DEF PkgCount
<1>3. \A k \in 1..n : pkgStream[c][k] \in [payload : Nat, title : BOOLEAN]
  <2> DEFINE R == [payload : Nat, title : BOOLEAN]
  <2>1. pkgStream[c] \in Seq(R)
    BY <1>1
  <2>2. n = Len(pkgStream[c])
    BY DEF PkgCount
  <2> HIDE DEF R, n
  <2>3. \A k \in 1..Len(pkgStream[c]) : pkgStream[c][k] \in R
    BY <2>1, ElementOfSeq
  <2> QED BY <2>2, <2>3 DEF R
<1>4. \A k \in 1..n : /\ s[k] = Packages!PackageSize(pkgStream[c][k])
                      /\ s[k] \in Nat /\ s[k] >= HeaderSize
  BY <1>1, <1>3 DEF PkgSizes, PkgCount, Packages!PackageSize
<1> DEFINE e == CHOOSE e : e = [j \in 0..n |->
                    IF j = 0 THEN 0 ELSE e[j - 1] + Packages!PackageSize(pkgStream[c][j])]
<1>5. \E f \in [0..n -> Nat] : f = [j \in 0..n |->
          IF j = 0 THEN 0 ELSE f[j - 1] + Packages!PackageSize(pkgStream[c][j])]
  <2> HIDE DEF s, n
  <2>1. PICK f \in [0..n -> Nat] : Totals(f, s, n)
    BY <1>2, <1>4, TotalsExist
  <2>2. f = [j \in 0..n |-> IF j = 0 THEN 0 ELSE f[j - 1] + s[j]]
    BY <2>1 DEF Totals
  <2>3. \A j \in 0..n : f[j] = IF j = 0 THEN 0 ELSE f[j - 1] + Packages!PackageSize(pkgStream[c][j])
    <3> SUFFICES ASSUME NEW j \in 0..n
                 PROVE f[j] = IF j = 0 THEN 0 ELSE f[j - 1] + Packages!PackageSize(pkgStream[c][j])
      OBVIOUS
    <3>1. j = 0 \/ j \in 1..n
      BY <1>2
    <3>2. f[j] = IF j = 0 THEN 0 ELSE f[j - 1] + s[j]
      BY <2>2
    <3> QED BY <3>1, <3>2, <1>4
  <2>4. f = [j \in 0..n |-> f[j]]
    OBVIOUS
  <2> QED BY <2>3, <2>4
<1>6. e = [j \in 0..n |-> IF j = 0 THEN 0 ELSE e[j - 1] + Packages!PackageSize(pkgStream[c][j])]
  <2> HIDE DEF n
  <2> QED BY <1>5
<1>7. \A k : Packages!EndOf(c, k) = e[k]
  BY DEF Packages!EndOf, PkgCount
<1> HIDE DEF e, s, n
<1>8. Totals(e, s, n)
  <2>1. \A j \in 0..n : e[j] = IF j = 0 THEN 0 ELSE e[j - 1] + s[j]
    <3> SUFFICES ASSUME NEW j \in 0..n
                 PROVE  e[j] = IF j = 0 THEN 0 ELSE e[j - 1] + s[j]
      OBVIOUS
    <3>1. j = 0 \/ j \in 1..n
      BY <1>2
    <3>2. e[j] = IF j = 0 THEN 0 ELSE e[j - 1] + Packages!PackageSize(pkgStream[c][j])
      BY <1>6
    <3> QED BY <3>1, <3>2, <1>4
  <2>2. e = [j \in 0..n |-> e[j]]
    BY <1>6
  <2> QED BY <2>1, <2>2 DEF Totals
<1>9. e \in [0..n -> Nat] /\ e[0] = 0 /\ \A k \in 1..n : e[k] = e[k - 1] + s[k]
  BY <1>2, <1>4, <1>8, TotalsGrow
<1>11. \A k \in 1..n : e[k - 1] < e[k]
  <2> SUFFICES ASSUME NEW k \in 1..n PROVE e[k - 1] < e[k]
    OBVIOUS
  <2>1. e[k] = e[k - 1] + s[k] /\ e[k - 1] \in Nat /\ s[k] \in Nat /\ s[k] >= HeaderSize
    BY <1>2, <1>4, <1>9
  <2> QED BY <2>1, <1>1
<1>12. \A j, k \in 0..n : j < k => e[j] < e[k]
  BY <1>2, <1>9, <1>11, TotalsRise
<1>13. \A k \in 0..n : e[k] \in Nat
  BY <1>9
<1> QED BY <1>2, <1>4, <1>7, <1>9, <1>12, <1>13 DEF n

-----------------------------------------------------------------------------
(* PackageServer: the invariant, a connection at a time.                    *)

PkgEnd(c, k) == Packages!EndOf(c, k)
PkgDone(c) == Len(pkgDelivered[c])

PkgTypes ==
    /\ pkgStream \in [Connections -> PackageStreams] /\ pkgArrived \in [Connections -> Nat]
    /\ context \in [Connections -> {"none", "live", "deleted"}]
    /\ pkgEntry \in [Connections -> {"absent", "context", "null"}]
    /\ pkgBuffer \in [Connections -> Seq(Nat)]
    /\ pkgCloser \in [Connections -> {"no", "delete", "done"}]
    /\ pkgReceiver \in [Connections -> {"accept", "idle", "write", "scan", "notified",
                                        "kick", "over", "gone"}]
    /\ pkgDelivered \in [Connections -> Seq(Seq(Nat))]
    /\ whole \in [Connections -> BOOLEAN] /\ pkgOverrun \in [Connections -> BOOLEAN]
    /\ deletedInUse \in [Connections -> BOOLEAN] /\ pkgMisused \in [Connections -> BOOLEAN]

\* Who has the context, and who closed the connection.
PkgLife(c) ==
    /\ (pkgReceiver[c] = "accept" <=> context[c] = "none")
    /\ context[c] = "none" => pkgEntry[c] = "absent" /\ pkgArrived[c] = 0
    /\ context[c] = "live" => pkgEntry[c] = "context"
    /\ context[c] = "live" /\ pkgCloser[c] = "done"
           => pkgReceiver[c] = "over" /\ pkgArrived[c] = 0
    /\ context[c] = "deleted" => pkgCloser[c] = "done" /\ pkgEntry[c] # "context"
    /\ context[c] # "deleted" => ~pkgMisused[c]
    /\ pkgReceiver[c] = "over" => pkgCloser[c] # "no"
    /\ context[c] = "deleted" /\ Packages!Handling(c) => deletedInUse[c]
    /\ pkgMisused[c] => deletedInUse[c]

\* The buffer holds what arrived behind the last package that was notified, or
\* that package itself as long as it is not dropped.
PkgBytes(c) ==
    /\ pkgBuffer[c] \in Seq(1..Packages!StreamEnd(c))
    /\ pkgArrived[c] <= Packages!StreamEnd(c)
    /\ pkgReceiver[c] \in {"accept", "idle", "write", "scan", "notified"}
           => Len(pkgBuffer[c]) <= PackageLimit
    /\ pkgReceiver[c] = "notified" => Packages!TakesFirst(c)
    /\ ~pkgOverrun[c] => PkgDone(c) <= PkgCount(c)
    /\ Packages!Sound(c) /\ pkgReceiver[c] # "notified" =>
        /\ PkgEnd(c, PkgDone(c)) <= pkgArrived[c]
        /\ pkgBuffer[c] = Run(PkgEnd(c, PkgDone(c)), pkgArrived[c])
    /\ Packages!Sound(c) /\ pkgReceiver[c] = "notified" =>
        /\ PkgDone(c) # 0 /\ pkgArrived[c] = PkgEnd(c, PkgDone(c))
        /\ pkgBuffer[c] = Run(PkgEnd(c, PkgDone(c) - 1), pkgArrived[c])

PkgTold(c) ==
    ~pkgOverrun[c] => \A k \in 1..PkgDone(c) :
        pkgDelivered[c][k] = Packages!PayloadAt(c, k) /\ pkgStream[c][k].title

\* As long as each receive brought one package, there is none or one to notify.
PkgWhole(c) ==
    whole[c] =>
        /\ ~pkgOverrun[c]
        /\ pkgReceiver[c] \in {"accept", "idle", "write"} => pkgArrived[c] = PkgEnd(c, PkgDone(c))
        /\ pkgReceiver[c] = "scan" =>
            \/ pkgArrived[c] = PkgEnd(c, PkgDone(c))
            \/ PkgDone(c) < PkgCount(c) /\ pkgArrived[c] = PkgEnd(c, PkgDone(c) + 1)

PkgOne(c) == PkgLife(c) /\ PkgBytes(c) /\ PkgTold(c) /\ PkgWhole(c)
PkgInv == PkgTypes /\ \A c \in Connections : PkgOne(c)

\* Nothing has arrived.
LEMMA PkgInit == Packages!Init => PkgInv
<1> SUFFICES ASSUME Packages!Init PROVE PkgInv
  OBVIOUS
<1> USE DEF Packages!Init, Packages!All
<1>1. PkgTypes
  BY DEF PkgTypes
<1>2. ASSUME NEW c \in Connections PROVE PkgOne(c)
  <2>1. pkgStream[c] \in PackageStreams
    OBVIOUS
  <2>2. /\ pkgArrived[c] = 0 /\ pkgBuffer[c] = <<>> /\ pkgDelivered[c] = <<>>
        /\ pkgReceiver[c] = "accept" /\ ~pkgOverrun[c]
    OBVIOUS
  <2>3. PkgDone(c) = 0 /\ PkgEnd(c, 0) = 0 /\ PkgCount(c) \in Nat
    BY <2>1, <2>2, PkgEnds DEF PkgDone, PkgEnd
  <2>4. Packages!StreamEnd(c) \in Nat
    BY <2>1, <2>3, PkgEnds DEF Packages!StreamEnd, PkgCount
  <2>5. Run(0, 0) = <<>>
    BY RunFacts
  <2>6. PkgLife(c)
    BY DEF PkgLife, Packages!Handling
  <2>7. PkgBytes(c)
    <3>1. Len(<<>>) = 0 /\ PackageLimit \in Nat /\ <<>> \in Seq(1..Packages!StreamEnd(c))
      BY ProtocolsAssumption
    <3> QED BY <3>1, <2>2, <2>3, <2>4, <2>5 DEF PkgBytes
  <2>8. PkgTold(c) /\ PkgWhole(c)
    BY <2>2, <2>3 DEF PkgTold, PkgWhole
  <2> QED BY <2>6, <2>7, <2>8 DEF PkgOne
<1> QED BY <1>1, <1>2 DEF PkgInv

\* A connection nothing happens to.
PkgSame(c) ==
    /\ pkgStream'[c] = pkgStream[c] /\ pkgArrived'[c] = pkgArrived[c]
    /\ context'[c] = context[c] /\ pkgEntry'[c] = pkgEntry[c]
    /\ pkgBuffer'[c] = pkgBuffer[c] /\ pkgCloser'[c] = pkgCloser[c]
    /\ pkgReceiver'[c] = pkgReceiver[c] /\ pkgDelivered'[c] = pkgDelivered[c]
    /\ whole'[c] = whole[c] /\ pkgOverrun'[c] = pkgOverrun[c]
    /\ deletedInUse'[c] = deletedInUse[c] /\ pkgMisused'[c] = pkgMisused[c]

\* Ends of packages are those of the stream.
LEMMA PkgEndsStay ==
    ASSUME NEW c, pkgStream'[c] = pkgStream[c]
    PROVE  /\ PkgCount(c)' = PkgCount(c) /\ Packages!StreamEnd(c)' = Packages!StreamEnd(c)
           /\ \A k : /\ PkgEnd(c, k)' = PkgEnd(c, k)
                     /\ Packages!PayloadAt(c, k)' = Packages!PayloadAt(c, k)
<1>1. \A k : Packages!EndOf(c, k)' = Packages!EndOf(c, k)
  BY DEF Packages!EndOf
<1> QED BY <1>1 DEF PkgCount, PkgEnd, Packages!StreamEnd, Packages!PayloadAt

\* The package at the front is that of the same bytes.
LEMMA PkgFrontStays ==
    ASSUME NEW c, pkgStream'[c] = pkgStream[c], pkgBuffer'[c] = pkgBuffer[c]
    PROVE  /\ Packages!FirstSize(c)' = Packages!FirstSize(c)
           /\ Packages!FirstPackage(c)' = Packages!FirstPackage(c)
           /\ (Packages!TakesFirst(c)' <=> Packages!TakesFirst(c))
<1>1. \A k : Packages!EndOf(c, k)' = Packages!EndOf(c, k)
  BY DEF Packages!EndOf
<1>2. Packages!FirstPackage(c)' = Packages!FirstPackage(c)
  <2> DEFINE S == {k \in DOMAIN pkgStream[c] : Packages!EndOf(c, k - 1) + 1 = Head(pkgBuffer[c])}
             T == {k \in DOMAIN pkgStream'[c] : Packages!EndOf(c, k - 1)' + 1 = Head(pkgBuffer'[c])}
             s == pkgStream[c]
             t == pkgStream'[c]
  <2>1. S = T
    BY <1>1
  <2>2. Packages!FirstPackage(c) = IF S = {} THEN [payload |-> 0, title |-> FALSE]
                                   ELSE s[CHOOSE k \in S : TRUE]
    BY DEF Packages!FirstPackage
  <2>3. Packages!FirstPackage(c)' = IF T = {} THEN [payload |-> 0, title |-> FALSE]
                                    ELSE t[CHOOSE k \in T : TRUE]
    BY DEF Packages!FirstPackage
  <2>4. s = t
    OBVIOUS
  <2> HIDE DEF S, T, s, t
  <2> QED BY <2>1, <2>2, <2>3, <2>4
<1>3. Packages!FirstSize(c)' = Packages!FirstSize(c)
  BY <1>2 DEF Packages!FirstSize
<1> QED BY <1>2, <1>3 DEF Packages!TakesFirst

\* It keeps the invariant, where nothing happens to it.
LEMMA PkgOthers == ASSUME NEW c, PkgOne(c), PkgSame(c) PROVE PkgOne(c)'
<1>1. /\ PkgCount(c)' = PkgCount(c) /\ Packages!StreamEnd(c)' = Packages!StreamEnd(c)
      /\ \A k : /\ PkgEnd(c, k)' = PkgEnd(c, k)
                /\ Packages!PayloadAt(c, k)' = Packages!PayloadAt(c, k)
  BY PkgEndsStay DEF PkgSame
<1>2. Packages!TakesFirst(c)' <=> Packages!TakesFirst(c)
  BY PkgFrontStays DEF PkgSame
<1>3. PkgDone(c)' = PkgDone(c)
  BY DEF PkgSame, PkgDone
<1>4. PkgLife(c)'
  BY DEF PkgOne, PkgLife, PkgSame, Packages!Handling
<1>5. PkgBytes(c)'
  BY <1>1, <1>2, <1>3 DEF PkgOne, PkgBytes, PkgSame, Packages!Sound
<1>6. PkgTold(c)' /\ PkgWhole(c)'
  BY <1>1, <1>3 DEF PkgOne, PkgTold, PkgWhole, PkgSame
<1> QED BY <1>4, <1>5, <1>6 DEF PkgOne

-----------------------------------------------------------------------------
(* PackageServer: the steps.                                                *)

PkgData == <<pkgStream, pkgArrived, whole, pkgBuffer, pkgDelivered, pkgOverrun>>

\* A step that leaves the bytes alone keeps what is known of them, if the worker
\* goes where they are fit for.
LEMMA PkgQuiet ==
    ASSUME NEW c, PkgOne(c), UNCHANGED PkgData, PkgLife(c)',
           pkgMisused[c] => pkgMisused'[c],
           pkgReceiver'[c] \in {"accept", "idle", "write", "scan", "notified"}
               => pkgReceiver[c] \in {"accept", "idle", "write", "scan", "notified"},
           pkgReceiver'[c] = "notified" => pkgReceiver[c] = "notified",
           pkgReceiver[c] = "notified" => pkgReceiver'[c] = "notified" \/ pkgMisused'[c],
           pkgReceiver'[c] = "scan" => pkgReceiver[c] = "scan",
           whole[c] /\ pkgReceiver'[c] \in {"accept", "idle", "write"}
               => pkgArrived[c] = PkgEnd(c, PkgDone(c))
    PROVE  PkgOne(c)'
<1>1. /\ PkgCount(c)' = PkgCount(c) /\ Packages!StreamEnd(c)' = Packages!StreamEnd(c)
      /\ \A k : /\ PkgEnd(c, k)' = PkgEnd(c, k)
                /\ Packages!PayloadAt(c, k)' = Packages!PayloadAt(c, k)
  BY PkgEndsStay DEF PkgData
<1>2. Packages!TakesFirst(c)' <=> Packages!TakesFirst(c)
  BY PkgFrontStays DEF PkgData
<1>3. PkgDone(c)' = PkgDone(c)
  BY DEF PkgData, PkgDone
<1>4. PkgBytes(c)'
  BY <1>1, <1>2, <1>3 DEF PkgOne, PkgBytes, PkgData, Packages!Sound
<1>5. PkgTold(c)'
  BY <1>1, <1>3 DEF PkgOne, PkgTold, PkgData
<1>6. PkgWhole(c)'
  BY <1>1, <1>3 DEF PkgOne, PkgWhole, PkgData
<1> QED BY <1>4, <1>5, <1>6 DEF PkgOne

\* Steps on the context and on the place of the worker only.
PkgMoves(c) ==
    \/ Packages!AddContext(c) \/ Packages!GetContext(c) \/ Packages!DelContext(c)
    \/ Packages!Disconnect(c) \/ Packages!UseDeleted(c) \/ Packages!IllegalTitle(c)
    \/ Packages!Kick(c)

\* They keep the invariant of the connection and concern no other.
LEMMA PkgMovesKeep ==
    ASSUME PkgInv, NEW c \in Connections, PkgMoves(c)
    PROVE  /\ PkgTypes' /\ PkgOne(c)'
           /\ \A e \in Connections \ {c} : PkgSame(e)
<1> USE DEF PkgInv
<1>1. PkgTypes /\ PkgOne(c)
  OBVIOUS
<1>2. UNCHANGED PkgData
  BY DEF PkgMoves, PkgData, Packages!AddContext, Packages!GetContext, Packages!DelContext,
         Packages!Disconnect, Packages!UseDeleted, Packages!IllegalTitle, Packages!Kick,
         Packages!peer, Packages!history
<1>3. PkgTypes' /\ \A e \in Connections \ {c} : PkgSame(e)
  <2> USE DEF PkgTypes, PkgSame, PkgData, Packages!peer, Packages!lifetime, Packages!history,
              Packages!Goto
  <2>1. CASE Packages!AddContext(c)
    BY <1>1, <1>2, <2>1 DEF Packages!AddContext, Packages!AfterReceive
  <2>2. CASE Packages!GetContext(c)
    BY <1>1, <1>2, <2>2, ZenonT(40) DEF Packages!GetContext
  <2>3. CASE Packages!DelContext(c)
    <3>1. Packages!Handling(c) \in BOOLEAN
      BY DEF Packages!Handling
    <3> QED BY <1>1, <1>2, <2>3, <3>1 DEF Packages!DelContext
  <2>4. CASE Packages!Disconnect(c)
    BY <1>1, <1>2, <2>4 DEF Packages!Disconnect
  <2>5. CASE Packages!UseDeleted(c)
    BY <1>1, <1>2, <2>5 DEF Packages!UseDeleted
  <2>6. CASE Packages!IllegalTitle(c)
    BY <1>1, <1>2, <2>6 DEF Packages!IllegalTitle
  <2>7. CASE Packages!Kick(c)
    BY <1>1, <1>2, <2>7 DEF Packages!Kick
  <2> QED BY <2>1, <2>2, <2>3, <2>4, <2>5, <2>6, <2>7 DEF PkgMoves
<1>4. PkgLife(c)'
  <2> USE DEF PkgTypes, PkgOne, PkgLife, Packages!Handling, Packages!peer, Packages!lifetime,
              Packages!history, Packages!Goto, Packages!Sound
  <2>1. CASE Packages!AddContext(c)
    BY <1>1, <2>1 DEF Packages!AddContext, Packages!AfterReceive
  <2>2. CASE Packages!GetContext(c)
    BY <1>1, <2>2 DEF Packages!GetContext
  <2>3. CASE Packages!DelContext(c)
    BY <1>1, <2>3 DEF Packages!DelContext
  <2>4. CASE Packages!Disconnect(c)
    BY <1>1, <2>4 DEF Packages!Disconnect
  <2>5. CASE Packages!UseDeleted(c)
    BY <1>1, <2>5 DEF Packages!UseDeleted
  <2>6. CASE Packages!IllegalTitle(c)
    BY <1>1, <2>6 DEF Packages!IllegalTitle, Packages!Usable
  <2>7. CASE Packages!Kick(c)
    BY <1>1, <2>7 DEF Packages!Kick
  <2> QED BY <2>1, <2>2, <2>3, <2>4, <2>5, <2>6, <2>7 DEF PkgMoves
<1>5. /\ pkgMisused[c] => pkgMisused'[c]
      /\ \/ pkgReceiver'[c] = pkgReceiver[c]
         \/ pkgReceiver[c] \in {"accept", "idle"} /\ pkgReceiver'[c] \in {"idle", "write", "over"}
         \/ pkgReceiver[c] \in {"scan", "kick"} /\ pkgReceiver'[c] \in {"kick", "over"}
         \/ pkgReceiver'[c] = "gone" /\ pkgMisused'[c]
  <2> USE DEF PkgTypes, Packages!history, Packages!Goto
  <2>1. CASE Packages!AddContext(c)
    BY <1>1, <2>1 DEF Packages!AddContext, Packages!AfterReceive
  <2>2. CASE Packages!GetContext(c)
    BY <1>1, <2>2 DEF Packages!GetContext
  <2>3. CASE Packages!DelContext(c)
    BY <1>1, <2>3 DEF Packages!DelContext
  <2>4. CASE Packages!Disconnect(c)
    BY <1>1, <2>4 DEF Packages!Disconnect
  <2>5. CASE Packages!UseDeleted(c)
    BY <1>1, <2>5 DEF Packages!UseDeleted
  <2>6. CASE Packages!IllegalTitle(c)
    BY <1>1, <2>6 DEF Packages!IllegalTitle
  <2>7. CASE Packages!Kick(c)
    BY <1>1, <2>7 DEF Packages!Kick
  <2> QED BY <2>1, <2>2, <2>3, <2>4, <2>5, <2>6, <2>7 DEF PkgMoves
<1>6. whole[c] /\ pkgReceiver'[c] \in {"accept", "idle", "write"}
          => pkgArrived[c] = PkgEnd(c, PkgDone(c))
  <2>1. pkgReceiver'[c] \in {"accept", "idle", "write"}
            => pkgReceiver[c] \in {"accept", "idle", "write"}
    BY <1>5
  <2> QED BY <2>1, <1>1 DEF PkgOne, PkgWhole
<1>7. PkgOne(c)'
  BY <1>1, <1>2, <1>4, <1>5, <1>6, PkgQuiet
<1> QED BY <1>3, <1>7

\* A buffer that begins with a package, begins with that package only.
LEMMA PkgFrontAt ==
    ASSUME NEW c, pkgStream[c] \in PackageStreams, NEW k \in 1..PkgCount(c),
           Head(pkgBuffer[c]) = PkgEnd(c, k - 1) + 1
    PROVE  /\ Packages!FirstPackage(c) = pkgStream[c][k]
           /\ Packages!FirstSize(c) = Packages!PackageSize(pkgStream[c][k])
           /\ PkgEnd(c, k) = PkgEnd(c, k - 1) + Packages!FirstSize(c)
           /\ Packages!FirstSize(c) >= HeaderSize /\ Packages!FirstSize(c) \in Nat
<1>1. /\ PkgCount(c) \in Nat
      /\ \A j \in 0..PkgCount(c) : PkgEnd(c, j) \in Nat
      /\ \A i, j \in 0..PkgCount(c) : i < j => PkgEnd(c, i) < PkgEnd(c, j)
      /\ PkgEnd(c, k) = PkgEnd(c, k - 1) + Packages!PackageSize(pkgStream[c][k])
      /\ Packages!PackageSize(pkgStream[c][k]) \in Nat
      /\ Packages!PackageSize(pkgStream[c][k]) >= HeaderSize
  BY PkgEnds DEF PkgEnd
<1>2. DOMAIN pkgStream[c] = 1..PkgCount(c)
  BY ProtocolsAssumption DEF PkgCount
<1> DEFINE S == {j \in DOMAIN pkgStream[c] : Packages!EndOf(c, j - 1) + 1 = Head(pkgBuffer[c])}
<1>3. S = {k}
  <2>1. \A j \in 1..PkgCount(c) : PkgEnd(c, j - 1) + 1 = PkgEnd(c, k - 1) + 1 => j = k
    <3> SUFFICES ASSUME NEW j \in 1..PkgCount(c), j # k
                 PROVE  PkgEnd(c, j - 1) + 1 # PkgEnd(c, k - 1) + 1
      OBVIOUS
    <3>1. j - 1 \in 0..PkgCount(c) /\ k - 1 \in 0..PkgCount(c) /\ (j - 1 < k - 1 \/ k - 1 < j - 1)
      BY <1>1
    <3>2. PkgEnd(c, j - 1) \in Nat /\ PkgEnd(c, k - 1) \in Nat
      BY <1>1, <3>1
    <3>3. PkgEnd(c, j - 1) < PkgEnd(c, k - 1) \/ PkgEnd(c, k - 1) < PkgEnd(c, j - 1)
      BY <1>1, <3>1
    <3> QED BY <3>2, <3>3
  <2> QED BY <1>2, <2>1 DEF PkgEnd
<1>4. Packages!FirstPackage(c) = IF S = {} THEN [payload |-> 0, title |-> FALSE]
                                 ELSE pkgStream[c][CHOOSE j \in S : TRUE]
  BY DEF Packages!FirstPackage
<1>5. Packages!FirstPackage(c) = pkgStream[c][k]
  <2>1. (CHOOSE j \in {k} : TRUE) = k /\ {k} # {}
    OBVIOUS
  <2> HIDE DEF S
  <2> QED BY <1>3, <1>4, <2>1
<1>6. Packages!FirstSize(c) = Packages!PackageSize(pkgStream[c][k])
  BY <1>5 DEF Packages!FirstSize
<1> QED BY <1>1, <1>5, <1>6

\* With a header in it, the buffer begins with the package that is due.
LEMMA PkgFront ==
    ASSUME PkgTypes, NEW c \in Connections, PkgOne(c), Packages!Sound(c),
           pkgReceiver[c] = "scan", Len(pkgBuffer[c]) >= HeaderSize
    PROVE  /\ PkgDone(c) \in Nat /\ PkgDone(c) + 1 \in 1..PkgCount(c)
           /\ PkgEnd(c, PkgDone(c)) \in Nat /\ PkgEnd(c, PkgDone(c) + 1) \in Nat
           /\ PkgEnd(c, PkgDone(c)) < pkgArrived[c]
           /\ pkgBuffer[c] = Run(PkgEnd(c, PkgDone(c)), pkgArrived[c])
           /\ Len(pkgBuffer[c]) = pkgArrived[c] - PkgEnd(c, PkgDone(c))
           /\ Packages!FirstPackage(c) = pkgStream[c][PkgDone(c) + 1]
           /\ Packages!FirstSize(c) = PkgEnd(c, PkgDone(c) + 1) - PkgEnd(c, PkgDone(c))
           /\ Packages!FirstSize(c) >= HeaderSize
<1> DEFINE d == PkgDone(c)
           n == PkgCount(c)
           a == PkgEnd(c, d)
<1>1. HeaderSize \in Nat \ {0} /\ pkgStream[c] \in PackageStreams /\ pkgArrived[c] \in Nat
      /\ pkgBuffer[c] \in Seq(Nat)
  BY ProtocolsAssumption DEF PkgTypes
<1>2. pkgDelivered[c] \in Seq(Seq(Nat))
  BY DEF PkgTypes
<1>3. d \in Nat
  BY <1>2 DEF PkgDone
<1>4. /\ n \in Nat /\ d <= n /\ a <= pkgArrived[c] /\ pkgBuffer[c] = Run(a, pkgArrived[c])
      /\ pkgArrived[c] <= PkgEnd(c, n)
  BY <1>1, PkgEnds DEF PkgOne, PkgBytes, Packages!Sound, Packages!StreamEnd, PkgEnd, PkgCount
<1>5. \A j \in 0..n : PkgEnd(c, j) \in Nat
  BY <1>1, PkgEnds DEF PkgEnd
<1>6. a \in Nat
  BY <1>3, <1>4, <1>5
<1> HIDE DEF d, n, a
<1>7. Len(pkgBuffer[c]) = pkgArrived[c] - a
  BY <1>1, <1>4, <1>6, RunFacts
<1>8. a < pkgArrived[c]
  BY <1>1, <1>4, <1>6, <1>7
<1>9. d # n
  <2> SUFFICES ASSUME d = n PROVE FALSE
    OBVIOUS
  <2>1. a = PkgEnd(c, n)
    BY DEF a
  <2> QED BY <2>1, <1>1, <1>4, <1>6, <1>8
<1>10. d + 1 \in 1..n /\ (d + 1) - 1 = d
  BY <1>3, <1>4, <1>9
<1>11. pkgBuffer[c][1] = a + 1 /\ Head(pkgBuffer[c]) = pkgBuffer[c][1]
  <2>1. 1 \in 1..(pkgArrived[c] - a)
    BY <1>1, <1>6, <1>8
  <2>2. pkgBuffer[c][1] = a + 1
    <3> DEFINE r == Run(a, pkgArrived[c])
    <3>1. \A i \in 1..(pkgArrived[c] - a) : r[i] = a + i
      BY <1>1, <1>4, <1>6, RunFacts
    <3>2. pkgBuffer[c] = r
      BY <1>4
    <3> HIDE DEF r
    <3> QED BY <2>1, <3>1, <3>2
  <2>3. pkgBuffer[c] # <<>>
    BY <2>1, <1>7
  <2> QED BY <2>2, <2>3, <1>1
<1>12. /\ Packages!FirstPackage(c) = pkgStream[c][d + 1]
       /\ PkgEnd(c, d + 1) = a + Packages!FirstSize(c)
       /\ Packages!FirstSize(c) >= HeaderSize /\ Packages!FirstSize(c) \in Nat
  BY <1>1, <1>10, <1>11, PkgFrontAt DEF n, a
<1>13. PkgEnd(c, d + 1) \in Nat
  BY <1>5, <1>10
<1> QED BY <1>1, <1>3, <1>4, <1>6, <1>7, <1>8, <1>10, <1>12, <1>13 DEF d, n, a

\* Waiting for the next receive.
LEMMA PkgWaits ==
    ASSUME PkgInv, NEW c \in Connections, Packages!WaitForMore(c)
    PROVE  /\ PkgTypes' /\ PkgOne(c)'
           /\ \A e \in Connections \ {c} : PkgSame(e)
<1> USE DEF PkgInv
<1>1. PkgTypes /\ PkgOne(c)
  OBVIOUS
<1>2. /\ UNCHANGED PkgData /\ UNCHANGED <<context, pkgEntry, pkgCloser, deletedInUse, pkgMisused>>
      /\ pkgReceiver[c] = "scan" /\ pkgReceiver' = [pkgReceiver EXCEPT ![c] = Packages!AfterReceive(c)]
      /\ Packages!Sound(c) /\ ~Packages!TakesFirst(c)
  BY DEF Packages!WaitForMore, PkgData, Packages!peer, Packages!lifetime, Packages!history,
         Packages!Goto, Packages!Usable
<1>3. /\ Packages!AfterReceive(c) \in {"idle", "over"}
      /\ Packages!AfterReceive(c) = "over" => pkgCloser[c] # "no"
  BY DEF Packages!AfterReceive
<1>4. PkgTypes' /\ \A e \in Connections \ {c} : PkgSame(e)
  BY <1>1, <1>2, <1>3 DEF PkgTypes, PkgSame, PkgData
<1>5. pkgReceiver'[c] = Packages!AfterReceive(c)
  BY <1>1, <1>2 DEF PkgTypes
<1>6. PkgLife(c)'
  BY <1>1, <1>2, <1>3, <1>5 DEF PkgOne, PkgLife, Packages!Handling
<1>7. ASSUME whole[c] PROVE pkgArrived[c] = PkgEnd(c, PkgDone(c))
  <2> SUFFICES ASSUME pkgArrived[c] # PkgEnd(c, PkgDone(c)) PROVE FALSE
    OBVIOUS
  <2>1. /\ PkgDone(c) < PkgCount(c) /\ pkgArrived[c] = PkgEnd(c, PkgDone(c) + 1)
    BY <1>1, <1>2, <1>7 DEF PkgOne, PkgWhole
  <2>2. /\ pkgStream[c] \in PackageStreams /\ pkgArrived[c] \in Nat
        /\ pkgDelivered[c] \in Seq(Seq(Nat)) /\ HeaderSize \in Nat
    BY <1>1, ProtocolsAssumption DEF PkgTypes
  <2>3. PkgDone(c) \in Nat
    BY <2>2 DEF PkgDone
  <2> DEFINE d == PkgDone(c)
             a == PkgEnd(c, d)
             b == PkgEnd(c, d + 1)
             s == Packages!PackageSize(pkgStream[c][d + 1])
  <2>4. PkgCount(c) \in Nat
    BY <2>2, PkgEnds
  <2>5. d + 1 \in 1..PkgCount(c) /\ d \in 0..PkgCount(c) /\ (d + 1) - 1 = d
    BY <2>1, <2>3, <2>4
  <2>6. b = a + s /\ s \in Nat /\ s >= HeaderSize /\ a \in Nat
    BY <2>2, <2>5, PkgEnds DEF PkgEnd
  <2>7. pkgBuffer[c] = Run(a, b)
    BY <1>1, <1>2, <2>1 DEF PkgOne, PkgBytes
  <2> HIDE DEF a, b, s
  <2>8. Len(pkgBuffer[c]) = s
    BY <2>6, <2>7, RunFacts
  <2>9. Packages!FirstSize(c) = b - a
    BY <1>1, <1>2, <2>2, <2>6, <2>8, PkgFront DEF a, b
  <2>10. Packages!FirstSize(c) = Len(pkgBuffer[c]) /\ Len(pkgBuffer[c]) >= HeaderSize
    BY <2>6, <2>8, <2>9
  <2> QED BY <1>2, <2>2, <2>6, <2>8, <2>10 DEF Packages!TakesFirst
<1>8. PkgOne(c)'
  BY <1>1, <1>2, <1>3, <1>5, <1>6, <1>7, PkgQuiet
<1> QED BY <1>4, <1>8

\* A receive adds its bytes to the buffer.
LEMMA PkgWrites ==
    ASSUME PkgInv, NEW c \in Connections, NEW n \in 1..PackageChunk, Packages!Write(c, n)
    PROVE  /\ PkgTypes' /\ PkgOne(c)'
           /\ \A e \in Connections \ {c} : PkgSame(e)
<1> USE DEF PkgInv
<1>1. PkgTypes /\ PkgOne(c) /\ PackageChunk \in Nat /\ PackageLimit \in Nat /\ n \in Nat /\ n # 0
  BY ProtocolsAssumption
<1> DEFINE p == pkgArrived[c]
           more == Run(p, p + n)
           long == pkgBuffer[c] \o more
           d == PkgDone(c)
           a == PkgEnd(c, d)
           brought == \E k \in DOMAIN pkgStream[c] :
                          p = PkgEnd(c, k - 1) /\ p + n = PkgEnd(c, k)
           next == IF Len(pkgBuffer[c]) + n > PackageLimit THEN "kick" ELSE "scan"
<1>2. /\ UNCHANGED <<pkgStream, pkgDelivered, pkgOverrun, context, pkgEntry, pkgCloser,
                     deletedInUse, pkgMisused>>
      /\ pkgReceiver[c] = "write" /\ Packages!Sound(c) /\ context[c] = "live"
      /\ n <= Packages!StreamEnd(c) - p
      /\ pkgArrived' = [pkgArrived EXCEPT ![c] = p + n]
      /\ pkgBuffer' = [pkgBuffer EXCEPT ![c] = long]
      /\ pkgReceiver' = [pkgReceiver EXCEPT ![c] = next]
  BY DEF Packages!Write, Packages!lifetime, Packages!history, Packages!Goto, Packages!Usable,
         Packages!Positions, Run
<1>3. whole' = [whole EXCEPT ![c] = whole[c] /\ brought]
  BY DEF Packages!Write, PkgEnd
<1>4. /\ pkgStream[c] \in PackageStreams /\ p \in Nat /\ pkgBuffer[c] \in Seq(Nat)
      /\ pkgDelivered[c] \in Seq(Seq(Nat)) /\ PkgCount(c) \in Nat
      /\ DOMAIN pkgStream[c] = 1..PkgCount(c)
  <2>1. pkgStream[c] \in PackageStreams
    BY <1>1 DEF PkgTypes
  <2> QED BY <1>1, <2>1, ProtocolsAssumption, PkgEnds DEF PkgTypes, PkgCount
<1>5. \A k \in 0..PkgCount(c) : PkgEnd(c, k) \in Nat
  BY <1>4, PkgEnds DEF PkgEnd
<1>6. /\ d \in Nat /\ d <= PkgCount(c) /\ a \in Nat /\ a <= p
      /\ pkgBuffer[c] = Run(a, p) /\ Packages!StreamEnd(c) \in Nat /\ p + n <= Packages!StreamEnd(c)
  <2>1. d \in Nat /\ d <= PkgCount(c)
    BY <1>1, <1>2, <1>4 DEF PkgOne, PkgBytes, PkgDone, Packages!Sound
  <2>2. a \in Nat
    BY <1>4, <1>5, <2>1
  <2>3. Packages!StreamEnd(c) \in Nat
    <3>1. PkgEnd(c, PkgCount(c)) \in Nat
      BY <1>4, <1>5
    <3> QED BY <3>1 DEF Packages!StreamEnd, PkgCount, PkgEnd
  <2>4. a <= p /\ pkgBuffer[c] = Run(a, p)
    BY <1>1, <1>2 DEF PkgOne, PkgBytes
  <2> HIDE DEF a
  <2>5. p + n <= Packages!StreamEnd(c)
    BY <1>1, <1>2, <1>4, <2>3
  <2> QED BY <2>1, <2>2, <2>3, <2>4, <2>5
<1> HIDE DEF d, a, brought
<1>7. long = Run(a, p + n)
  <2> DEFINE q == p + n
  <2>1. q \in Nat /\ p <= q /\ more = Run(p, q)
    BY <1>1, <1>4
  <2> HIDE DEF q, more
  <2>2. Run(a, p) \o Run(p, q) = Run(a, q)
    BY <2>1, <1>4, <1>6, RunJoins
  <2> QED BY <2>1, <2>2, <1>6 DEF q
<1> HIDE DEF more, long
<1>8. long \in Seq(Nat) /\ Len(long) = (p + n) - a /\ long \in Seq(1..Packages!StreamEnd(c))
  <2> DEFINE q == p + n
             m == Packages!StreamEnd(c)
  <2>1. q \in Nat /\ a <= q /\ q <= m /\ m \in Nat /\ long = Run(a, q)
    BY <1>1, <1>4, <1>6, <1>7
  <2> HIDE DEF q, m
  <2>2. /\ Run(a, q) \in Seq(Nat) /\ Len(Run(a, q)) = q - a
        /\ \A k \in Nat : q <= k => Run(a, q) \in Seq(1..k)
    BY <2>1, <1>6, RunFacts
  <2> QED BY <2>1, <2>2 DEF q, m
<1>9. Len(pkgBuffer[c]) = p - a
  BY <1>4, <1>6, RunFacts
<1>10. next \in {"kick", "scan"} /\ (next = "scan" => Len(long) <= PackageLimit)
  BY <1>1, <1>4, <1>6, <1>8, <1>9
<1> HIDE DEF next
<1>11. brought \in BOOLEAN /\ p + n \in Nat
  BY <1>1, <1>4 DEF brought
<1>12. PkgTypes'
  BY <1>1, <1>2, <1>3, <1>8, <1>10, <1>11 DEF PkgTypes
<1>13. \A e \in Connections \ {c} : PkgSame(e)
  BY <1>1, <1>2, <1>3 DEF PkgTypes, PkgSame
<1>14. /\ pkgArrived'[c] = p + n /\ pkgBuffer'[c] = long /\ pkgReceiver'[c] = next
       /\ (whole'[c] <=> whole[c] /\ brought)
  BY <1>1, <1>2, <1>3 DEF PkgTypes
<1>15. /\ PkgCount(c)' = PkgCount(c) /\ Packages!StreamEnd(c)' = Packages!StreamEnd(c)
       /\ \A k : /\ PkgEnd(c, k)' = PkgEnd(c, k)
                 /\ Packages!PayloadAt(c, k)' = Packages!PayloadAt(c, k)
  BY <1>2, PkgEndsStay
<1>16. PkgDone(c)' = d
  BY <1>2 DEF d, PkgDone
<1>17. PkgLife(c)'
  BY <1>1, <1>2, <1>10, <1>14 DEF PkgOne, PkgLife, Packages!Handling
<1>18. PkgBytes(c)'
  <2>1. /\ pkgBuffer'[c] \in Seq(1..Packages!StreamEnd(c)') /\ pkgArrived'[c] <= Packages!StreamEnd(c)'
        /\ (pkgReceiver'[c] = "scan" => Len(pkgBuffer'[c]) <= PackageLimit)
        /\ pkgReceiver'[c] \in {"scan", "kick"}
    BY <1>6, <1>8, <1>10, <1>14, <1>15
  <2>2. PkgEnd(c, PkgDone(c))' = a
    BY <1>15, <1>16 DEF a, PkgDone, PkgEnd
  <2>3. a <= pkgArrived'[c] /\ pkgBuffer'[c] = Run(a, pkgArrived'[c])
    BY <1>1, <1>4, <1>6, <1>7, <1>14
  <2>4. PkgDone(c)' <= PkgCount(c)'
    BY <1>6, <1>15, <1>16
  <2> QED BY <2>1, <2>2, <2>3, <2>4 DEF PkgBytes
<1>19. PkgTold(c)'
  BY <1>1, <1>2, <1>15, <1>16 DEF PkgOne, PkgTold, d
<1>20. PkgWhole(c)'
  <2> SUFFICES ASSUME whole'[c]
               PROVE  ~pkgOverrun'[c] /\ d < PkgCount(c) /\ p + n = PkgEnd(c, d + 1)
    BY <1>10, <1>14, <1>15, <1>16 DEF PkgWhole
  <2>1. whole[c] /\ brought
    BY <1>14
  <2>2. p = a /\ ~pkgOverrun[c]
    BY <1>1, <1>2, <2>1 DEF PkgOne, PkgWhole, a, d
  <2>3. PICK k \in 1..PkgCount(c) : p = PkgEnd(c, k - 1) /\ p + n = PkgEnd(c, k)
    BY <1>4, <2>1 DEF brought
  <2>4. k - 1 = d
    <3>1. k - 1 \in 0..PkgCount(c) /\ d \in 0..PkgCount(c)
      BY <1>4, <1>6
    <3>2. PkgEnd(c, k - 1) = PkgEnd(c, d)
      BY <2>2, <2>3 DEF a
    <3>3. \A i, j \in 0..PkgCount(c) : i < j => PkgEnd(c, i) < PkgEnd(c, j)
      BY <1>4, PkgEnds DEF PkgEnd
    <3>4. ~(k - 1 < d) /\ ~(d < k - 1)
      BY <3>1, <3>2, <3>3, <1>5
    <3> QED BY <3>1, <3>4, <1>4
  <2>5. k = d + 1 /\ d < PkgCount(c)
    BY <2>4, <1>4, <1>6
  <2> QED BY <1>2, <2>2, <2>3, <2>5
<1> QED BY <1>12, <1>13, <1>17, <1>18, <1>19, <1>20 DEF PkgOne


\* A package that is there is notified: nothing else can be before it.
LEMMA PkgNotifies ==
    ASSUME PkgInv, NEW c \in Connections, Packages!NotifyPackage(c)
    PROVE  /\ PkgTypes' /\ PkgOne(c)'
           /\ \A e \in Connections \ {c} : PkgSame(e)
<1> USE DEF PkgInv
<1>1. PkgTypes /\ PkgOne(c)
  OBVIOUS
<1> DEFINE d == PkgDone(c)
           a == PkgEnd(c, d)
           b == PkgEnd(c, d + 1)
           p == pkgArrived[c]
           payload == SubSeq(pkgBuffer[c], HeaderSize + 1, Len(pkgBuffer[c]))
           over == Packages!FirstSize(c) > Len(pkgBuffer[c])
           told == pkgDelivered[c]
<1>2. /\ UNCHANGED <<pkgStream, pkgArrived, pkgBuffer, whole, context, pkgEntry, pkgCloser,
                     deletedInUse, pkgMisused>>
      /\ pkgReceiver[c] = "scan" /\ Packages!Sound(c) /\ context[c] = "live"
      /\ Packages!TakesFirst(c) /\ Packages!FirstPackage(c).title
      /\ pkgReceiver' = [pkgReceiver EXCEPT ![c] = "notified"]
      /\ pkgDelivered' = [pkgDelivered EXCEPT ![c] = Append(told, payload)]
      /\ pkgOverrun' = [pkgOverrun EXCEPT ![c] = over]
  BY DEF Packages!NotifyPackage, Packages!lifetime, Packages!peer, Packages!Goto,
         Packages!Usable
<1>3. /\ p \in Nat /\ pkgBuffer[c] \in Seq(Nat) /\ HeaderSize \in Nat \ {0} /\ told \in Seq(Seq(Nat))
  BY <1>1, ProtocolsAssumption DEF PkgTypes
<1>4. Len(pkgBuffer[c]) >= HeaderSize /\ Packages!FirstSize(c) >= Len(pkgBuffer[c])
  BY <1>2 DEF Packages!TakesFirst
<1>5. /\ d \in Nat /\ d + 1 \in 1..PkgCount(c) /\ a \in Nat /\ b \in Nat /\ a < p
      /\ pkgBuffer[c] = Run(a, p) /\ Len(pkgBuffer[c]) = p - a
      /\ Packages!FirstPackage(c) = pkgStream[c][d + 1]
      /\ Packages!FirstSize(c) = b - a /\ Packages!FirstSize(c) >= HeaderSize
  BY <1>1, <1>2, <1>4, PkgFront
<1>6. payload \in Seq(Nat)
  <2> DEFINE s == pkgBuffer[c]
             m == HeaderSize + 1
             n == Len(s)
  <2>1. s \in Seq(Nat) /\ m \in 1..(Len(s) + 1) /\ n \in (m - 1)..Len(s)
    BY <1>3, <1>4
  <2>2. payload = SubSeq(s, m, n)
    OBVIOUS
  <2> HIDE DEF s, m, n, payload
  <2> QED BY <2>1, <2>2, SubSeqProperties
<1>7. ~over => p = b
  BY <1>3, <1>4, <1>5
<1>8. ~over => payload = Packages!PayloadAt(c, d + 1)
  <2> SUFFICES ASSUME ~over PROVE payload = Packages!PayloadAt(c, d + 1)
    OBVIOUS
  <2> DEFINE m == a + HeaderSize
  <2>1. p = b /\ m \in Nat /\ a <= m /\ m <= b /\ m - a = HeaderSize
    BY <1>3, <1>5, <1>7
  <2>2. payload = SubSeq(Run(a, b), (m - a) + 1, b - a)
    <3>1. HeaderSize + 1 = (m - a) + 1 /\ Len(pkgBuffer[c]) = b - a /\ pkgBuffer[c] = Run(a, b)
      BY <1>5, <2>1
    <3> HIDE DEF m, a, b
    <3> QED BY <3>1
  <2>3. Packages!PayloadAt(c, d + 1) = Run(m, b)
    <3>1. (d + 1) - 1 = d
      BY <1>5
    <3> HIDE DEF d
    <3>2. Packages!PayloadAt(c, d + 1) = Packages!Positions(Packages!EndOf(c, d) + HeaderSize,
                                                            Packages!EndOf(c, d + 1))
      BY <3>1 DEF Packages!PayloadAt
    <3> QED BY <3>2 DEF PkgEnd, Packages!Positions, Run
  <2> HIDE DEF m, a, b, payload
  <2>4. SubSeq(Run(a, b), (m - a) + 1, b - a) = Run(m, b)
    BY <2>1, <1>5, RunJoins
  <2> QED BY <2>2, <2>3, <2>4
<1>9. Packages!FirstSize(c)' = Packages!FirstSize(c) /\ (Packages!TakesFirst(c)' <=> Packages!TakesFirst(c))
  BY <1>2, PkgFrontStays
<1>10. /\ PkgCount(c)' = PkgCount(c) /\ Packages!StreamEnd(c)' = Packages!StreamEnd(c)
       /\ \A k : /\ PkgEnd(c, k)' = PkgEnd(c, k)
                 /\ Packages!PayloadAt(c, k)' = Packages!PayloadAt(c, k)
  BY <1>2, PkgEndsStay
<1>11. over \in BOOLEAN
  OBVIOUS
<1> HIDE DEF over, payload
<1>12. PkgTypes' /\ \A e \in Connections \ {c} : PkgSame(e)
  <2>1. Append(told, payload) \in Seq(Seq(Nat))
    BY <1>3, <1>6
  <2> QED BY <1>1, <1>2, <1>11, <2>1 DEF PkgTypes, PkgSame
<1>13. /\ pkgReceiver'[c] = "notified" /\ pkgDelivered'[c] = Append(told, payload)
       /\ (pkgOverrun'[c] <=> over) /\ ~pkgOverrun[c]
  BY <1>1, <1>2 DEF PkgTypes, Packages!Sound
<1>14. PkgDone(c)' = d + 1 /\ d + 1 # 0 /\ (d + 1) - 1 = d
  BY <1>3, <1>5, <1>6, <1>13 DEF PkgDone
<1>15. PkgLife(c)'
  BY <1>1, <1>2, <1>13 DEF PkgOne, PkgLife, Packages!Handling
<1>16. PkgBytes(c)'
  <2>1. PkgEnd(c, PkgDone(c))' = b /\ PkgEnd(c, PkgDone(c) - 1)' = a
    <3> HIDE DEF d
    <3> QED BY <1>10, <1>14
  <2>2. PkgDone(c)' <= PkgCount(c)' /\ PkgDone(c)' # 0
    BY <1>5, <1>10, <1>14
  <2>3. ~pkgOverrun'[c] => pkgArrived'[c] = b /\ pkgBuffer'[c] = Run(a, pkgArrived'[c])
    BY <1>2, <1>5, <1>7, <1>13
  <2>4. /\ pkgBuffer'[c] \in Seq(1..Packages!StreamEnd(c)') /\ pkgArrived'[c] <= Packages!StreamEnd(c)'
        /\ Len(pkgBuffer'[c]) <= PackageLimit
    BY <1>1, <1>2, <1>10 DEF PkgOne, PkgBytes
  <2>5. Packages!Sound(c)' => ~pkgOverrun'[c]
    BY DEF Packages!Sound
  <2> HIDE DEF a, b
  <2> QED BY <1>2, <1>9, <1>13, <2>1, <2>2, <2>3, <2>4, <2>5 DEF PkgBytes
<1>17. PkgTold(c)'
  <2> SUFFICES ASSUME ~over, NEW k \in 1..(d + 1)
               PROVE  /\ pkgDelivered'[c][k] = Packages!PayloadAt(c, k)
                      /\ pkgStream[c][k].title
    BY <1>2, <1>10, <1>13, <1>14, ZenonT(40) DEF PkgTold
  <2>1. k \in 1..d \/ k = d + 1
    BY <1>5
  <2>2. CASE k = d + 1
    <3>1. pkgDelivered'[c][k] = payload
      BY <1>3, <1>6, <1>13, <2>2 DEF PkgDone
    <3> QED BY <3>1, <2>2, <1>2, <1>5, <1>8
  <2>3. CASE k \in 1..d
    <3>1. pkgDelivered'[c][k] = told[k]
      BY <1>3, <1>6, <1>13, <2>3 DEF PkgDone
    <3>2. told[k] = Packages!PayloadAt(c, k) /\ pkgStream[c][k].title
      BY <1>1, <1>13, <2>3 DEF PkgOne, PkgTold
    <3> QED BY <3>1, <3>2
  <2> QED BY <2>1, <2>2, <2>3
<1>18. PkgWhole(c)'
  <2> SUFFICES ASSUME whole[c] PROVE ~over
    BY <1>2, <1>13 DEF PkgWhole
  <2>1. p = a \/ p = b
    BY <1>1, <1>2 DEF PkgOne, PkgWhole
  <2>2. p = b
    BY <2>1, <1>3, <1>5
  <2> QED BY <2>2, <1>3, <1>5 DEF over
<1> QED BY <1>12, <1>15, <1>16, <1>17, <1>18 DEF PkgOne

\* Nothing is left behind the package that was notified.
LEMMA PkgDrops ==
    ASSUME PkgInv, NEW c \in Connections, Packages!DropPackage(c)
    PROVE  /\ PkgTypes' /\ PkgOne(c)'
           /\ \A e \in Connections \ {c} : PkgSame(e)
<1> USE DEF PkgInv
<1>1. PkgTypes /\ PkgOne(c)
  OBVIOUS
<1> DEFINE d == PkgDone(c)
           a == PkgEnd(c, d - 1)
           b == PkgEnd(c, d)
           rest == SubSeq(pkgBuffer[c], Packages!FirstSize(c) + 1, Len(pkgBuffer[c]))
<1>2. /\ UNCHANGED <<pkgStream, pkgArrived, whole, context, pkgEntry, pkgCloser, pkgDelivered,
                     pkgOverrun, deletedInUse, pkgMisused>>
      /\ pkgReceiver[c] = "notified" /\ Packages!Sound(c) /\ context[c] = "live"
      /\ pkgReceiver' = [pkgReceiver EXCEPT ![c] = "scan"]
      /\ pkgBuffer' = [pkgBuffer EXCEPT ![c] = rest]
  BY DEF Packages!DropPackage, Packages!lifetime, Packages!peer, Packages!history, Packages!Goto,
         Packages!Usable
<1>3. /\ pkgArrived[c] \in Nat /\ pkgBuffer[c] \in Seq(Nat) /\ HeaderSize \in Nat \ {0}
      /\ pkgStream[c] \in PackageStreams /\ pkgDelivered[c] \in Seq(Seq(Nat))
  BY <1>1, ProtocolsAssumption DEF PkgTypes
<1>4. /\ d \in Nat /\ d # 0 /\ d <= PkgCount(c) /\ pkgArrived[c] = b
      /\ pkgBuffer[c] = Run(a, b) /\ Packages!TakesFirst(c) /\ b <= Packages!StreamEnd(c)
  BY <1>1, <1>2, <1>3 DEF PkgOne, PkgBytes, PkgDone, Packages!Sound
<1>5. PkgCount(c) \in Nat
  BY <1>3, PkgEnds
<1>6. d \in 1..PkgCount(c) /\ d - 1 \in 0..PkgCount(c) /\ d \in 0..PkgCount(c)
  BY <1>4, <1>5
<1>7. a \in Nat /\ b \in Nat /\ b = a + Packages!PackageSize(pkgStream[c][d])
      /\ Packages!PackageSize(pkgStream[c][d]) >= HeaderSize
      /\ Packages!PackageSize(pkgStream[c][d]) \in Nat
  BY <1>3, <1>6, PkgEnds DEF PkgEnd
<1>8. Packages!FirstSize(c) >= Len(pkgBuffer[c])
  BY <1>4 DEF Packages!TakesFirst
<1> HIDE DEF d, a, b
<1>9. /\ Len(pkgBuffer[c]) = b - a /\ \A i \in 1..(b - a) : pkgBuffer[c][i] = a + i
  <2> DEFINE r == Run(a, b)
  <2>1. a <= b
    BY <1>3, <1>7
  <2>2. Len(r) = b - a /\ \A i \in 1..(b - a) : r[i] = a + i
    BY <2>1, <1>7, RunFacts
  <2>3. pkgBuffer[c] = r
    BY <1>4
  <2> HIDE DEF r
  <2> QED BY <2>2, <2>3
<1>10. Head(pkgBuffer[c]) = a + 1
  <2>1. 1 \in 1..(b - a)
    BY <1>3, <1>7
  <2>2. pkgBuffer[c][1] = a + 1 /\ Len(pkgBuffer[c]) # 0
    BY <2>1, <1>9
  <2>3. pkgBuffer[c] # <<>> /\ Head(pkgBuffer[c]) = pkgBuffer[c][1]
    BY <2>2, <1>3
  <2> QED BY <2>2, <2>3
<1>11. Packages!FirstSize(c) \in Nat
  BY <1>3, <1>6, <1>10, PkgFrontAt DEF a
<1>12. rest = <<>>
  BY <1>3, <1>8, <1>11
<1> HIDE DEF rest
<1>13. Run(b, b) = <<>> /\ <<>> \in Seq(Nat)
  BY <1>7, RunFacts
<1>14. PkgTypes' /\ \A e \in Connections \ {c} : PkgSame(e)
  BY <1>1, <1>2, <1>12, <1>13 DEF PkgTypes, PkgSame
<1>15. pkgReceiver'[c] = "scan" /\ pkgBuffer'[c] = <<>>
  BY <1>1, <1>2, <1>12 DEF PkgTypes
<1>16. /\ PkgCount(c)' = PkgCount(c) /\ Packages!StreamEnd(c)' = Packages!StreamEnd(c)
       /\ \A k : /\ PkgEnd(c, k)' = PkgEnd(c, k)
                 /\ Packages!PayloadAt(c, k)' = Packages!PayloadAt(c, k)
  BY <1>2, PkgEndsStay
<1>17. PkgDone(c)' = d
  BY <1>2 DEF d, PkgDone
<1>18. PkgLife(c)'
  BY <1>1, <1>2, <1>15 DEF PkgOne, PkgLife, Packages!Handling
<1>19. PkgEnd(c, PkgDone(c))' = b
  BY <1>16, <1>17 DEF b
<1>20. PkgBytes(c)'
  <2>1. <<>> \in Seq(1..Packages!StreamEnd(c)') /\ Len(<<>>) = 0 /\ 0 <= PackageLimit
    BY ProtocolsAssumption
  <2>2. /\ pkgBuffer'[c] \in Seq(1..Packages!StreamEnd(c)') /\ Len(pkgBuffer'[c]) <= PackageLimit
    BY <1>15, <2>1
  <2>3. pkgArrived'[c] = b /\ b <= pkgArrived'[c] /\ pkgArrived'[c] <= Packages!StreamEnd(c)'
    BY <1>2, <1>4, <1>7, <1>16
  <2>4. PkgDone(c)' <= PkgCount(c)' /\ pkgBuffer'[c] = Run(b, pkgArrived'[c])
    BY <1>4, <1>13, <1>15, <1>16, <1>17, <2>3
  <2> QED BY <1>15, <1>19, <2>2, <2>3, <2>4 DEF PkgBytes
<1>21. PkgTold(c)'
  BY <1>1, <1>2, <1>16, <1>17 DEF PkgOne, PkgTold, d
<1>22. PkgWhole(c)'
  <2>1. whole[c] => ~pkgOverrun[c]
    BY <1>1 DEF PkgOne, PkgWhole
  <2> QED BY <1>2, <1>4, <1>15, <1>19, <2>1 DEF PkgWhole
<1> QED BY <1>14, <1>18, <1>20, <1>21, <1>22 DEF PkgOne

\* The size of what is at the front is a number, whatever is there.
LEMMA PkgFrontSize ==
    ASSUME NEW c, pkgStream[c] \in PackageStreams
    PROVE  Packages!FirstSize(c) \in Nat
<1> DEFINE S == {j \in DOMAIN pkgStream[c] : Packages!EndOf(c, j - 1) + 1 = Head(pkgBuffer[c])}
           R == [payload : Nat, title : BOOLEAN]
           s == pkgStream[c]
<1>1. s \in Seq(R) /\ HeaderSize \in Nat
  BY ProtocolsAssumption
<1>2. Packages!FirstPackage(c) = IF S = {} THEN [payload |-> 0, title |-> FALSE]
                                 ELSE s[CHOOSE j \in S : TRUE]
  BY DEF Packages!FirstPackage
<1>3. S \subseteq DOMAIN s
  OBVIOUS
<1>4. [payload |-> 0, title |-> FALSE] \in R
  OBVIOUS
<1>5. Packages!FirstPackage(c) \in R
  <2> HIDE DEF S, R, s
  <2>1. CASE S = {}
    BY <2>1, <1>2, <1>4
  <2>2. CASE S # {}
    <3>1. (CHOOSE j \in S : TRUE) \in S
      BY <2>2
    <3> QED BY <2>2, <3>1, <1>1, <1>2, <1>3
  <2> QED BY <2>1, <2>2
<1> QED BY <1>1, <1>5 DEF Packages!FirstSize, Packages!PackageSize

\* Every step keeps the invariant.
LEMMA PkgStep == PkgInv /\ [Packages!Next]_(Packages!vars) => PkgInv'
<1> SUFFICES ASSUME PkgInv, [Packages!Next]_(Packages!vars) PROVE PkgInv'
  OBVIOUS
<1>1. ASSUME UNCHANGED Packages!vars PROVE PkgInv'
  <2>1. PkgTypes' /\ \A e \in Connections : PkgSame(e)
    BY <1>1 DEF PkgInv, PkgTypes, PkgSame, Packages!vars, Packages!peer, Packages!lifetime,
                Packages!history
  <2> QED BY <2>1, PkgOthers DEF PkgInv
<1>2. ASSUME NEW c \in Connections,
             \/ Packages!AddContext(c) \/ Packages!Disconnect(c) \/ Packages!DelContext(c)
             \/ Packages!NotifyReceivedPackage(c)
      PROVE  PkgInv'
  <2>1. /\ PkgTypes' /\ PkgOne(c)'
        /\ \A e \in Connections \ {c} : PkgSame(e)
    <3>1. CASE PkgMoves(c)
      BY <3>1, PkgMovesKeep
    <3>2. CASE \E n \in 1..PackageChunk : Packages!Write(c, n)
      BY <3>2, PkgWrites
    <3>3. CASE Packages!WaitForMore(c)
      BY <3>3, PkgWaits
    <3>4. CASE Packages!NotifyPackage(c)
      BY <3>4, PkgNotifies
    <3>5. CASE Packages!DropPackage(c)
      BY <3>5, PkgDrops
    <3> QED BY <1>2, <3>1, <3>2, <3>3, <3>4, <3>5 DEF PkgMoves, Packages!NotifyReceivedPackage
  <2>2. \A e \in Connections \ {c} : PkgOne(e)'
    BY <2>1, PkgOthers DEF PkgInv
  <2> QED BY <2>1, <2>2 DEF PkgInv
<1>3. Packages!AtRest => UNCHANGED Packages!vars
  BY DEF Packages!AtRest
<1> QED BY <1>1, <1>2, <1>3 DEF Packages!Next

\* The invariant is what the run checks, and more.
LEMMA PkgSound == PkgInv => PackageServerIsSound
<1> SUFFICES ASSUME PkgInv PROVE PackageServerIsSound
  OBVIOUS
<1>1. PkgTypes /\ \A c \in Connections : PkgOne(c)
  BY DEF PkgInv
<1>2. Packages!TypeOK
  <2>1. \A c \in Connections : pkgEntry[c] = "context" => context[c] = "live"
    BY <1>1 DEF PkgOne, PkgLife, PkgTypes
  <2>2. \A c \in Connections : pkgBuffer[c] \in Seq(1..Packages!StreamEnd(c))
    BY <1>1 DEF PkgOne, PkgBytes
  <2> QED BY <1>1, <2>1, <2>2 DEF PkgTypes, Packages!TypeOK
<1>3. Packages!MisusedOnlyIfDeletedInUse /\ Packages!LeaksAreUnused
  BY <1>1 DEF PkgOne, PkgLife, Packages!MisusedOnlyIfDeletedInUse, Packages!LeaksAreUnused
<1>4. Packages!PackagesInOrder
  <2> SUFFICES ASSUME NEW c \in Connections, ~pkgOverrun[c], NEW k \in DOMAIN pkgDelivered[c]
               PROVE  pkgDelivered[c][k] = Packages!PayloadAt(c, k) /\ pkgStream[c][k].title
    BY DEF Packages!PackagesInOrder
  <2>1. pkgDelivered[c] \in Seq(Seq(Nat))
    BY <1>1 DEF PkgTypes
  <2>2. k \in 1..PkgDone(c)
    BY <2>1 DEF PkgDone
  <2> QED BY <1>1, <2>2 DEF PkgOne, PkgTold
<1>5. Packages!OneAtATimeWorks
  <2> SUFFICES ASSUME NEW c \in Connections, whole[c], pkgReceiver[c] \in {"idle", "over"},
                      pkgCloser[c] = "no"
               PROVE  /\ Packages!EndOf(c, Len(pkgDelivered[c])) = pkgArrived[c]
                      /\ pkgBuffer[c] = <<>>
    BY DEF Packages!OneAtATimeWorks
  <2>1. PkgOne(c) /\ pkgReceiver[c] = "idle"
    BY <1>1 DEF PkgOne, PkgLife
  <2>2. Packages!Sound(c)
    BY <1>1, <2>1 DEF PkgOne, PkgLife, PkgWhole, PkgTypes, Packages!Sound
  <2>3. pkgArrived[c] = PkgEnd(c, PkgDone(c))
    BY <2>1 DEF PkgOne, PkgWhole
  <2>4. pkgBuffer[c] = Run(pkgArrived[c], pkgArrived[c])
    BY <2>1, <2>2, <2>3 DEF PkgOne, PkgBytes
  <2>5. pkgArrived[c] \in Nat
    BY <1>1 DEF PkgTypes
  <2>6. pkgBuffer[c] = <<>>
    BY <2>4, <2>5, RunFacts
  <2> QED BY <2>3, <2>6 DEF PkgEnd, PkgDone
<1>6. Packages!JamIsBounded
  BY <1>1 DEF PkgOne, PkgBytes, Packages!JamIsBounded
<1> QED BY <1>2, <1>3, <1>4, <1>5, <1>6 DEF PackageServerIsSound, Packages!PackageServerIsSound

\* With two packages in its buffer a connection notifies nothing and drops
\* nothing: a package is notified, and then dropped, only at the end.
LEMMA PkgJam ==
    ASSUME PkgInv, [Packages!Next]_(Packages!vars), NEW c \in Connections,
           pkgBuffer[c] # <<>>, Packages!FirstSize(c) < Len(pkgBuffer[c])
    PROVE  pkgDelivered'[c] = pkgDelivered[c] /\ Len(pkgBuffer'[c]) >= Len(pkgBuffer[c])
<1>1. PkgTypes /\ PkgOne(c)
  BY DEF PkgInv
<1>2. /\ pkgBuffer[c] \in Seq(Nat) /\ Len(pkgBuffer[c]) \in Nat /\ Packages!FirstSize(c) \in Nat
      /\ pkgArrived[c] \in Nat
  BY <1>1, PkgFrontSize DEF PkgTypes
<1>3. ~Packages!TakesFirst(c) /\ pkgReceiver[c] # "notified"
  <2>1. ~Packages!TakesFirst(c)
    BY <1>2 DEF Packages!TakesFirst
  <2> QED BY <2>1, <1>1 DEF PkgOne, PkgBytes
<1>4. ASSUME pkgDelivered'[c] = pkgDelivered[c], pkgBuffer'[c] = pkgBuffer[c]
      PROVE  pkgDelivered'[c] = pkgDelivered[c] /\ Len(pkgBuffer'[c]) >= Len(pkgBuffer[c])
  BY <1>2, <1>4
<1>5. CASE UNCHANGED Packages!vars
  BY <1>4, <1>5 DEF Packages!vars
<1>6. ASSUME NEW e \in Connections,
             \/ Packages!AddContext(e) \/ Packages!Disconnect(e) \/ Packages!DelContext(e)
             \/ Packages!NotifyReceivedPackage(e)
      PROVE  pkgDelivered'[c] = pkgDelivered[c] /\ Len(pkgBuffer'[c]) >= Len(pkgBuffer[c])
  <2>1. CASE PkgMoves(e)
    BY <1>4, <2>1
       DEF PkgMoves, Packages!AddContext, Packages!GetContext, Packages!DelContext,
           Packages!Disconnect, Packages!UseDeleted, Packages!IllegalTitle, Packages!Kick
  <2>2. CASE \E n \in 1..PackageChunk : Packages!Write(e, n)
    <3>1. PICK n \in 1..PackageChunk : Packages!Write(e, n)
      BY <2>2
    <3> DEFINE more == Packages!Positions(pkgArrived[e], pkgArrived[e] + n)
    <3>2. pkgBuffer' = [pkgBuffer EXCEPT ![e] = @ \o more] /\ pkgDelivered' = pkgDelivered
      BY <3>1 DEF Packages!Write
    <3>3. PackageChunk \in Nat /\ n \in Nat /\ pkgArrived[e] \in Nat
      BY <1>1, ProtocolsAssumption DEF PkgTypes
    <3>4. more \in Seq(Nat)
      BY <3>3 DEF Packages!Positions
    <3> HIDE DEF more
    <3>5. CASE e # c
      BY <1>1, <1>4, <3>2, <3>5 DEF PkgTypes
    <3>6. CASE e = c
      <4>1. pkgBuffer'[c] = pkgBuffer[c] \o more
        BY <1>1, <3>2, <3>6 DEF PkgTypes
      <4>2. Len(pkgBuffer[c] \o more) = Len(pkgBuffer[c]) + Len(more) /\ Len(more) \in Nat
        BY <1>2, <3>4
      <4> QED BY <1>2, <3>2, <4>1, <4>2
    <3> QED BY <3>5, <3>6
  <2>3. CASE Packages!WaitForMore(e)
    BY <1>4, <2>3 DEF Packages!WaitForMore
  <2>4. CASE Packages!NotifyPackage(e)
    <3>1. e # c
      BY <1>3, <2>4 DEF Packages!NotifyPackage
    <3> QED BY <1>1, <1>4, <2>4, <3>1 DEF PkgTypes, Packages!NotifyPackage
  <2>5. CASE Packages!DropPackage(e)
    <3>1. e # c
      BY <1>1, <1>3, <2>5 DEF PkgTypes, Packages!DropPackage, Packages!Goto
    <3> QED BY <1>1, <1>4, <2>5, <3>1 DEF PkgTypes, Packages!DropPackage
  <2> QED BY <1>6, <2>1, <2>2, <2>3, <2>4, <2>5 DEF PkgMoves, Packages!NotifyReceivedPackage
<1>7. Packages!AtRest => UNCHANGED Packages!vars
  BY DEF Packages!AtRest
<1> QED BY <1>5, <1>6, <1>7 DEF Packages!Next

\* The package server is sound, whatever its peers send and however the network
\* cuts it: PackageIOCP.cpp.
THEOREM PackagesHold == Packages!Spec => []PackageServerIsSound
<1>1. Packages!Init => PkgInv
  BY PkgInit
<1>2. PkgInv /\ [Packages!Next]_(Packages!vars) => PkgInv'
  BY PkgStep
<1>3. PkgInv => PackageServerIsSound
  BY PkgSound
<1> QED BY <1>1, <1>2, <1>3, PTL DEF Packages!Spec

\* Two packages in one buffer are never notified any more.
THEOREM JamHolds == Packages!Spec => JamIsPermanent
<1> DEFINE A == \A c \in Connections : pkgBuffer[c] # <<>> /\ Packages!FirstSize(c) < Len(pkgBuffer[c])
                    => pkgDelivered'[c] = pkgDelivered[c] /\ Len(pkgBuffer'[c]) >= Len(pkgBuffer[c])
<1>1. Packages!Init => PkgInv
  BY PkgInit
<1>2. PkgInv /\ [Packages!Next]_(Packages!vars) => PkgInv'
  BY PkgStep
<1>3. PkgInv /\ [Packages!Next]_(Packages!vars) => [A]_(Packages!vars)
  BY PkgJam
<1>4. Packages!Spec => [][A]_(Packages!vars)
  <2> HIDE DEF A
  <2> QED BY <1>1, <1>2, <1>3, PTL DEF Packages!Spec
<1> QED BY <1>4 DEF JamIsPermanent, Packages!JamIsPermanent

-----------------------------------------------------------------------------
(* TextServer: where texts end.                                             *)

TxtCount(c) == Len(textStream[c])
TxtEnd(c, k) == Server!EndOf(c, k)

\* The ends of the texts of a stream begin with 0 and rise by a length each.
LEMMA TxtEnds ==
    ASSUME NEW c, textStream[c] \in TextStreams
    PROVE  /\ TxtCount(c) \in Nat /\ DOMAIN textStream[c] = 1..TxtCount(c) /\ TxtEnd(c, 0) = 0
           /\ \A k \in 0..TxtCount(c) : TxtEnd(c, k) \in Nat
           /\ \A k \in 1..TxtCount(c) :
                /\ textStream[c][k] \in Nat \ {0}
                /\ TxtEnd(c, k) = TxtEnd(c, k - 1) + textStream[c][k]
           /\ \A j, k \in 0..TxtCount(c) : j < k => TxtEnd(c, j) < TxtEnd(c, k)
<1> DEFINE s == textStream[c]
           n == TxtCount(c)
           e == CHOOSE e : e = [j \in 0..n |-> IF j = 0 THEN 0 ELSE e[j - 1] + s[j]]
<1>1. s \in Seq(Nat \ {0})
  BY ProtocolsAssumption
<1>2. n \in Nat /\ DOMAIN s = 1..n
  BY <1>1 DEF TxtCount
<1>3. \A k \in 1..n : s[k] \in Nat \ {0}
  <2> DEFINE P == Nat \ {0}
  <2>1. s \in Seq(P) /\ n = Len(s)
    BY <1>1 DEF TxtCount
  <2> HIDE DEF s, n, P
  <2>2. \A k \in 1..Len(s) : s[k] \in P
    BY <2>1, ElementOfSeq
  <2> QED BY <2>1, <2>2 DEF P
<1>4. \A k : TxtEnd(c, k) = e[k]
  BY DEF TxtEnd, Server!EndOf, TxtCount
<1>5. Totals(e, s, n)
  <2> HIDE DEF s, n
  <2>1. \E f : f = [j \in 0..n |-> IF j = 0 THEN 0 ELSE f[j - 1] + s[j]]
    <3>1. \A i \in 1..n : s[i] \in Nat
      BY <1>3
    <3>2. PICK f \in [0..n -> Nat] : Totals(f, s, n)
      BY <3>1, <1>2, TotalsExist
    <3> QED BY <3>2 DEF Totals
  <2> QED BY <2>1 DEF Totals
<1> HIDE DEF e, s, n
<1>6. e \in [0..n -> Nat] /\ e[0] = 0 /\ \A k \in 1..n : e[k] = e[k - 1] + s[k]
  <2>1. \A i \in 1..n : s[i] \in Nat
    BY <1>3
  <2> QED BY <2>1, <1>2, <1>5, TotalsGrow
<1>7. \A k \in 1..n : e[k - 1] < e[k]
  <2> SUFFICES ASSUME NEW k \in 1..n PROVE e[k - 1] < e[k]
    OBVIOUS
  <2>1. e[k] = e[k - 1] + s[k] /\ e[k - 1] \in Nat /\ s[k] \in Nat \ {0}
    BY <1>2, <1>3, <1>6
  <2> QED BY <2>1
<1>8. \A j, k \in 0..n : j < k => e[j] < e[k]
  BY <1>2, <1>6, <1>7, TotalsRise
<1>9. \A k \in 0..n : e[k] \in Nat
  BY <1>6
<1>10. TxtEnd(c, 0) = 0 /\ \A k \in 0..n : TxtEnd(c, k) \in Nat
  BY <1>4, <1>6, <1>9
<1>11. \A k \in 1..n : s[k] \in Nat \ {0} /\ TxtEnd(c, k) = TxtEnd(c, k - 1) + s[k]
  BY <1>3, <1>4, <1>6
<1>12. \A j, k \in 0..n : j < k => TxtEnd(c, j) < TxtEnd(c, k)
  BY <1>4, <1>8
<1> QED BY <1>2, <1>10, <1>11, <1>12 DEF n, s

\* A text is the bytes from the end of the one before it to its own end.
LEMMA TxtAt ==
    ASSUME NEW c, textStream[c] \in TextStreams, NEW k \in 1..TxtCount(c)
    PROVE  Server!TextAt(c, k) = Run(TxtEnd(c, k - 1), TxtEnd(c, k))
<1>1. /\ TxtEnd(c, k) = TxtEnd(c, k - 1) + textStream[c][k]
      /\ TxtCount(c) \in Nat /\ \A j \in 0..TxtCount(c) : TxtEnd(c, j) \in Nat
      /\ textStream[c][k] \in Nat
  BY TxtEnds
<1>2. k - 1 \in 0..TxtCount(c) /\ k \in 0..TxtCount(c)
  BY <1>1
<1>3. TxtEnd(c, k) - TxtEnd(c, k - 1) = textStream[c][k]
  BY <1>1, <1>2
<1> QED BY <1>3 DEF Server!TextAt, Run, TxtEnd

\* The first texts make up the stream as far as the last of them ends.
LEMMA TxtFlat ==
    ASSUME NEW c, textStream[c] \in TextStreams
    PROVE  \A d \in 0..TxtCount(c) : \A t \in Seq(Seq(Nat)) :
               Len(t) = d /\ (\A k \in 1..d : t[k] = Run(TxtEnd(c, k - 1), TxtEnd(c, k)))
                   => FlattenSeq(t) = Run(0, TxtEnd(c, d))
<1> DEFINE P(d) == \A t \in Seq(Seq(Nat)) :
               Len(t) = d /\ (\A k \in 1..d : t[k] = Run(TxtEnd(c, k - 1), TxtEnd(c, k)))
                   => FlattenSeq(t) = Run(0, TxtEnd(c, d))
           n == TxtCount(c)
           N == {d \in Nat : d <= n => P(d)}
<1>1. /\ n \in Nat /\ TxtEnd(c, 0) = 0 /\ \A k \in 0..n : TxtEnd(c, k) \in Nat
      /\ \A j, k \in 0..n : j < k => TxtEnd(c, j) < TxtEnd(c, k)
  BY TxtEnds
<1>2. P(0)
  <2> SUFFICES ASSUME NEW t \in Seq(Seq(Nat)), Len(t) = 0 PROVE FlattenSeq(t) = Run(0, 0)
    BY <1>1
  <2>1. t = <<>>
    OBVIOUS
  <2> QED BY <2>1, FlattenEmpty, RunFacts
<1>3. ASSUME NEW d \in Nat, d \in N PROVE d + 1 \in N
  <2> SUFFICES ASSUME d + 1 <= n, NEW t \in Seq(Seq(Nat)), Len(t) = d + 1,
                      \A k \in 1..(d + 1) : t[k] = Run(TxtEnd(c, k - 1), TxtEnd(c, k))
               PROVE  FlattenSeq(t) = Run(0, TxtEnd(c, d + 1))
    OBVIOUS
  <2>1. PICK f \in Seq(Seq(Nat)) : \E x \in Seq(Nat) : t = Append(f, x)
    <3>1. Len(t) # 0
      OBVIOUS
    <3> QED BY <3>1, FrontAndLast
  <2>2. PICK x \in Seq(Nat) : t = Append(f, x)
    BY <2>1
  <2> DEFINE S == Seq(Nat)
  <2>3. f \in Seq(S) /\ x \in S
    OBVIOUS
  <2> HIDE DEF S
  <2>4. /\ Len(Append(f, x)) = Len(f) + 1 /\ Append(f, x)[Len(f) + 1] = x
        /\ \A i \in 1..Len(f) : Append(f, x)[i] = f[i]
    BY <2>3, AppendProperties
  <2>5. Len(f) = d /\ x = t[d + 1] /\ \A k \in 1..d : f[k] = t[k]
    <3>1. Len(f) \in Nat
      OBVIOUS
    <3> QED BY <2>2, <2>4, <3>1
  <2>6. \A k \in 1..d : f[k] = Run(TxtEnd(c, k - 1), TxtEnd(c, k))
    BY <2>5
  <2>7. P(d)
    <3>1. d <= n
      BY <1>1
    <3> HIDE DEF P, n
    <3> QED BY <1>3, <3>1
  <2>8. FlattenSeq(f) = Run(0, TxtEnd(c, d))
    BY <2>5, <2>6, <2>7
  <2> DEFINE a == TxtEnd(c, d)
             b == TxtEnd(c, d + 1)
  <2>9. a \in Nat /\ b \in Nat /\ a <= b
    <3>1. d \in 0..n /\ d + 1 \in 0..n /\ d < d + 1
      BY <1>1
    <3>2. a \in Nat /\ b \in Nat /\ a < b
      BY <3>1, <1>1
    <3> HIDE DEF a, b
    <3> QED BY <3>2
  <2>10. x = Run(a, b)
    <3>1. d + 1 \in 1..(d + 1) /\ (d + 1) - 1 = d
      OBVIOUS
    <3> QED BY <2>5, <3>1
  <2> HIDE DEF a, b
  <2>11. Run(0, a) \o Run(a, b) = Run(0, b)
    <3>1. 0 \in Nat /\ 0 <= a
      BY <2>9
    <3> QED BY <2>9, <3>1, RunJoins
  <2>12. FlattenSeq(Append(f, x)) = FlattenSeq(f) \o x
    BY FlattenAppend
  <2> QED BY <2>2, <2>8, <2>10, <2>11, <2>12 DEF a, b
<1>4. Nat \subseteq N
  <2> HIDE DEF N
  <2> QED BY <1>2, <1>3, Induction DEF N
<1> QED BY <1>1, <1>4

-----------------------------------------------------------------------------
(* TextServer: the invariant, a connection at a time.                       *)

TxtDone(c) == Len(textDelivered[c])

TxtTypes ==
    /\ textStream \in [Connections -> TextStreams] /\ textArrived \in [Connections -> Nat]
    /\ announced \in [Connections -> BOOLEAN] /\ kicked \in [Connections -> BOOLEAN]
    /\ overtaken \in [Connections -> BOOLEAN] /\ textMisused \in [Connections -> BOOLEAN]
    /\ object \in [Connections -> {"none", "live", "deleted"}]
    /\ refs \in [Connections -> Nat]
    /\ textEntry \in [Connections -> {"absent", "object", "null"}]
    /\ textBuffer \in [Connections -> Seq(Nat)]
    /\ textCloser \in [Connections -> {"no", "find", "missed", "drop", "erase", "delete", "done"}]
    /\ textReceiver \in [Connections -> {"accept", "idle", "use", "kick", "closing", "drop",
                                         "erase", "delete", "over", "gone"}]
    /\ textDelivered \in [Connections -> Seq(Seq(Nat))]

\* The reference of the map, which the closing thread takes over, and that of a
\* receive.
TxtMapRef(c) == IF textCloser[c] \in {"no", "find", "drop", "missed"} THEN 1 ELSE 0
TxtUseRef(c) == IF textReceiver[c] \in {"use", "kick", "closing", "drop", "gone"} THEN 1 ELSE 0

\* The count is that of the references, whoever has them.
TxtCounted(c) ==
    /\ announced[c] <=> object[c] # "none"
    /\ announced[c] => refs[c] = TxtMapRef(c) + TxtUseRef(c)
    /\ ~announced[c] => /\ textEntry[c] = "absent" /\ textReceiver[c] = "accept" /\ refs[c] = 0
                        /\ textCloser[c] \in {"no", "find", "missed"} /\ ~overtaken[c]
    /\ textCloser[c] = "missed" => textReceiver[c] = "accept"
    /\ textReceiver[c] = "over" => textCloser[c] # "no"

\* Nobody came in between: one of the two threads is the last, and the object is
\* found in the map until that one removes it.
TxtInTurn(c) ==
    ~overtaken[c] =>
        /\ ~textMisused[c] /\ textReceiver[c] # "gone"
        /\ textCloser[c] \in {"erase", "delete"} => textReceiver[c] \in {"accept", "idle", "over"}
        /\ textReceiver[c] \in {"erase", "delete"} => textCloser[c] = "done"
        /\ announced[c] /\ (\/ textCloser[c] \notin {"delete", "done"}
                            \/ textReceiver[c] \in {"use", "kick", "closing", "drop", "erase"})
               => textEntry[c] = "object" /\ object[c] = "live"
        /\ textCloser[c] = "delete" \/ textReceiver[c] = "delete"
               => textEntry[c] # "object" /\ object[c] = "live"
        /\ textCloser[c] = "done" /\ textReceiver[c] \in {"accept", "idle", "over"}
               => textEntry[c] # "object" /\ object[c] = "deleted"

\* The receive got the object in the window: both threads delete it.
TxtInWindow(c) ==
    overtaken[c] =>
        /\ textCloser[c] \in {"erase", "delete", "done"}
        /\ textReceiver[c] \in {"use", "kick", "drop", "erase", "delete", "over", "gone"}
        /\ textCloser[c] # "erase" \/ textReceiver[c] \in {"delete", "over"}
               => textEntry[c] # "object"
        /\ textCloser[c] = "done" \/ textReceiver[c] = "over" <=> object[c] = "deleted"

TxtLife(c) == TxtCounted(c) /\ TxtInTurn(c) /\ TxtInWindow(c)

\* The texts notified are the first of the stream, and the buffer holds the rest of
\* what arrived.
TxtBytes(c) ==
    /\ TxtDone(c) <= TxtCount(c) /\ textArrived[c] <= TxtEnd(c, TxtCount(c))
    /\ \A k \in 1..TxtDone(c) :
           textDelivered[c][k] = Run(TxtEnd(c, k - 1), TxtEnd(c, k))
    /\ Len(textBuffer[c]) <= TextLimit
    /\ ~kicked[c] =>
        /\ TxtEnd(c, TxtDone(c)) <= textArrived[c]
        /\ textBuffer[c] = Run(TxtEnd(c, TxtDone(c)), textArrived[c])
        /\ TxtDone(c) < TxtCount(c) => textArrived[c] < TxtEnd(c, TxtDone(c) + 1)

\* A connection is kicked in the receive that is too long, and receives no more.
TxtKicked(c) ==
    kicked[c] =>
        /\ textReceiver[c] \notin {"accept", "idle", "use"}
        /\ textReceiver[c] # "kick" => textCloser[c] # "no"
        /\ \E k \in DOMAIN textStream[c] : textStream[c][k] > TextLimit - TextChunk + 1

TxtOne(c) == TxtLife(c) /\ TxtBytes(c) /\ TxtKicked(c)
TxtInv == TxtTypes /\ \A c \in Connections : TxtOne(c)

\* Nothing was announced or received.
LEMMA TxtInit == Server!Init => TxtInv
<1> SUFFICES ASSUME Server!Init PROVE TxtInv
  OBVIOUS
<1> USE DEF Server!Init, Server!All
<1>1. TxtTypes
  BY DEF TxtTypes
<1>2. ASSUME NEW c \in Connections PROVE TxtOne(c)
  <2>1. /\ textStream[c] \in TextStreams /\ textArrived[c] = 0 /\ textBuffer[c] = <<>>
        /\ textDelivered[c] = <<>> /\ ~kicked[c] /\ TextLimit \in Nat
    BY ProtocolsAssumption
  <2>2. TxtLife(c)
    BY DEF TxtLife, TxtCounted, TxtInTurn, TxtInWindow
  <2>3. TxtKicked(c)
    BY <2>1 DEF TxtKicked
  <2>4. TxtDone(c) = 0 /\ Run(0, 0) = <<>> /\ Len(<<>>) = 0
    BY <2>1, RunFacts DEF TxtDone
  <2>5. /\ TxtCount(c) \in Nat /\ TxtEnd(c, 0) = 0 /\ TxtEnd(c, TxtCount(c)) \in Nat
        /\ 0 < TxtCount(c) => 0 < TxtEnd(c, 1)
    <3>1. /\ TxtCount(c) \in Nat /\ TxtEnd(c, 0) = 0 /\ \A k \in 0..TxtCount(c) : TxtEnd(c, k) \in Nat
          /\ \A j, k \in 0..TxtCount(c) : j < k => TxtEnd(c, j) < TxtEnd(c, k)
      BY <2>1, TxtEnds
    <3>2. ASSUME 0 < TxtCount(c) PROVE 0 < TxtEnd(c, 1)
      <4>1. 0 \in 0..TxtCount(c) /\ 1 \in 0..TxtCount(c) /\ 0 < 1
        BY <3>1, <3>2
      <4> QED BY <3>1, <4>1
    <3> QED BY <3>1, <3>2
  <2>6. TxtBytes(c)
    BY <2>1, <2>4, <2>5 DEF TxtBytes
  <2> QED BY <2>2, <2>3, <2>6 DEF TxtOne
<1> QED BY <1>1, <1>2 DEF TxtInv

\* What a step may leave alone: the place of the threads, and the bytes.
TxtStill(c) ==
    /\ announced'[c] = announced[c] /\ object'[c] = object[c] /\ refs'[c] = refs[c]
    /\ textEntry'[c] = textEntry[c] /\ textCloser'[c] = textCloser[c]
    /\ textReceiver'[c] = textReceiver[c] /\ overtaken'[c] = overtaken[c]
    /\ textMisused'[c] = textMisused[c]
TxtKeeps(c) ==
    /\ textStream'[c] = textStream[c] /\ textArrived'[c] = textArrived[c]
    /\ textBuffer'[c] = textBuffer[c] /\ textDelivered'[c] = textDelivered[c]
    /\ kicked'[c] = kicked[c]
TxtSame(c) == TxtStill(c) /\ TxtKeeps(c)

\* Ends of texts are those of the stream.
LEMMA TxtEndsStay ==
    ASSUME NEW c, textStream'[c] = textStream[c]
    PROVE  TxtCount(c)' = TxtCount(c) /\ \A k : TxtEnd(c, k)' = TxtEnd(c, k)
<1>1. \A k : Server!EndOf(c, k)' = Server!EndOf(c, k)
  BY DEF Server!EndOf
<1> QED BY <1>1 DEF TxtCount, TxtEnd

\* The bytes stay what they are.
LEMMA TxtBytesStay == ASSUME NEW c, TxtBytes(c), TxtKeeps(c) PROVE TxtBytes(c)'
<1>1. TxtCount(c)' = TxtCount(c) /\ \A k : TxtEnd(c, k)' = TxtEnd(c, k)
  BY TxtEndsStay DEF TxtKeeps
<1>2. TxtDone(c)' = TxtDone(c)
  BY DEF TxtKeeps, TxtDone
<1> QED BY <1>1, <1>2 DEF TxtBytes, TxtKeeps

\* A connection nothing happens to keeps the invariant.
LEMMA TxtOthers == ASSUME NEW c, TxtOne(c), TxtSame(c) PROVE TxtOne(c)'
<1>1. TxtBytes(c)'
  BY TxtBytesStay DEF TxtOne, TxtSame
<1>2. TxtKicked(c)'
  BY DEF TxtOne, TxtSame, TxtStill, TxtKeeps, TxtKicked
<1>3. TxtLife(c)'
  BY DEF TxtOne, TxtSame, TxtStill, TxtLife, TxtCounted, TxtInTurn, TxtInWindow, TxtMapRef,
         TxtUseRef
<1> QED BY <1>1, <1>2, <1>3 DEF TxtOne

\* Nor does a step of the two threads that leaves the bytes alone disturb them,
\* when it does not begin a receive of a connection that was kicked.
LEMMA TxtQuiet ==
    ASSUME NEW c, TxtOne(c), TxtKeeps(c), TxtLife(c)',
           textReceiver'[c] \in {"accept", "idle", "use"}
               => textReceiver[c] \in {"accept", "idle", "use"} \/ textCloser[c] = "no",
           textReceiver[c] = "kick" /\ textReceiver'[c] # "kick" => textCloser'[c] # "no",
           textCloser[c] # "no" => textCloser'[c] # "no",
           textReceiver'[c] \in {"accept", "idle", "use"} => textReceiver[c] # "kick"
    PROVE  TxtOne(c)'
<1>1. TxtBytes(c)'
  BY TxtBytesStay DEF TxtOne
<1>2. TxtKicked(c)'
  BY DEF TxtOne, TxtKeeps, TxtKicked
<1> QED BY <1>1, <1>2 DEF TxtOne

\* The steps of the two threads that touch no byte, seen from their connection.
TxtBegins(c) ==
    \/ /\ ~announced[c] /\ announced'[c] /\ object'[c] = "live" /\ refs'[c] = 1
       /\ textEntry'[c] = "object"
       /\ UNCHANGED <<textCloser[c], textReceiver[c], overtaken[c], textMisused[c]>>
    \/ /\ announced[c] /\ textCloser[c] = "no" /\ textReceiver[c] = "accept"
       /\ textReceiver'[c] = "idle"
       /\ UNCHANGED <<announced[c], object[c], refs[c], textEntry[c], textCloser[c],
                      overtaken[c], textMisused[c]>>
    \/ /\ textReceiver[c] = "idle" /\ textEntry[c] = "object" /\ ~textMisused[c]
       /\ textReceiver'[c] = "use" /\ refs'[c] = refs[c] + 1
       /\ overtaken'[c] = (overtaken[c] \/ textCloser[c] = "erase")
       /\ UNCHANGED <<announced[c], object[c], textEntry[c], textCloser[c], textMisused[c]>>
    \/ /\ textReceiver[c] = "idle" /\ textEntry[c] # "object" /\ ~textMisused[c]
       /\ textReceiver'[c] = "over" /\ textEntry'[c] = "null"
       /\ UNCHANGED <<announced[c], object[c], refs[c], textCloser[c], overtaken[c],
                      textMisused[c]>>

TxtUses(c) ==
    /\ UNCHANGED <<announced[c], object[c], refs[c], textEntry[c], overtaken[c]>>
    /\ \/ /\ textReceiver[c] = "use" /\ object[c] = "deleted" /\ textReceiver'[c] = "gone"
          /\ textMisused'[c] /\ UNCHANGED textCloser[c]
       \/ /\ UNCHANGED textMisused[c]
          /\ \/ /\ textReceiver[c] = "kick" /\ textCloser[c] = "no"
                /\ textCloser'[c] = "find" /\ textReceiver'[c] = "closing"
             \/ /\ \/ textReceiver[c] = "kick" /\ textCloser[c] # "no"
                   \/ textReceiver[c] = "closing" /\ textCloser[c] = "done"
                /\ textReceiver'[c] = "drop" /\ UNCHANGED textCloser[c]
             \/ /\ textCloser[c] = "no" /\ textCloser'[c] = "find" /\ UNCHANGED textReceiver[c]
             \/ /\ textCloser[c] = "find" /\ UNCHANGED textReceiver[c]
                /\ textCloser'[c] = IF textEntry[c] = "object" THEN "drop" ELSE "missed"

\* A thread that releases is at from, goes to to, and ends at end.
TxtReleases(c, from, to, end) ==
    /\ UNCHANGED <<announced[c], overtaken[c]>>
    /\ \/ /\ from = "drop" /\ ~textMisused[c] /\ object[c] = "live" /\ refs'[c] = refs[c] - 1
          /\ to = (IF refs[c] <= 1 THEN "erase" ELSE end)
          /\ UNCHANGED <<object[c], textEntry[c], textMisused[c]>>
       \/ /\ from = "drop" /\ ~textMisused[c] /\ object[c] = "deleted" /\ to = "gone"
          /\ textMisused'[c] /\ UNCHANGED <<object[c], refs[c], textEntry[c]>>
       \/ /\ from = "erase" /\ to = "delete" /\ textEntry'[c] = "absent"
          /\ UNCHANGED <<object[c], refs[c], textMisused[c]>>
       \/ /\ from = "delete" /\ to = end /\ object'[c] = "deleted"
          /\ textMisused'[c] = (textMisused[c] \/ object[c] = "deleted")
          /\ UNCHANGED <<refs[c], textEntry[c]>>

TxtMoves(c) ==
    \/ TxtBegins(c) \/ TxtUses(c)
    \/ /\ TxtReleases(c, textCloser[c], textCloser'[c], "done")
       /\ textReceiver'[c] = textReceiver[c]
    \/ /\ TxtReleases(c, textReceiver[c], textReceiver'[c], Server!AfterReceive(c))
       /\ textCloser'[c] = textCloser[c]

\* They keep count of the references, and leave the object to one of the two.
LEMMA TxtMovesKeep ==
    ASSUME TxtTypes, NEW c \in Connections, TxtLife(c), TxtMoves(c)
    PROVE  /\ TxtLife(c)' /\ refs'[c] \in Nat /\ textCloser'[c] # "gone"
           /\ (textReceiver'[c] \in {"accept", "idle", "use"}
                  => textReceiver[c] \in {"accept", "idle", "use"} \/ textCloser[c] = "no")
           /\ (textReceiver[c] = "kick" /\ textReceiver'[c] # "kick" => textCloser'[c] # "no")
           /\ (textCloser[c] # "no" => textCloser'[c] # "no")
           /\ (textReceiver'[c] \in {"accept", "idle", "use"} => textReceiver[c] # "kick")
<1> DEFINE G == /\ TxtLife(c)' /\ refs'[c] \in Nat /\ textCloser'[c] # "gone"
                /\ (textReceiver'[c] \in {"accept", "idle", "use"}
                       => textReceiver[c] \in {"accept", "idle", "use"} \/ textCloser[c] = "no")
                /\ (textReceiver[c] = "kick" /\ textReceiver'[c] # "kick"
                       => textCloser'[c] # "no")
                /\ (textCloser[c] # "no" => textCloser'[c] # "no")
                /\ (textReceiver'[c] \in {"accept", "idle", "use"} => textReceiver[c] # "kick")
<1>1. /\ announced[c] \in BOOLEAN /\ overtaken[c] \in BOOLEAN /\ textMisused[c] \in BOOLEAN
      /\ object[c] \in {"none", "live", "deleted"} /\ refs[c] \in Nat
      /\ textEntry[c] \in {"absent", "object", "null"}
      /\ textCloser[c] \in {"no", "find", "missed", "drop", "erase", "delete", "done"}
      /\ textReceiver[c] \in {"accept", "idle", "use", "kick", "closing", "drop",
                              "erase", "delete", "over", "gone"}
  BY DEF TxtTypes
<1> USE DEF TxtLife, TxtCounted, TxtInTurn, TxtInWindow, TxtMapRef, TxtUseRef
<1>2. CASE TxtBegins(c)
  BY <1>1, <1>2 DEF TxtBegins
<1>3. CASE TxtUses(c)
  BY <1>1, <1>3 DEF TxtUses
<1>4. CASE /\ TxtReleases(c, textCloser[c], textCloser'[c], "done")
           /\ textReceiver'[c] = textReceiver[c]
  BY <1>1, <1>4 DEF TxtReleases
<1>5. CASE /\ TxtReleases(c, textReceiver[c], textReceiver'[c], Server!AfterReceive(c))
           /\ textCloser'[c] = textCloser[c]
  BY <1>1, <1>5 DEF TxtReleases, Server!AfterReceive
<1> QED BY <1>2, <1>3, <1>4, <1>5 DEF TxtMoves

\* The steps that touch no byte.
TxtQuietSteps(c) ==
    \/ Server!NotifyNewConnection(c) \/ Server!Disconnect(c) \/ Server!FindToRelease(c)
    \/ Server!ReleaseByCloser(c) \/ Server!ReleaseByReceiver(c) \/ Server!PostFirst(c)
    \/ Server!BeginReceive(c) \/ Server!UseDeleted(c) \/ Server!KickCloses(c)
    \/ Server!KickClosed(c)

\* They are the moves above, and concern no other connection.
LEMMA TxtStepMoves ==
    ASSUME TxtTypes, NEW c \in Connections, TxtQuietSteps(c)
    PROVE  /\ TxtMoves(c) /\ TxtKeeps(c) /\ \A e \in Connections \ {c} : TxtSame(e)
           /\ UNCHANGED <<textStream, textArrived, textBuffer, textDelivered, kicked>>
           /\ announced' \in [Connections -> BOOLEAN] /\ overtaken' \in [Connections -> BOOLEAN]
           /\ textMisused' \in [Connections -> BOOLEAN]
           /\ object' \in [Connections -> {"none", "live", "deleted"}]
           /\ textEntry' \in [Connections -> {"absent", "object", "null"}]
           /\ refs' = [refs EXCEPT ![c] = refs'[c]]
           /\ textCloser' = [textCloser EXCEPT ![c] = textCloser'[c]]
           /\ textCloser'[c] \in {"no", "find", "missed", "drop", "erase", "delete", "done", "gone"}
           /\ textReceiver' \in [Connections -> {"accept", "idle", "use", "kick", "closing",
                                                 "drop", "erase", "delete", "over", "gone"}]
<1> DEFINE Frame == /\ \A e \in Connections \ {c} : TxtSame(e)
                    /\ UNCHANGED <<textStream, textArrived, textBuffer, textDelivered, kicked>>
                    /\ announced' \in [Connections -> BOOLEAN]
                    /\ overtaken' \in [Connections -> BOOLEAN]
                    /\ textMisused' \in [Connections -> BOOLEAN]
                    /\ object' \in [Connections -> {"none", "live", "deleted"}]
                    /\ textEntry' \in [Connections -> {"absent", "object", "null"}]
                    /\ refs' = [refs EXCEPT ![c] = refs'[c]]
                    /\ textCloser' = [textCloser EXCEPT ![c] = textCloser'[c]]
                    /\ textCloser'[c] \in {"no", "find", "missed", "drop", "erase", "delete",
                                           "done", "gone"}
                    /\ textReceiver' \in [Connections -> {"accept", "idle", "use", "kick",
                                              "closing", "drop", "erase", "delete", "over", "gone"}]
<1> USE DEF TxtTypes, TxtSame, TxtStill, TxtKeeps, Server!peer, Server!lifetime, Server!data,
            Server!history
<1>1. CASE Server!NotifyNewConnection(c)
  <2>1. Frame
    BY <1>1 DEF Server!NotifyNewConnection
  <2>2. TxtBegins(c)
    BY <1>1 DEF TxtBegins, Server!NotifyNewConnection
  <2> QED BY <1>1, <2>1, <2>2 DEF TxtMoves
<1>2. CASE Server!FindToRelease(c)
  <2>1. Frame
    BY <1>2 DEF Server!FindToRelease
  <2>2. TxtUses(c)
    BY <1>2 DEF TxtUses, Server!FindToRelease
  <2> QED BY <1>2, <2>1, <2>2 DEF TxtMoves
<1>3. CASE Server!ReleaseByCloser(c)
  <2>1. textReceiver' = textReceiver
    BY <1>3 DEF Server!ReleaseByCloser
  <2>2. CASE Server!DropReference(textCloser, c, "done")
    <3>0. \E x \in {"erase", "done", "gone"} : textCloser' = [textCloser EXCEPT ![c] = x]
      BY <2>2 DEF Server!DropReference, Server!Release, Server!LastReference
    <3>3. /\ textCloser' = [textCloser EXCEPT ![c] = textCloser'[c]]
          /\ textCloser'[c] \in {"erase", "done", "gone"}
          /\ \A e \in Connections \ {c} : textCloser'[e] = textCloser[e]
      BY <3>0
    <3>4. /\ refs' = [refs EXCEPT ![c] = refs'[c]]
          /\ \A e \in Connections \ {c} : refs'[e] = refs[e]
          /\ textMisused' \in [Connections -> BOOLEAN]
          /\ \A e \in Connections \ {c} : textMisused'[e] = textMisused[e]
      BY <2>2 DEF Server!DropReference
    <3>5. UNCHANGED <<Server!peer, announced, object, textEntry, Server!data, overtaken>>
      BY <2>2 DEF Server!DropReference
    <3>1. Frame
      BY <2>1, <3>3, <3>4, <3>5
    <3>2. TxtReleases(c, textCloser[c], textCloser'[c], "done")
      BY <2>2 DEF TxtReleases, Server!DropReference, Server!Release, Server!LastReference, Server!Sound
    <3> QED BY <2>1, <3>1, <3>2 DEF TxtMoves
  <2>3. CASE Server!EraseEntry(textCloser, c)
    <3>1. Frame
      BY <2>1, <2>3 DEF Server!EraseEntry, Server!Release
    <3>2. TxtReleases(c, textCloser[c], textCloser'[c], "done")
      BY <2>3 DEF TxtReleases, Server!EraseEntry, Server!Release
    <3> QED BY <2>1, <3>1, <3>2 DEF TxtMoves
  <2>4. CASE Server!DeleteObject(textCloser, c, "done")
    <3>1. Frame
      BY <2>1, <2>4 DEF Server!DeleteObject, Server!Release
    <3>2. TxtReleases(c, textCloser[c], textCloser'[c], "done")
      BY <2>4 DEF TxtReleases, Server!DeleteObject, Server!Release
    <3> QED BY <2>1, <3>1, <3>2 DEF TxtMoves
  <2> QED BY <1>3, <2>2, <2>3, <2>4 DEF Server!ReleaseByCloser
<1>4. CASE Server!ReleaseByReceiver(c)
  <2>1. textCloser' = textCloser
    BY <1>4 DEF Server!ReleaseByReceiver
  <2>0. Server!AfterReceive(c) \in {"idle", "over"}
    BY DEF Server!AfterReceive
  <2>2. CASE Server!DropReference(textReceiver, c, Server!AfterReceive(c))
    <3>0. \E x \in {"erase", "idle", "over", "gone"} : textReceiver' = [textReceiver EXCEPT ![c] = x]
      BY <2>0, <2>2 DEF Server!DropReference, Server!Release, Server!LastReference
    <3>3. /\ textReceiver' = [textReceiver EXCEPT ![c] = textReceiver'[c]]
          /\ textReceiver'[c] \in {"erase", "idle", "over", "gone"}
          /\ \A e \in Connections \ {c} : textReceiver'[e] = textReceiver[e]
      BY <3>0
    <3>4. /\ refs' = [refs EXCEPT ![c] = refs'[c]]
          /\ \A e \in Connections \ {c} : refs'[e] = refs[e]
          /\ textMisused' \in [Connections -> BOOLEAN]
          /\ \A e \in Connections \ {c} : textMisused'[e] = textMisused[e]
      BY <2>2 DEF Server!DropReference
    <3>5. UNCHANGED <<Server!peer, announced, object, textEntry, Server!data, overtaken>>
      BY <2>2 DEF Server!DropReference
    <3>6. textReceiver' \in [Connections -> {"accept", "idle", "use", "kick", "closing",
                                              "drop", "erase", "delete", "over", "gone"}]
      BY <3>0
    <3>7. /\ textCloser' = [textCloser EXCEPT ![c] = textCloser'[c]]
          /\ textCloser'[c] \in {"no", "find", "missed", "drop", "erase", "delete", "done", "gone"}
      BY <2>1
    <3>1. Frame
      BY <2>1, <3>3, <3>4, <3>5, <3>6, <3>7
    <3>2. TxtReleases(c, textReceiver[c], textReceiver'[c], Server!AfterReceive(c))
      BY <2>2 DEF TxtReleases, Server!DropReference, Server!Release, Server!LastReference, Server!Sound
    <3> QED BY <2>1, <3>1, <3>2 DEF TxtMoves
  <2>3. CASE Server!EraseEntry(textReceiver, c)
    <3>1. Frame
      BY <2>0, <2>1, <2>3 DEF Server!EraseEntry, Server!Release
    <3>2. TxtReleases(c, textReceiver[c], textReceiver'[c], Server!AfterReceive(c))
      BY <2>3 DEF TxtReleases, Server!EraseEntry, Server!Release
    <3> QED BY <2>1, <3>1, <3>2 DEF TxtMoves
  <2>4. CASE Server!DeleteObject(textReceiver, c, Server!AfterReceive(c))
    <3>1. Frame
      BY <2>0, <2>1, <2>4 DEF Server!DeleteObject, Server!Release
    <3>2. TxtReleases(c, textReceiver[c], textReceiver'[c], Server!AfterReceive(c))
      BY <2>4 DEF TxtReleases, Server!DeleteObject, Server!Release
    <3> QED BY <2>1, <3>1, <3>2 DEF TxtMoves
  <2> QED BY <1>4, <2>2, <2>3, <2>4 DEF Server!ReleaseByReceiver
<1>5. CASE Server!PostFirst(c)
  <2>1. Frame
    BY <1>5 DEF Server!PostFirst, Server!Release
  <2>2. TxtBegins(c)
    BY <1>5 DEF TxtBegins, Server!PostFirst, Server!Release
  <2> QED BY <1>5, <2>1, <2>2 DEF TxtMoves
<1>6. CASE Server!BeginReceive(c)
  <2>1. Frame
    BY <1>6, ZenonT(40) DEF Server!BeginReceive, Server!GetBufferObject, Server!Release, Server!Sound
  <2>2. TxtBegins(c)
    BY <1>6 DEF TxtBegins, Server!BeginReceive, Server!GetBufferObject, Server!Release, Server!Sound
  <2> QED BY <1>6, <2>1, <2>2 DEF TxtMoves
<1>7. CASE Server!UseDeleted(c)
  <2>1. Frame
    BY <1>7 DEF Server!UseDeleted, Server!Release, Server!Sound
  <2>2. TxtUses(c)
    BY <1>7 DEF TxtUses, Server!UseDeleted, Server!Release, Server!Sound
  <2> QED BY <1>7, <2>1, <2>2 DEF TxtMoves
<1>8. CASE Server!KickCloses(c)
  <2>1. Frame
    BY <1>8 DEF Server!KickCloses, Server!Release
  <2>2. TxtUses(c)
    BY <1>8 DEF TxtUses, Server!KickCloses, Server!Release
  <2> QED BY <1>8, <2>1, <2>2 DEF TxtMoves
<1>9. CASE Server!KickClosed(c)
  <2>1. Frame
    BY <1>9 DEF Server!KickClosed
  <2>2. TxtUses(c)
    BY <1>9 DEF TxtUses, Server!KickClosed
  <2> QED BY <1>9, <2>1, <2>2 DEF TxtMoves
<1>10. CASE Server!Disconnect(c)
  <2>1. Frame
    BY <1>10 DEF Server!Disconnect
  <2>2. TxtUses(c)
    BY <1>10 DEF TxtUses, Server!Disconnect
  <2> QED BY <1>10, <2>1, <2>2 DEF TxtMoves
<1> QED BY <1>1, <1>2, <1>3, <1>4, <1>5, <1>6, <1>7, <1>8, <1>9, <1>10 DEF TxtQuietSteps

\* They keep the invariant.
LEMMA TxtQuietKeep ==
    ASSUME TxtInv, NEW c \in Connections, TxtQuietSteps(c)
    PROVE  TxtTypes' /\ TxtOne(c)' /\ \A e \in Connections \ {c} : TxtSame(e)
<1>1. TxtTypes /\ TxtOne(c) /\ TxtLife(c)
  BY DEF TxtInv, TxtOne
<1>2. /\ TxtMoves(c) /\ TxtKeeps(c) /\ \A e \in Connections \ {c} : TxtSame(e)
  BY <1>1, TxtStepMoves
<1>3. /\ TxtLife(c)' /\ refs'[c] \in Nat /\ textCloser'[c] # "gone"
      /\ (textReceiver'[c] \in {"accept", "idle", "use"}
             => textReceiver[c] \in {"accept", "idle", "use"} \/ textCloser[c] = "no")
      /\ (textReceiver[c] = "kick" /\ textReceiver'[c] # "kick" => textCloser'[c] # "no")
      /\ (textCloser[c] # "no" => textCloser'[c] # "no")
      /\ (textReceiver'[c] \in {"accept", "idle", "use"} => textReceiver[c] # "kick")
  BY <1>1, <1>2, TxtMovesKeep
<1>4. TxtOne(c)'
  BY <1>1, <1>2, <1>3, TxtQuiet
<1>5. TxtTypes'
  <2>1. refs' \in [Connections -> Nat] /\ textCloser' \in [Connections ->
            {"no", "find", "missed", "drop", "erase", "delete", "done"}]
    <3>1. /\ refs' = [refs EXCEPT ![c] = refs'[c]]
          /\ textCloser' = [textCloser EXCEPT ![c] = textCloser'[c]]
          /\ textCloser'[c] \in {"no", "find", "missed", "drop", "erase", "delete", "done", "gone"}
      BY <1>1, TxtStepMoves
    <3> DEFINE x == textCloser'[c]
               y == refs'[c]
    <3>2. /\ refs' = [refs EXCEPT ![c] = y] /\ textCloser' = [textCloser EXCEPT ![c] = x]
          /\ x \in {"no", "find", "missed", "drop", "erase", "delete", "done"} /\ y \in Nat
      BY <1>3, <3>1
    <3> HIDE DEF x, y
    <3> QED BY <1>1, <3>2 DEF TxtTypes
  <2> QED BY <1>1, <2>1, TxtStepMoves DEF TxtTypes
<1> QED BY <1>2, <1>4, <1>5

\* GetStringLen came to byte q of the stream: behind the d texts before the
\* buffer it has cut the texts up to the m-th, and no other ends there.
TxtCut(c, d, q, r, m) ==
    /\ m \in d..TxtCount(c) /\ r.end = TxtEnd(c, m) - TxtEnd(c, d)
    /\ r.texts \in Seq(Seq(Nat)) /\ Len(r.texts) = m - d
    /\ \A k \in 1..(m - d) : r.texts[k] = Run(TxtEnd(c, (d + k) - 1), TxtEnd(c, d + k))
    /\ TxtEnd(c, m) <= q
    /\ m < TxtCount(c) => q < TxtEnd(c, m + 1)

\* It begins with nothing.
LEMMA TxtCutFirst ==
    ASSUME NEW c, textStream[c] \in TextStreams, NEW d \in 0..TxtCount(c)
    PROVE  TxtCut(c, d, TxtEnd(c, d), [texts |-> <<>>, end |-> 0], d)
<1>1. /\ TxtCount(c) \in Nat /\ TxtEnd(c, d) \in Nat
      /\ \A j, k \in 0..TxtCount(c) : j < k => TxtEnd(c, j) < TxtEnd(c, k)
  BY TxtEnds
<1>2. ASSUME d < TxtCount(c) PROVE TxtEnd(c, d) < TxtEnd(c, d + 1)
  <2>1. d + 1 \in 0..TxtCount(c) /\ d < d + 1
    BY <1>1, <1>2
  <2> QED BY <2>1, <1>1
<1>3. <<>> \in Seq(Seq(Nat)) /\ Len(<<>>) = 0 /\ d - d = 0 /\ TxtEnd(c, d) - TxtEnd(c, d) = 0
  BY <1>1
<1>4. d \in d..TxtCount(c) /\ TxtEnd(c, d) <= TxtEnd(c, d)
  BY <1>1
<1> QED BY <1>2, <1>3, <1>4 DEF TxtCut

\* A byte that ends no text changes nothing.
LEMMA TxtCutSkip ==
    ASSUME NEW c, textStream[c] \in TextStreams, NEW d \in 0..TxtCount(c), NEW q \in Nat, NEW r,
           NEW m, TxtCut(c, d, q, r, m), q + 1 \notin Server!Ends(c)
    PROVE  TxtCut(c, d, q + 1, r, m)
<1>1. /\ TxtCount(c) \in Nat /\ DOMAIN textStream[c] = 1..TxtCount(c)
      /\ \A k \in 0..TxtCount(c) : TxtEnd(c, k) \in Nat
  BY TxtEnds
<1>2. m \in d..TxtCount(c) /\ TxtEnd(c, m) <= q /\ (m < TxtCount(c) => q < TxtEnd(c, m + 1))
  BY DEF TxtCut
<1>3. TxtEnd(c, m) \in Nat
  BY <1>1, <1>2
<1>4. ASSUME m < TxtCount(c) PROVE q + 1 < TxtEnd(c, m + 1)
  <2>1. m + 1 \in 1..TxtCount(c) /\ m + 1 \in 0..TxtCount(c)
    BY <1>1, <1>2, <1>4
  <2>2. TxtEnd(c, m + 1) # q + 1
    BY <2>1, <1>1 DEF Server!Ends, TxtEnd
  <2>3. TxtEnd(c, m + 1) \in Nat /\ q < TxtEnd(c, m + 1)
    BY <2>1, <1>1, <1>2, <1>4
  <2> QED BY <2>2, <2>3
<1>5. TxtEnd(c, m) <= q + 1
  BY <1>2, <1>3
<1> QED BY <1>4, <1>5 DEF TxtCut

\* A byte that ends a text, ends the next one.
LEMMA TxtCutOne ==
    ASSUME NEW c, textStream[c] \in TextStreams, NEW d \in 0..TxtCount(c), NEW q \in Nat, NEW r,
           NEW m, TxtCut(c, d, q, r, m), q + 1 \in Server!Ends(c), NEW p \in Nat, q + 1 <= p
    PROVE  TxtCut(c, d, q + 1,
                  [texts |-> Append(r.texts, SubSeq(Run(TxtEnd(c, d), p), r.end + 1,
                                                    (q + 1) - TxtEnd(c, d))),
                   end   |-> (q + 1) - TxtEnd(c, d)], m + 1)
<1> DEFINE n == TxtCount(c)
           from == TxtEnd(c, d)
           old == TxtEnd(c, m)
           new == TxtEnd(c, m + 1)
           text == SubSeq(Run(from, p), r.end + 1, (q + 1) - from)
           all == Append(r.texts, text)
<1>1. /\ n \in Nat /\ DOMAIN textStream[c] = 1..n
      /\ \A k \in 0..n : TxtEnd(c, k) \in Nat
      /\ \A j, k \in 0..n : j < k => TxtEnd(c, j) < TxtEnd(c, k)
  BY TxtEnds
<1>2. /\ m \in d..n /\ r.end = old - from /\ r.texts \in Seq(Seq(Nat)) /\ Len(r.texts) = m - d
      /\ \A k \in 1..(m - d) : r.texts[k] = Run(TxtEnd(c, (d + k) - 1), TxtEnd(c, d + k))
      /\ old <= q /\ (m < n => q < new)
  BY DEF TxtCut
<1>3. from \in Nat /\ old \in Nat /\ m \in Nat /\ d \in Nat
  BY <1>1, <1>2
<1>4. PICK k \in 1..n : TxtEnd(c, k) = q + 1
  BY <1>1 DEF Server!Ends, TxtEnd
<1>5. m < k
  <2> SUFFICES ASSUME k <= m PROVE FALSE
    BY <1>1, <1>3
  <2>1. k < m \/ k = m
    BY <1>1, <1>3
  <2>2. k \in 0..n /\ m \in 0..n
    BY <1>1, <1>2, <1>3
  <2>3. TxtEnd(c, k) <= old
    <3>1. k < m => TxtEnd(c, k) < old
      BY <1>1, <2>2
    <3> QED BY <3>1, <2>1, <2>2, <1>1, <1>3
  <2> HIDE DEF old
  <2> QED BY <2>3, <1>2, <1>3, <1>4
<1>6. m + 1 \in 1..n /\ m + 1 \in 0..n /\ m < n
  BY <1>1, <1>3, <1>5
<1>7. new = q + 1 /\ new \in Nat
  <2>1. new \in Nat
    BY <1>1, <1>6
  <2>2. new <= q + 1
    <3>1. m + 1 < k \/ m + 1 = k
      BY <1>1, <1>3, <1>5
    <3>2. m + 1 < k => new < TxtEnd(c, k)
      BY <1>1, <1>6
    <3> HIDE DEF new
    <3>3. m + 1 = k => new = TxtEnd(c, k)
      BY DEF new
    <3> QED BY <3>1, <3>2, <3>3, <2>1, <1>4
  <2>3. q < new
    BY <1>2, <1>6
  <2> HIDE DEF new
  <2> QED BY <2>1, <2>2, <2>3
<1>8. from <= old
  <2>1. d = m \/ d < m
    BY <1>2, <1>3
  <2>2. d \in 0..n /\ m \in 0..n
    BY <1>1, <1>2, <1>3
  <2>3. d < m => from < old
    BY <2>2, <1>1
  <2>4. d = m => from = old
    OBVIOUS
  <2> HIDE DEF from, old
  <2> QED BY <2>1, <2>3, <2>4, <1>3
<1>9. text = Run(old, new)
  <2> HIDE DEF old, new, from
  <2>1. old <= new /\ new <= p
    BY <1>2, <1>3, <1>7
  <2>2. Piece(from, p, old, new) = Run(old, new)
    <3>1. from \in Nat /\ p \in Nat /\ old \in Nat /\ new \in Nat
      BY <1>3, <1>7
    <3>2. from <= old /\ old <= new /\ new <= p
      BY <1>8, <2>1
    <3> QED BY <3>1, <3>2, RunPiece
  <2>3. SubSeq(Run(from, p), r.end + 1, (q + 1) - from) = Piece(from, p, old, new)
    BY <1>2, <1>7 DEF Piece
  <2> QED BY <2>2, <2>3
<1>10. Run(old, new) \in Seq(Nat)
  <2> HIDE DEF old, new
  <2>1. old <= new
    BY <1>2, <1>3, <1>7
  <2> QED BY <2>1, <1>3, <1>7, RunFacts
<1> DEFINE S == Seq(Nat)
<1>11. r.texts \in Seq(S) /\ text \in S
  BY <1>2, <1>9, <1>10
<1> HIDE DEF S, text
<1>12. /\ all \in Seq(S) /\ Len(all) = Len(r.texts) + 1 /\ all[Len(r.texts) + 1] = text
       /\ \A i \in 1..Len(r.texts) : all[i] = r.texts[i]
  BY <1>11, AppendProperties
<1> HIDE DEF all
<1>13. \A i \in 1..((m + 1) - d) : all[i] = Run(TxtEnd(c, (d + i) - 1), TxtEnd(c, d + i))
  <2> SUFFICES ASSUME NEW i \in 1..((m + 1) - d)
               PROVE  all[i] = Run(TxtEnd(c, (d + i) - 1), TxtEnd(c, d + i))
    OBVIOUS
  <2>1. i \in 1..(m - d) \/ i = (m - d) + 1
    BY <1>2, <1>3
  <2>2. CASE i \in 1..(m - d)
    BY <2>2, <1>2, <1>12
  <2>3. CASE i = (m - d) + 1
    <3>1. d + i = m + 1 /\ (d + i) - 1 = m
      BY <2>3, <1>3
    <3>2. all[i] = text
      BY <2>3, <1>2, <1>12
    <3> QED BY <3>1, <3>2, <1>9
  <2> QED BY <2>1, <2>2, <2>3
<1>14. m + 1 < n => q + 1 < TxtEnd(c, (m + 1) + 1)
  <2> SUFFICES ASSUME m + 1 < n PROVE new < TxtEnd(c, (m + 1) + 1)
    BY <1>7
  <2>1. (m + 1) + 1 \in 0..n /\ m + 1 < (m + 1) + 1
    BY <1>1, <1>3
  <2> QED BY <2>1, <1>1, <1>6
<1>15. /\ m + 1 \in d..n /\ Len(all) = (m + 1) - d /\ (q + 1) - from = new - from /\ new <= q + 1
       /\ all \in Seq(Seq(Nat))
  BY <1>2, <1>3, <1>6, <1>7, <1>12 DEF S
<1> DEFINE z == [texts |-> all, end |-> (q + 1) - from]
<1>16. TxtCut(c, d, q + 1, z, m + 1)
  <2>1. z.texts = all /\ z.end = new - from
    BY <1>15
  <2> HIDE DEF z
  <2> QED BY <2>1, <1>13, <1>14, <1>15 DEF TxtCut
<1> QED BY <1>16 DEF all, text

\* GetStringLen cuts the texts that are complete, and no others.
LEMMA TxtCuts ==
    ASSUME NEW c, textStream[c] \in TextStreams, NEW d \in 0..TxtCount(c), NEW p \in Nat,
           TxtEnd(c, d) <= p
    PROVE  \E m \in d..TxtCount(c) :
               TxtCut(c, d, p, Server!GetStringLen(c, Run(TxtEnd(c, d), p)), m)
<1> DEFINE a == TxtEnd(c, d)
           bytes == Run(a, p)
           n == p - a
           E == Server!Ends(c)
           S == [texts : Seq(Seq(Nat)), end : Nat]
           z == [texts |-> <<>>, end |-> 0]
           more(i, r) == [texts |-> Append(r.texts, SubSeq(bytes, r.end + 1, i)), end |-> i]
           g == [q \in (1..n) \X S |-> IF bytes[q[1]] \notin E THEN q[2] ELSE more(q[1], q[2])]
           cut == CHOOSE cut : cut = [i \in 0..Len(bytes) |->
                      IF i = 0 THEN [texts |-> <<>>, end |-> 0]
                      ELSE IF bytes[i] \notin E THEN cut[i - 1]
                      ELSE [texts |-> Append(cut[i - 1].texts,
                                             SubSeq(bytes, cut[i - 1].end + 1, i)),
                            end   |-> i]]
<1>1. a \in Nat /\ n \in Nat /\ z \in S
  <2>1. a \in Nat
    BY TxtEnds
  <2> QED BY <2>1
<1>2. bytes \in Seq(Nat) /\ Len(bytes) = n /\ \A i \in 1..n : bytes[i] = a + i /\ bytes[i] \in Nat
  <2>0. a <= p
    OBVIOUS
  <2> HIDE DEF a
  <2>1. bytes \in Seq(Nat) /\ Len(bytes) = n /\ \A i \in 1..n : bytes[i] = a + i
    BY <1>1, <2>0, RunFacts
  <2>2. \A i \in 1..n : a + i \in Nat
    BY <1>1
  <2> QED BY <2>1, <2>2
<1>3. Server!GetStringLen(c, bytes) = cut[n]
  <2>1. Server!GetStringLen(c, bytes) = cut[Len(bytes)]
    BY DEF Server!GetStringLen
  <2> HIDE DEF cut, bytes
  <2> QED BY <2>1, <1>2
<1> HIDE DEF bytes, a, n, E
<1>4. ASSUME NEW i \in 1..n, NEW r \in S PROVE more(i, r) \in S
  <2>1. r.end \in Nat /\ r.texts \in Seq(Seq(Nat))
    OBVIOUS
  <2> DEFINE x == r.end + 1
             t == SubSeq(bytes, x, i)
             T == Seq(Nat)
  <2>2. x \in Int /\ i \in Int /\ x >= 1
    BY <2>1
  <2>3. \A j \in x..i : bytes[j] \in Nat
    BY <1>1, <1>2, <2>2
  <2> HIDE DEF x
  <2>4. t \in T
    BY <2>2, <2>3, SubSeqProperties
  <2>5. r.texts \in Seq(T)
    BY <2>1
  <2> HIDE DEF t, T
  <2>6. Append(r.texts, t) \in Seq(T)
    BY <2>4, <2>5, AppendProperties
  <2> QED BY <2>6 DEF x, t, T
<1>5. g \in [(1..n) \X S -> S]
  <2> SUFFICES ASSUME NEW q \in (1..n) \X S
               PROVE  (IF bytes[q[1]] \notin E THEN q[2] ELSE more(q[1], q[2])) \in S
    OBVIOUS
  <2> DEFINE i == q[1]
             r == q[2]
  <2>1. i \in 1..n /\ r \in S
    OBVIOUS
  <2> HIDE DEF i, r, S
  <2>2. more(i, r) \in S
    BY <2>1, <1>4
  <2> HIDE DEF more
  <2> QED BY <2>1, <2>2 DEF i, r
<1>6. PICK f \in [0..n -> S] : Recurses(f, z, g, n)
  <2> HIDE DEF S, z, g
  <2> QED BY <1>1, <1>5, RecursionExists
<1>7. \A i \in 0..n : f[i] = IF i = 0 THEN z ELSE IF bytes[i] \notin E THEN f[i - 1] ELSE more(i, f[i - 1])
  <2> SUFFICES ASSUME NEW i \in 0..n
               PROVE  f[i] = IF i = 0 THEN z ELSE IF bytes[i] \notin E THEN f[i - 1]
                             ELSE more(i, f[i - 1])
    OBVIOUS
  <2>1. f[i] = IF i = 0 THEN z ELSE g[<<i, f[i - 1]>>]
    <3> HIDE DEF z, g, S
    <3> QED BY <1>6 DEF Recurses
  <2>2. CASE i = 0
    BY <2>1, <2>2
  <2>3. CASE i \in 1..n
    <3> HIDE DEF S, more
    <3>0. i - 1 \in 0..n /\ i # 0
      BY <2>3, <1>1
    <3>1. f[i - 1] \in S /\ i # 0
      BY <3>0
    <3>2. <<i, f[i - 1]>> \in (1..n) \X S
      BY <3>1, <2>3
    <3>3. g[<<i, f[i - 1]>>] = IF bytes[i] \notin E THEN f[i - 1] ELSE more(i, f[i - 1])
      BY <3>2
    <3> HIDE DEF g, z
    <3> QED BY <2>1, <3>1, <3>3
  <2>4. i = 0 \/ i \in 1..n
    BY <1>1
  <2> QED BY <2>2, <2>3, <2>4
<1>8. \E h : h = [i \in 0..Len(bytes) |->
                      IF i = 0 THEN [texts |-> <<>>, end |-> 0]
                      ELSE IF bytes[i] \notin E THEN h[i - 1]
                      ELSE [texts |-> Append(h[i - 1].texts,
                                             SubSeq(bytes, h[i - 1].end + 1, i)),
                            end   |-> i]]
  <2>1. f = [i \in 0..Len(bytes) |-> f[i]]
    BY <1>2
  <2>2. f = [i \in 0..Len(bytes) |->
                      IF i = 0 THEN [texts |-> <<>>, end |-> 0]
                      ELSE IF bytes[i] \notin E THEN f[i - 1]
                      ELSE [texts |-> Append(f[i - 1].texts,
                                             SubSeq(bytes, f[i - 1].end + 1, i)),
                            end   |-> i]]
    BY <2>1, <1>2, <1>7
  <2> QED BY <2>2
<1>9. /\ cut[0] = z
      /\ \A i \in 1..n : cut[i] = IF bytes[i] \notin E THEN cut[i - 1] ELSE more(i, cut[i - 1])
  <2>1. cut = [i \in 0..Len(bytes) |->
                      IF i = 0 THEN [texts |-> <<>>, end |-> 0]
                      ELSE IF bytes[i] \notin E THEN cut[i - 1]
                      ELSE [texts |-> Append(cut[i - 1].texts,
                                             SubSeq(bytes, cut[i - 1].end + 1, i)),
                            end   |-> i]]
    BY <1>8, ZenonT(40)
  <2> HIDE DEF cut
  <2>2. \A i \in 0..n : cut[i] = IF i = 0 THEN z ELSE IF bytes[i] \notin E THEN cut[i - 1]
                                 ELSE more(i, cut[i - 1])
    BY <2>1, <1>2, ZenonT(40)
  <2>3. 0 \in 0..n /\ \A i \in 1..n : i \in 0..n /\ i # 0
    BY <1>1
  <2> HIDE DEF z, more
  <2> QED BY <2>2, <2>3
<1> HIDE DEF cut, z
<1> DEFINE Q(i) == \E m \in d..TxtCount(c) : TxtCut(c, d, a + i, cut[i], m)
           N == {i \in Nat : i <= n => Q(i)}
<1>10. 0 \in N
  <2>1. TxtCut(c, d, a, cut[0], d)
    BY <1>9, TxtCutFirst DEF a, z
  <2>2. a + 0 = a /\ d \in d..TxtCount(c)
    BY <1>1, TxtEnds
  <2> QED BY <2>1, <2>2
<1>11. ASSUME NEW i \in Nat, i \in N PROVE i + 1 \in N
  <2> SUFFICES ASSUME i + 1 <= n PROVE Q(i + 1)
    OBVIOUS
  <2>1. Q(i)
    BY <1>1, <1>11
  <2>2. PICK m \in d..TxtCount(c) : TxtCut(c, d, a + i, cut[i], m)
    BY <2>1
  <2>3. i + 1 \in 1..n /\ (i + 1) - 1 = i /\ a + i \in Nat /\ (a + i) + 1 = a + (i + 1)
        /\ (a + i) + 1 <= p /\ (a + (i + 1)) - a = i + 1
    BY <1>1 DEF n
  <2>4. bytes[i + 1] = (a + i) + 1
    BY <2>3, <1>2
  <2>5. CASE bytes[i + 1] \notin E
    <3>1. TxtCut(c, d, (a + i) + 1, cut[i], m)
      BY <2>2, <2>3, <2>4, <2>5, TxtCutSkip, SMTT(30) DEF E
    <3>2. cut[i + 1] = cut[i]
      BY <2>3, <2>5, <1>9
    <3> QED BY <3>1, <3>2, <2>3
  <2>6. CASE bytes[i + 1] \in E
    <3> DEFINE q == a + i
    <3>1. TxtCut(c, d, q + 1,
                 [texts |-> Append(cut[i].texts, SubSeq(Run(TxtEnd(c, d), p), cut[i].end + 1,
                                                        (q + 1) - TxtEnd(c, d))),
                  end   |-> (q + 1) - TxtEnd(c, d)], m + 1)
      <4>1. q \in Nat /\ TxtCut(c, d, q, cut[i], m) /\ q + 1 \in Server!Ends(c) /\ q + 1 <= p
        BY <2>2, <2>3, <2>4, <2>6 DEF E
      <4> HIDE DEF q
      <4> QED BY <4>1, TxtCutOne
    <3>2. cut[i + 1] = more(i + 1, cut[i])
      BY <2>3, <2>6, <1>9
    <3>3. TxtCut(c, d, q + 1, cut[i + 1], m + 1)
      <4>1. (q + 1) - TxtEnd(c, d) = i + 1 /\ Run(TxtEnd(c, d), p) = bytes
        BY <2>3 DEF a, bytes
      <4> HIDE DEF q
      <4> QED BY <3>1, <3>2, <4>1
    <3>4. m + 1 \in d..TxtCount(c) /\ q + 1 = a + (i + 1)
      BY <2>3, <3>3 DEF TxtCut
    <3> HIDE DEF q
    <3> QED BY <3>3, <3>4
  <2> QED BY <2>5, <2>6
<1>12. Nat \subseteq N
  <2> HIDE DEF N
  <2> QED BY <1>10, <1>11, Induction
<1>13. Q(n)
  <2> HIDE DEF Q
  <2> QED BY <1>1, <1>12
<1>14. a + n = p
  BY <1>1 DEF n
<1> QED BY <1>3, <1>13, <1>14 DEF a, bytes

\* What is known when a receive brings its bytes.
LEMMA TxtReceives ==
    ASSUME TxtInv, NEW c \in Connections, NEW n \in 1..TextChunk, textReceiver[c] = "use",
           Server!Arrive(c, n)
    PROVE  /\ ~kicked[c] /\ TextChunk \in Nat /\ TextLimit \in Nat /\ n \in Nat \ {0}
           /\ n <= TextChunk
           /\ textStream[c] \in TextStreams /\ textArrived[c] \in Nat
           /\ TxtDone(c) \in 0..TxtCount(c) /\ TxtDone(c) \in Nat /\ TxtCount(c) \in Nat
           /\ TxtEnd(c, TxtDone(c)) \in Nat /\ TxtEnd(c, TxtDone(c)) <= textArrived[c]
           /\ textBuffer[c] = Run(TxtEnd(c, TxtDone(c)), textArrived[c])
           /\ TxtEnd(c, TxtCount(c)) \in Nat /\ textArrived[c] + n <= TxtEnd(c, TxtCount(c))
           /\ (TxtDone(c) < TxtCount(c) => textArrived[c] < TxtEnd(c, TxtDone(c) + 1))
<1>1. TxtTypes /\ TxtBytes(c) /\ TxtKicked(c)
  BY DEF TxtInv, TxtOne
<1>2. ~kicked[c] /\ TextChunk \in Nat /\ TextLimit \in Nat
  BY <1>1, ProtocolsAssumption DEF TxtKicked
<1>3. n \in Nat \ {0} /\ n <= TextChunk
  BY <1>2
<1>4. textStream[c] \in TextStreams /\ textArrived[c] \in Nat
  BY <1>1 DEF TxtTypes
<1>5. TxtDone(c) \in Nat
  BY <1>1 DEF TxtTypes, TxtDone
<1>6. TxtCount(c) \in Nat /\ \A k \in 0..TxtCount(c) : TxtEnd(c, k) \in Nat
  BY <1>4, TxtEnds
<1>7. TxtDone(c) \in 0..TxtCount(c) /\ TxtCount(c) \in 0..TxtCount(c)
  BY <1>1, <1>5, <1>6 DEF TxtBytes
<1>8. TxtEnd(c, TxtDone(c)) \in Nat /\ TxtEnd(c, TxtCount(c)) \in Nat
  BY <1>6, <1>7
<1>9. n <= TxtEnd(c, TxtCount(c)) - textArrived[c]
  BY DEF Server!Arrive, TxtEnd, TxtCount
<1>10. textArrived[c] + n <= TxtEnd(c, TxtCount(c))
  BY <1>3, <1>4, <1>8, <1>9
<1> QED BY <1>1, <1>2, <1>3, <1>4, <1>5, <1>6, <1>7, <1>8, <1>10 DEF TxtBytes

\* A connection is kicked only for a text that is too long.
LEMMA TxtKicks ==
    ASSUME TxtInv, NEW c \in Connections, NEW n \in 1..TextChunk, Server!KickUser(c, n)
    PROVE  TxtTypes' /\ TxtOne(c)' /\ \A e \in Connections \ {c} : TxtSame(e)
<1> DEFINE d == TxtDone(c)
           p == textArrived[c]
           a == TxtEnd(c, d)
<1>1. TxtTypes /\ TxtOne(c)
  BY DEF TxtInv
<1>2. /\ textReceiver[c] = "use" /\ textReceiver' = [textReceiver EXCEPT ![c] = "kick"]
      /\ Server!Arrive(c, n) /\ Len(textBuffer[c]) + n > TextLimit
      /\ kicked' = [kicked EXCEPT ![c] = TRUE]
      /\ textArrived' = [textArrived EXCEPT ![c] = @ + n]
      /\ UNCHANGED <<textStream, announced, object, refs, textEntry, textBuffer, textDelivered,
                     textCloser, overtaken, textMisused>>
  BY DEF Server!KickUser, Server!TooLong, Server!Arrive, Server!Release, Server!lifetime,
         Server!history
<1>3. /\ ~kicked[c] /\ TextChunk \in Nat /\ TextLimit \in Nat /\ n \in Nat \ {0} /\ n <= TextChunk
      /\ textStream[c] \in TextStreams /\ p \in Nat /\ d \in 0..TxtCount(c) /\ d \in Nat
      /\ TxtCount(c) \in Nat /\ a \in Nat /\ a <= p /\ textBuffer[c] = Run(a, p)
      /\ TxtEnd(c, TxtCount(c)) \in Nat /\ p + n <= TxtEnd(c, TxtCount(c))
      /\ (d < TxtCount(c) => p < TxtEnd(c, d + 1))
  BY <1>2, TxtReceives
<1>4. TxtTypes'
  BY <1>1, <1>2, <1>3 DEF TxtTypes
<1>5. \A e \in Connections \ {c} : TxtSame(e)
  BY <1>1, <1>2 DEF TxtTypes, TxtSame, TxtStill, TxtKeeps
<1>6. /\ textReceiver'[c] = "kick" /\ kicked'[c] /\ textArrived'[c] = p + n
  BY <1>1, <1>2 DEF TxtTypes
<1>7. TxtLife(c)'
  BY <1>1, <1>2, <1>6 DEF TxtOne, TxtLife, TxtCounted, TxtInTurn, TxtInWindow, TxtMapRef, TxtUseRef
<1>8. TxtBytes(c)'
  <2>1. TxtCount(c)' = TxtCount(c) /\ \A k : TxtEnd(c, k)' = TxtEnd(c, k)
    BY <1>2, TxtEndsStay
  <2>2. TxtDone(c)' = TxtDone(c) /\ TxtEnd(c, TxtCount(c))' = TxtEnd(c, TxtCount(c))
    BY <1>2, <2>1 DEF TxtDone, TxtEnd
  <2>3. \A k \in 1..TxtDone(c) : textDelivered[c][k] = Run(TxtEnd(c, k - 1), TxtEnd(c, k))
    BY <1>1 DEF TxtOne, TxtBytes
  <2>4. TxtDone(c) <= TxtCount(c) /\ Len(textBuffer[c]) <= TextLimit
    BY <1>1 DEF TxtOne, TxtBytes
  <2> QED BY <1>2, <1>3, <1>6, <2>1, <2>2, <2>3, <2>4 DEF TxtBytes
<1>9. TxtKicked(c)'
  <2>1. Len(textBuffer[c]) = p - a
    <3> HIDE DEF a, p
    <3> QED BY <1>3, RunFacts
  <2>2. d < TxtCount(c)
    <3> SUFFICES ASSUME d = TxtCount(c) PROVE FALSE
      BY <1>3
    <3>1. a = TxtEnd(c, TxtCount(c))
      OBVIOUS
    <3> HIDE DEF a, p, d
    <3> QED BY <3>1, <1>3
  <2>3. d + 1 \in 1..TxtCount(c) /\ (d + 1) - 1 = d
    BY <1>3, <2>2
  <2>4. /\ d + 1 \in DOMAIN textStream[c] /\ textStream[c][d + 1] \in Nat
        /\ TxtEnd(c, d + 1) = a + textStream[c][d + 1]
    BY <1>3, <2>3, TxtEnds
  <2> DEFINE z == textStream[c][d + 1]
  <2>5. z > TextLimit - TextChunk + 1
    <3> DEFINE b == TxtEnd(c, d + 1)
               l == Len(textBuffer[c])
    <3>1. z \in Nat /\ p < b /\ b = a + z /\ l = p - a /\ l + n > TextLimit
      BY <1>2, <1>3, <2>1, <2>2, <2>4
    <3> HIDE DEF a, p, z, b, l
    <3> QED BY <1>3, <3>1
  <2>6. \E k \in DOMAIN textStream[c] : textStream[c][k] > TextLimit - TextChunk + 1
    BY <2>4, <2>5
  <2> QED BY <1>2, <1>6, <2>6 DEF TxtKicked
<1> QED BY <1>4, <1>5, <1>7, <1>8, <1>9 DEF TxtOne

\* The texts that are complete are notified, the rest stays.
LEMMA TxtCutKeeps ==
    ASSUME TxtInv, NEW c \in Connections, NEW n \in 1..TextChunk, Server!CutTexts(c, n)
    PROVE  TxtTypes' /\ TxtOne(c)' /\ \A e \in Connections \ {c} : TxtSame(e)
<1> DEFINE d == TxtDone(c)
           p == textArrived[c]
           a == TxtEnd(c, d)
           q == p + n
           bytes == textBuffer[c] \o Server!Received(c, n)
           cut == Server!GetStringLen(c, bytes)
           rest == SubSeq(bytes, cut.end + 1, Len(bytes))
           all == textDelivered[c] \o cut.texts
<1>1. TxtTypes /\ TxtOne(c)
  BY DEF TxtInv
<1>2. /\ textReceiver[c] = "use" /\ textReceiver' = [textReceiver EXCEPT ![c] = "drop"]
      /\ Server!Arrive(c, n) /\ ~(Len(textBuffer[c]) + n > TextLimit)
      /\ textDelivered' = [textDelivered EXCEPT ![c] = all]
      /\ textBuffer' = [textBuffer EXCEPT ![c] = rest]
      /\ textArrived' = [textArrived EXCEPT ![c] = q]
      /\ UNCHANGED <<textStream, announced, object, refs, textEntry, kicked, textCloser,
                     overtaken, textMisused>>
  BY DEF Server!CutTexts, Server!TooLong, Server!Arrive, Server!Release, Server!lifetime,
         Server!history
<1>3. /\ ~kicked[c] /\ TextChunk \in Nat /\ TextLimit \in Nat /\ n \in Nat \ {0} /\ n <= TextChunk
      /\ textStream[c] \in TextStreams /\ p \in Nat /\ d \in 0..TxtCount(c) /\ d \in Nat
      /\ TxtCount(c) \in Nat /\ a \in Nat /\ a <= p /\ textBuffer[c] = Run(a, p)
      /\ TxtEnd(c, TxtCount(c)) \in Nat /\ q <= TxtEnd(c, TxtCount(c))
  BY <1>2, TxtReceives
<1>4. q \in Nat /\ p <= q /\ a <= q
  <2> HIDE DEF a, p
  <2> QED BY <1>3
<1>5. bytes = Run(a, q)
  <2>1. Server!Received(c, n) = Run(p, q)
    <3>1. q - p = n
      BY <1>3
    <3> QED BY <3>1 DEF Server!Received, Run
  <2> HIDE DEF a, p, q
  <2>2. Run(a, p) \o Run(p, q) = Run(a, q)
    BY <1>3, <1>4, RunJoins, ZenonT(40)
  <2> QED BY <1>3, <2>1, <2>2
<1>6. PICK m \in d..TxtCount(c) : TxtCut(c, d, q, cut, m)
  <2> HIDE DEF q
  <2>1. \E m \in d..TxtCount(c) : TxtCut(c, d, q, Server!GetStringLen(c, Run(TxtEnd(c, d), q)), m)
    BY <1>3, <1>4, TxtCuts
  <2> HIDE DEF bytes
  <2> QED BY <2>1, <1>5
<1> DEFINE b == TxtEnd(c, m)
           t == cut.texts
<1> HIDE DEF bytes, cut
<1>7. /\ m \in d..TxtCount(c) /\ cut.end = b - a /\ t \in Seq(Seq(Nat)) /\ Len(t) = m - d
      /\ \A k \in 1..(m - d) : t[k] = Run(TxtEnd(c, (d + k) - 1), TxtEnd(c, d + k))
      /\ b <= q /\ (m < TxtCount(c) => q < TxtEnd(c, m + 1))
  BY <1>6 DEF TxtCut
<1>8. m \in Nat /\ m \in 0..TxtCount(c) /\ d <= m /\ m <= TxtCount(c) /\ b \in Nat /\ a <= b
  <2>1. m \in Nat /\ m \in 0..TxtCount(c) /\ d <= m /\ m <= TxtCount(c) /\ (d = m \/ d < m)
    BY <1>3, <1>7
  <2>2. /\ \A k \in 0..TxtCount(c) : TxtEnd(c, k) \in Nat
        /\ \A j, k \in 0..TxtCount(c) : j < k => TxtEnd(c, j) < TxtEnd(c, k)
    BY <1>3, TxtEnds
  <2>3. d < m => a < b
    BY <1>3, <2>1, <2>2
  <2>4. b \in Nat /\ (d = m => a = b)
    BY <2>1, <2>2
  <2> HIDE DEF a, b
  <2> QED BY <1>3, <2>1, <2>3, <2>4
<1> DEFINE S == Seq(Nat)
<1>9. textDelivered[c] \in Seq(S) /\ t \in Seq(S) /\ Len(textDelivered[c]) = d
  BY <1>1, <1>7 DEF TxtTypes, TxtDone
<1>10. \A k \in 1..d : textDelivered[c][k] = Run(TxtEnd(c, k - 1), TxtEnd(c, k))
  BY <1>1 DEF TxtOne, TxtBytes
<1>11. /\ all \in Seq(S) /\ Len(all) = m
       /\ \A k \in 1..m : all[k] = Run(TxtEnd(c, k - 1), TxtEnd(c, k))
  <2> DEFINE f == textDelivered[c]
  <2>0. f \in Seq(S) /\ t \in Seq(S) /\ Len(f) = d /\ Len(t) = m - d
    BY <1>7, <1>9
  <2>1. \A k \in 1..d : f[k] = Run(TxtEnd(c, k - 1), TxtEnd(c, k))
    BY <1>10
  <2> HIDE DEF S, d, f, t
  <2>2. /\ f \o t \in Seq(S) /\ Len(f \o t) = Len(f) + Len(t)
        /\ \A i \in 1..(Len(f) + Len(t)) :
               (f \o t)[i] = IF i <= Len(f) THEN f[i] ELSE t[i - Len(f)]
    BY <2>0, ConcatProperties
  <2>3. Len(f \o t) = m
    BY <2>0, <2>2, <1>3, <1>8
  <2>4. ASSUME NEW k \in 1..m PROVE (f \o t)[k] = Run(TxtEnd(c, k - 1), TxtEnd(c, k))
    <3>1. k \in 1..d \/ k - d \in 1..(m - d)
      BY <1>3, <1>8
    <3>2. CASE k \in 1..d
      <4>1. k \in 1..(d + (m - d)) /\ k <= d
        BY <3>2, <1>3, <1>8
      <4> QED BY <4>1, <3>2, <2>0, <2>1, <2>2
    <3>3. CASE k - d \in 1..(m - d)
      <4> DEFINE i == k - d
      <4>1. i \in 1..(m - d) /\ d + i = k /\ k \in 1..(d + (m - d)) /\ ~(k <= d)
        BY <3>3, <1>3, <1>8
      <4>2. (f \o t)[k] = t[i]
        BY <4>1, <2>0, <2>2
      <4> HIDE DEF i
      <4>3. t[i] = Run(TxtEnd(c, (d + i) - 1), TxtEnd(c, d + i))
        BY <4>1, <1>7
      <4> QED BY <4>1, <4>2, <4>3
    <3> QED BY <3>1, <3>2, <3>3
  <2> QED BY <2>2, <2>3, <2>4 DEF f, t
<1>12. rest = Run(b, q) /\ Run(b, q) \in S /\ Len(Run(b, q)) = q - b /\ Len(Run(b, q)) <= TextLimit
  <2>1. Len(bytes) = q - a /\ Len(textBuffer[c]) = p - a
    <3> HIDE DEF a, p, q
    <3> QED BY <1>3, <1>4, <1>5, RunFacts
  <2>2. Piece(a, q, b, q) = Run(b, q)
    <3>1. a \in Nat /\ b \in Nat /\ q \in Nat /\ a <= b /\ b <= q /\ q <= q
      BY <1>3, <1>4, <1>7, <1>8
    <3> HIDE DEF a, b, q
    <3> QED BY <3>1, RunPiece
  <2>3. rest = Run(b, q)
    <3>1. rest = SubSeq(bytes, cut.end + 1, Len(bytes))
      OBVIOUS
    <3> HIDE DEF rest, a, b, q
    <3> QED BY <3>1, <2>1, <2>2, <1>5, <1>7 DEF Piece
  <2>4. Run(b, q) \in S /\ Len(Run(b, q)) = q - b
    <3> HIDE DEF b, q
    <3> QED BY <1>4, <1>7, <1>8, RunFacts
  <2>5. q - b <= TextLimit
    <3> DEFINE l == Len(textBuffer[c])
    <3>1. l = p - a /\ l + n <= TextLimit /\ q = p + n
      BY <1>2, <1>3, <2>1
    <3> HIDE DEF a, b, p, q, l
    <3> QED BY <3>1, <1>3, <1>4, <1>8
  <2> QED BY <2>3, <2>4, <2>5
<1> HIDE DEF all, rest
<1>13. TxtTypes'
  <2>1. all \in Seq(Seq(Nat)) /\ rest \in Seq(Nat)
    BY <1>11, <1>12
  <2> QED BY <1>1, <1>2, <1>4, <2>1 DEF TxtTypes
<1>14. \A e \in Connections \ {c} : TxtSame(e)
  BY <1>1, <1>2 DEF TxtTypes, TxtSame, TxtStill, TxtKeeps
<1>15. /\ textReceiver'[c] = "drop" /\ ~kicked'[c] /\ textArrived'[c] = q
       /\ textDelivered'[c] = all /\ textBuffer'[c] = Run(b, q)
  BY <1>1, <1>2, <1>3, <1>12 DEF TxtTypes
<1>16. TxtLife(c)'
  BY <1>1, <1>2, <1>15 DEF TxtOne, TxtLife, TxtCounted, TxtInTurn, TxtInWindow, TxtMapRef, TxtUseRef
<1>17. TxtBytes(c)'
  <2>1. TxtCount(c)' = TxtCount(c) /\ \A k : TxtEnd(c, k)' = TxtEnd(c, k)
    BY <1>2, TxtEndsStay
  <2>2. TxtDone(c)' = m /\ TxtEnd(c, TxtCount(c))' = TxtEnd(c, TxtCount(c))
    BY <1>11, <1>15, <2>1 DEF TxtDone, TxtEnd
  <2>3. TxtEnd(c, TxtDone(c))' = b /\ TxtEnd(c, TxtDone(c) + 1)' = TxtEnd(c, m + 1)
    BY <2>1, <2>2 DEF TxtDone, TxtEnd
  <2>4. m <= TxtCount(c) /\ q <= TxtEnd(c, TxtCount(c)) /\ b <= q
    BY <1>3, <1>7, <1>8
  <2>5. \A k \in 1..m : all[k] = Run(TxtEnd(c, k - 1), TxtEnd(c, k))
    BY <1>11
  <2>6. m < TxtCount(c) => q < TxtEnd(c, m + 1)
    BY <1>7
  <2> HIDE DEF q, b
  <2> QED BY <1>12, <1>15, <2>1, <2>2, <2>3, <2>4, <2>5, <2>6 DEF TxtBytes
<1>18. TxtKicked(c)'
  BY <1>15 DEF TxtKicked
<1> QED BY <1>13, <1>14, <1>16, <1>17, <1>18 DEF TxtOne

\* Every step keeps it.
LEMMA TxtStep == TxtInv /\ [Server!Next]_(Server!vars) => TxtInv'
<1> SUFFICES ASSUME TxtInv, [Server!Next]_(Server!vars) PROVE TxtInv'
  OBVIOUS
<1>1. TxtTypes /\ \A c \in Connections : TxtOne(c)
  BY DEF TxtInv
<1>2. ASSUME UNCHANGED Server!vars PROVE TxtInv'
  <2>1. UNCHANGED <<textStream, textArrived, announced, object, refs, textEntry, textBuffer,
                    textDelivered, kicked, textCloser, textReceiver, overtaken, textMisused>>
    BY <1>2 DEF Server!vars, Server!peer, Server!lifetime, Server!data, Server!history
  <2>2. \A c \in Connections : TxtSame(c)
    BY <2>1 DEF TxtSame, TxtStill, TxtKeeps
  <2>3. \A c \in Connections : TxtOne(c)'
    BY <1>1, <2>2, TxtOthers
  <2>4. TxtTypes'
    BY <1>1, <2>1 DEF TxtTypes
  <2> QED BY <2>3, <2>4 DEF TxtInv
<1>3. ASSUME NEW c \in Connections,
             TxtTypes' /\ TxtOne(c)' /\ \A e \in Connections \ {c} : TxtSame(e)
      PROVE  TxtInv'
  <2>1. \A e \in Connections \ {c} : TxtOne(e)'
    BY <1>1, <1>3, TxtOthers
  <2>2. \A e \in Connections : TxtOne(e)'
    <3> SUFFICES ASSUME NEW e \in Connections PROVE TxtOne(e)'
      OBVIOUS
    <3>1. CASE e = c
      BY <1>3, <3>1
    <3>2. CASE e # c
      BY <2>1, <3>2
    <3> QED BY <3>1, <3>2
  <2> QED BY <1>3, <2>2 DEF TxtInv
<1>4. ASSUME NEW c \in Connections, TxtQuietSteps(c) PROVE TxtInv'
  BY <1>3, <1>4, TxtQuietKeep
<1>5. ASSUME NEW c \in Connections, NEW n \in 1..TextChunk, Server!KickUser(c, n) PROVE TxtInv'
  BY <1>3, <1>5, TxtKicks
<1>6. ASSUME NEW c \in Connections, NEW n \in 1..TextChunk, Server!CutTexts(c, n) PROVE TxtInv'
  BY <1>3, <1>6, TxtCutKeeps
<1>7. Server!AtRest => UNCHANGED Server!vars
  BY DEF Server!AtRest
<1>8. CASE \E c \in Connections :
              \/ Server!NotifyNewConnection(c) \/ Server!Disconnect(c) \/ Server!FindToRelease(c)
              \/ Server!ReleaseByCloser(c) \/ Server!ReleaseByReceiver(c)
              \/ Server!NotifyReceivedPackage(c)
  <2>1. PICK c \in Connections :
              \/ Server!NotifyNewConnection(c) \/ Server!Disconnect(c) \/ Server!FindToRelease(c)
              \/ Server!ReleaseByCloser(c) \/ Server!ReleaseByReceiver(c)
              \/ Server!NotifyReceivedPackage(c)
    BY <1>8
  <2>2. \/ TxtQuietSteps(c)
        \/ \E n \in 1..TextChunk : Server!KickUser(c, n) \/ Server!CutTexts(c, n)
    BY <2>1 DEF Server!NotifyReceivedPackage, TxtQuietSteps
  <2> QED BY <2>2, <1>4, <1>5, <1>6
<1> QED BY <1>2, <1>7, <1>8 DEF Server!Next

\* What it says of the text server.
LEMMA TxtSound == TxtInv => TextServerIsSound
<1> SUFFICES ASSUME TxtInv PROVE TextServerIsSound
  OBVIOUS
<1>1. TxtTypes
  BY DEF TxtInv
<1>2. \A c \in Connections : TxtLife(c) /\ TxtBytes(c) /\ TxtKicked(c)
  BY DEF TxtInv, TxtOne
<1>3. Server!TypeOK
  <2>1. \A c \in Connections : textEntry[c] = "object" => object[c] = "live"
    <3> SUFFICES ASSUME NEW c \in Connections, textEntry[c] = "object" PROVE object[c] = "live"
      OBVIOUS
    <3>1. TxtLife(c)
      BY <1>2
    <3>2. /\ object[c] \in {"none", "live", "deleted"} /\ overtaken[c] \in BOOLEAN
          /\ textCloser[c] \in {"no", "find", "missed", "drop", "erase", "delete", "done"}
          /\ textReceiver[c] \in {"accept", "idle", "use", "kick", "closing", "drop", "erase",
                                  "delete", "over", "gone"}
      BY <1>1 DEF TxtTypes
    <3> QED BY <3>1, <3>2 DEF TxtLife, TxtCounted, TxtInTurn, TxtInWindow
  <2> QED BY <1>1, <2>1 DEF TxtTypes, Server!TypeOK, Server!Releasing
<1>4. Server!MisusedOnlyInWindow
  BY <1>2 DEF Server!MisusedOnlyInWindow, TxtLife, TxtInTurn
<1>5. Server!NothingLeftBehind
  <2> SUFFICES ASSUME NEW c \in Connections
               PROVE  /\ textCloser[c] = "done" /\ textReceiver[c] \in {"accept", "idle", "over"}
                             => object[c] = "deleted" /\ textEntry[c] # "object"
                      /\ textCloser[c] = "missed" => textReceiver[c] = "accept"
    BY DEF Server!NothingLeftBehind
  <2>1. TxtLife(c)
    BY <1>2
  <2> QED BY <2>1 DEF TxtLife, TxtCounted, TxtInTurn, TxtInWindow
<1>6. ASSUME NEW c \in Connections
      PROVE  /\ textStream[c] \in TextStreams /\ TxtDone(c) \in 0..TxtCount(c)
             /\ textDelivered[c] \in Seq(Seq(Nat)) /\ TxtDone(c) = Len(textDelivered[c])
             /\ TxtDone(c) \in Nat /\ TxtCount(c) \in Nat /\ textArrived[c] \in Nat
             /\ \A k \in 1..TxtDone(c) : textDelivered[c][k] = Run(TxtEnd(c, k - 1), TxtEnd(c, k))
  <2>1. /\ textStream[c] \in TextStreams /\ textDelivered[c] \in Seq(Seq(Nat))
        /\ TxtDone(c) = Len(textDelivered[c]) /\ TxtDone(c) \in Nat /\ textArrived[c] \in Nat
    BY <1>1 DEF TxtTypes, TxtDone
  <2>2. TxtCount(c) \in Nat
    BY <2>1, TxtEnds
  <2> QED BY <2>1, <2>2, <1>2 DEF TxtBytes
<1>7. Server!OpenFindsBuffer
  <2> DEFINE Whole(c) == FlattenSeq(textDelivered[c]) \o textBuffer[c]
                             = [i \in 1..textArrived[c] |-> i]
  <2>0. ASSUME \A c \in Connections : announced[c] /\ textCloser[c] = "no" =>
                   textEntry[c] = "object" /\ (~kicked[c] => Whole(c))
        PROVE  Server!OpenFindsBuffer
    <3>1. \A t : Server!FlattenSeq(t) = FlattenSeq(t)
      BY DEF Server!FlattenSeq, FlattenSeq
    <3> QED BY <2>0, <3>1 DEF Server!OpenFindsBuffer
  <2> SUFFICES ASSUME NEW c \in Connections, announced[c], textCloser[c] = "no"
               PROVE  textEntry[c] = "object" /\ (~kicked[c] => Whole(c))
    <3> HIDE DEF Whole
    <3> QED BY <2>0
  <2>1. textEntry[c] = "object"
    <3>1. TxtLife(c)
      BY <1>2
    <3> QED BY <3>1 DEF TxtLife, TxtInTurn, TxtInWindow
  <2>2. ASSUME ~kicked[c]
        PROVE  FlattenSeq(textDelivered[c]) \o textBuffer[c] = [i \in 1..textArrived[c] |-> i]
    <3> DEFINE a == TxtEnd(c, TxtDone(c))
               p == textArrived[c]
    <3>1. a <= p /\ textBuffer[c] = Run(a, p)
      BY <1>2, <2>2 DEF TxtBytes
    <3>2. a \in Nat /\ p \in Nat
      BY <1>6, TxtEnds
    <3>3. FlattenSeq(textDelivered[c]) = Run(0, a)
      BY <1>6, TxtFlat
    <3> HIDE DEF a
    <3>4. Run(0, a) \o Run(a, p) = Run(0, p)
      <4> HIDE DEF p
      <4>1. 0 \in Nat /\ 0 <= a
        BY <3>2
      <4> QED BY <3>1, <3>2, <4>1, RunJoins
    <3>5. Run(0, p) = [i \in 1..p |-> i]
      <4>1. p - 0 = p /\ \A i \in 1..p : 0 + i = i
        BY <3>2
      <4> QED BY <4>1 DEF Run
    <3> QED BY <3>1, <3>3, <3>4, <3>5
  <2> QED BY <2>1, <2>2
<1>8. Server!TextsAreWhole
  <2> SUFFICES ASSUME NEW c \in Connections
               PROVE  /\ Len(textDelivered[c]) <= Len(textStream[c])
                      /\ textDelivered[c]
                             = [k \in DOMAIN textDelivered[c] |-> Server!TextAt(c, k)]
    BY DEF Server!TextsAreWhole
  <2>1. Len(textDelivered[c]) <= Len(textStream[c])
    BY <1>6 DEF TxtCount
  <2>2. DOMAIN textDelivered[c] = 1..TxtDone(c)
    BY <1>6
  <2>3. \A k \in 1..TxtDone(c) : textDelivered[c][k] = Server!TextAt(c, k)
    <3> SUFFICES ASSUME NEW k \in 1..TxtDone(c) PROVE textDelivered[c][k] = Server!TextAt(c, k)
      OBVIOUS
    <3>1. k \in 1..TxtCount(c)
      BY <1>6
    <3>2. Server!TextAt(c, k) = Run(TxtEnd(c, k - 1), TxtEnd(c, k))
      BY <1>6, <3>1, TxtAt
    <3> QED BY <1>6, <3>2
  <2>4. textDelivered[c] = [k \in DOMAIN textDelivered[c] |-> textDelivered[c][k]]
    BY <1>6
  <2> QED BY <2>1, <2>2, <2>3, <2>4
<1>9. Server!LimitIsFair
  BY <1>2 DEF Server!LimitIsFair, TxtBytes, TxtKicked
<1> QED BY <1>3, <1>4, <1>5, <1>7, <1>8, <1>9 DEF TextServerIsSound, Server!TextServerIsSound

\* The text server is sound, whatever its peers send, however the network cuts it and
\* whichever thread releases the buffer last: TextIOCP.cpp.
THEOREM TextsHold == Server!Spec => []TextServerIsSound
<1>1. Server!Init => TxtInv
  BY TxtInit
<1>2. TxtInv /\ [Server!Next]_(Server!vars) => TxtInv'
  BY TxtStep
<1>3. TxtInv => TextServerIsSound
  BY TxtSound
<1> QED BY <1>1, <1>2, <1>3, PTL DEF Server!Spec
-----------------------------------------------------------------------------
(* What a client sends on a connection: n is the connection, p the bytes of *)
(* a text or package, k its number.                                         *)

Spot == Nat \X Nat \X Nat
Part(n, p, k) == [i \in 1..p |-> <<n, k, i>>]
Out(n, p, m) == FlattenSeq([k \in 1..m |-> Part(n, p, k)])

\* A part is p bytes, all of it, or the beginning and what follows.
LEMMA PartFacts ==
    ASSUME NEW n \in Nat, NEW p \in Nat, NEW k \in Nat
    PROVE  Part(n, p, k) \in Seq(Spot) /\ Len(Part(n, p, k)) = p
<1>1. \A i \in 1..p : <<n, k, i>> \in Spot
  BY DEF Spot
<1> HIDE DEF Spot
<1> QED BY <1>1 DEF Part

\* The beginning of a sequence, and what follows as far as r.
LEMMA CutJoins ==
    ASSUME NEW T, NEW x \in Seq(T), NEW q \in Nat, NEW r \in Nat, q <= r, r <= Len(x)
    PROVE  /\ SubSeq(x, 1, q) \o SubSeq(x, q + 1, r) = SubSeq(x, 1, r)
           /\ SubSeq(x, 1, q) \in Seq(T) /\ SubSeq(x, q + 1, r) \in Seq(T)
           /\ SubSeq(x, 1, 0) = <<>> /\ SubSeq(x, 1, Len(x)) = x
<1> DEFINE a == SubSeq(x, 1, q)
           b == SubSeq(x, q + 1, r)
           c == SubSeq(x, 1, r)
           d == a \o b
<1>1. \A i \in 1..Len(x) : x[i] \in T
  BY ElementOfSeq
<1>2. Len(x) \in Nat
  OBVIOUS
<1>3. a \in Seq(T) /\ Len(a) = q /\ \A i \in 1..q : a[i] = x[i]
  <2>1. 1 \in Int /\ q \in Int /\ q - 1 + 1 = q /\ \A i \in 1..q : x[i] \in T /\ 1 + i - 1 = i
    BY <1>1, <1>2
  <2>2. /\ a \in Seq(T) /\ Len(a) = IF 1 <= q THEN q - 1 + 1 ELSE 0
        /\ \A i \in 1..(q - 1 + 1) : a[i] = x[1 + i - 1]
    BY <2>1, SubSeqProperties
  <2> HIDE DEF a
  <2> QED BY <2>1, <2>2
<1>4. c \in Seq(T) /\ Len(c) = r /\ \A i \in 1..r : c[i] = x[i]
  <2>1. 1 \in Int /\ r \in Int /\ r - 1 + 1 = r /\ \A i \in 1..r : x[i] \in T /\ 1 + i - 1 = i
    BY <1>1, <1>2
  <2>2. /\ c \in Seq(T) /\ Len(c) = IF 1 <= r THEN r - 1 + 1 ELSE 0
        /\ \A i \in 1..(r - 1 + 1) : c[i] = x[1 + i - 1]
    BY <2>1, SubSeqProperties
  <2> HIDE DEF c
  <2> QED BY <2>1, <2>2
<1>5. b \in Seq(T) /\ Len(b) = r - q /\ \A i \in 1..(r - q) : b[i] = x[q + i]
  <2> DEFINE m == q + 1
  <2>1. /\ m \in Int /\ r \in Int /\ r - m + 1 = r - q /\ (m <= r \/ r - q = 0)
        /\ \A i \in m..r : x[i] \in T
    BY <1>1, <1>2
  <2>2. \A i \in 1..(r - q) : m + i - 1 = q + i
    OBVIOUS
  <2>3. b = SubSeq(x, m, r)
    OBVIOUS
  <2>4. ~(m <= r) => r - q = 0
    OBVIOUS
  <2> HIDE DEF b, m
  <2>5. /\ b \in Seq(T) /\ Len(b) = IF m <= r THEN r - m + 1 ELSE 0
        /\ \A i \in 1..(r - m + 1) : b[i] = x[m + i - 1]
    BY <2>1, <2>3, SubSeqProperties
  <2> QED BY <2>1, <2>2, <2>4, <2>5
<1> HIDE DEF a, b, c
<1>6. /\ d \in Seq(T) /\ Len(d) = Len(a) + Len(b)
      /\ \A i \in 1..(Len(a) + Len(b)) : d[i] = IF i <= Len(a) THEN a[i] ELSE b[i - Len(a)]
  BY <1>3, <1>5, ConcatProperties, ZenonT(40)
<1> HIDE DEF d
<1>7. Len(d) = r
  BY <1>3, <1>5, <1>6
<1>8. ASSUME NEW i \in 1..r PROVE d[i] = c[i]
  <2>1. CASE i <= q
    BY <2>1, <1>3, <1>4, <1>5, <1>6
  <2>2. CASE ~(i <= q)
    <3>1. i - q \in 1..(r - q) /\ q + (i - q) = i
      BY <2>2
    <3>2. d[i] = b[i - q]
      BY <2>2, <1>3, <1>5, <1>6
    <3> QED BY <3>1, <3>2, <1>4, <1>5
  <2> QED BY <2>1, <2>2
<1>9. d = c
  BY <1>4, <1>6, <1>7, <1>8, SeqEqual
<1>10. SubSeq(x, 1, 0) = <<>>
  <2>1. 1 \in Int /\ 0 \in Int /\ 0 < 1
    OBVIOUS
  <2> QED BY <2>1, SubSeqEmpty
<1>11. SubSeq(x, 1, Len(x)) = x
  OBVIOUS
<1> QED BY <1>3, <1>5, <1>9, <1>10, <1>11 DEF a, b, c, d

\* Joining three pieces of what is sent in either order is the same.
LEMMA JoinsAgain ==
    \A x, y, z \in Seq(Spot) : (x \o y) \o z = x \o (y \o z)
BY ConcatAssociative

\* One part more.
LEMMA OutGrows ==
    ASSUME NEW n \in Nat, NEW p \in Nat, NEW m \in Nat
    PROVE  /\ Out(n, p, m) \in Seq(Spot) /\ Out(n, p, 0) = <<>>
           /\ Out(n, p, m + 1) = Out(n, p, m) \o Part(n, p, m + 1)
<1> DEFINE S == Seq(Spot)
           s == [k \in 1..m |-> Part(n, p, k)]
           t == [k \in 1..(m + 1) |-> Part(n, p, k)]
           x == Part(n, p, m + 1)
<1>1. \A k \in Nat : Part(n, p, k) \in S
  BY PartFacts
<1> HIDE DEF S
<1>2. s \in Seq(S) /\ Len(s) = m /\ t \in Seq(S) /\ Len(t) = m + 1 /\ x \in S
  BY <1>1
<1>3. t = Append(s, x)
  <2> DEFINE u == Append(s, x)
  <2>1. \A k \in 1..m : s[k] = Part(n, p, k) /\ t[k] = Part(n, p, k)
    OBVIOUS
  <2>2. t[m + 1] = x
    OBVIOUS
  <2> HIDE DEF s, t, x
  <2>3. /\ u \in Seq(S) /\ Len(u) = Len(s) + 1 /\ u[Len(s) + 1] = x
        /\ \A k \in 1..Len(s) : u[k] = s[k]
    BY <1>2, AppendProperties
  <2> HIDE DEF u
  <2>4. ASSUME NEW k \in 1..(m + 1) PROVE u[k] = t[k]
    <3>1. k \in 1..m \/ k = m + 1
      OBVIOUS
    <3> QED BY <3>1, <1>2, <2>1, <2>2, <2>3
  <2>5. u = t
    BY <1>2, <2>3, <2>4, SeqEqual
  <2> QED BY <2>5 DEF u
<1>4. s \in Seq(Seq(Spot)) /\ x \in Seq(Spot)
  BY <1>2 DEF S
<1>5. FlattenSeq(s) \in Seq(Spot)
  BY <1>4, FlattenTypes
<1>6. FlattenSeq(t) = FlattenSeq(s) \o x
  <2> HIDE DEF s, t, x
  <2> QED BY <1>3, <1>4, FlattenAppend
<1>7. Out(n, p, 0) = <<>>
  <2>1. [k \in 1..0 |-> Part(n, p, k)] = <<>>
    OBVIOUS
  <2> QED BY <2>1, FlattenEmpty DEF Out
<1> QED BY <1>5, <1>6, <1>7 DEF Out

\* What is sent of a longer list begins with what is sent of a shorter one.
LEMMA OutExtends ==
    ASSUME NEW n \in Nat, NEW p \in Nat, NEW j \in Nat
    PROVE  \A m \in Nat : j <= m => \E t \in Seq(Spot) : Out(n, p, m) = Out(n, p, j) \o t
<1> DEFINE P(m) == \E t \in Seq(Spot) : Out(n, p, m) = Out(n, p, j) \o t
           N == {m \in Nat : j <= m => P(m)}
<1>0. Out(n, p, j) \in Seq(Spot)
  BY OutGrows
<1>1. P(j)
  <2>1. <<>> \in Seq(Spot) /\ Out(n, p, j) \o <<>> = Out(n, p, j)
    <3> HIDE DEF Spot
    <3> QED BY <1>0
  <2> QED BY <2>1
<1>2. 0 \in N
  <2>1. 0 = j \/ ~(j <= 0)
    OBVIOUS
  <2> HIDE DEF P
  <2> QED BY <2>1, <1>1
<1>3. ASSUME NEW m \in Nat, m \in N PROVE m + 1 \in N
  <2> SUFFICES ASSUME j <= m + 1 PROVE P(m + 1)
    OBVIOUS
  <2>1. CASE j = m + 1
    <3> HIDE DEF P
    <3> QED BY <2>1, <1>1
  <2>2. CASE j <= m
    <3>1. PICK t \in Seq(Spot) : Out(n, p, m) = Out(n, p, j) \o t
      BY <2>2, <1>3
    <3> DEFINE x == Part(n, p, m + 1)
               a == Out(n, p, j)
    <3>2. x \in Seq(Spot) /\ Out(n, p, m + 1) = Out(n, p, m) \o x
      <4>1. m + 1 \in Nat
        OBVIOUS
      <4> QED BY <4>1, PartFacts, OutGrows
    <3>3. a \in Seq(Spot) /\ Out(n, p, m) = a \o t
      BY <1>0, <3>1
    <3> HIDE DEF x, a
    <3>4. (a \o t) \o x = a \o (t \o x) /\ t \o x \in Seq(Spot)
      <4>1. t \o x \in Seq(Spot)
        BY <3>2, ConcatProperties
      <4>2. (a \o t) \o x = a \o (t \o x)
        BY <3>2, <3>3, JoinsAgain
      <4> QED BY <4>1, <4>2
    <3>5. Out(n, p, m + 1) = a \o (t \o x)
      BY <3>2, <3>3, <3>4
    <3> QED BY <3>4, <3>5 DEF a
  <2>3. j = m + 1 \/ j <= m
    OBVIOUS
  <2> QED BY <2>1, <2>2, <2>3
<1>4. Nat \subseteq N
  <2> HIDE DEF N
  <2> QED BY <1>2, <1>3, Induction
<1> QED BY <1>4

\* So whole parts, and the beginning of the next, are a prefix of it.
LEMMA OutPrefix ==
    ASSUME NEW n \in Nat, NEW p \in Nat, NEW j \in Nat, NEW m \in Nat, j <= m
    PROVE  /\ IsPrefix(Out(n, p, j), Out(n, p, m))
           /\ \A q \in 0..p : j < m =>
                  IsPrefix(Out(n, p, j) \o SubSeq(Part(n, p, j + 1), 1, q), Out(n, p, m))
<1> DEFINE a == Out(n, p, j)
           z == Out(n, p, m)
<1>1. a \in Seq(Spot) /\ z \in Seq(Spot)
  BY OutGrows
<1>2. PICK t \in Seq(Spot) : z = a \o t
  BY OutExtends, ZenonT(40)
<1>3. IsPrefix(a, z)
  <2> HIDE DEF a, z
  <2> QED BY <1>1, <1>2, JoinedPrefix
<1>4. ASSUME NEW q \in 0..p, j < m
      PROVE  IsPrefix(a \o SubSeq(Part(n, p, j + 1), 1, q), z)
  <2> DEFINE x == Part(n, p, j + 1)
             f == SubSeq(x, 1, q)
             l == SubSeq(x, q + 1, p)
  <2>1. j + 1 \in Nat /\ j + 1 <= m /\ q \in Nat /\ q <= p
    BY <1>4
  <2>2. x \in Seq(Spot) /\ Len(x) = p
    BY <2>1, PartFacts
  <2>3. Out(n, p, j + 1) = a \o x
    BY OutGrows
  <2>4. PICK u \in Seq(Spot) : z = Out(n, p, j + 1) \o u
    <3> DEFINE i == j + 1
    <3>1. i \in Nat /\ i <= m
      BY <2>1
    <3> HIDE DEF i
    <3>2. \A r \in Nat : i <= r => \E v \in Seq(Spot) : Out(n, p, r) = Out(n, p, i) \o v
      BY <3>1, OutExtends
    <3>3. \E u \in Seq(Spot) : Out(n, p, m) = Out(n, p, i) \o u
      BY <3>1, <3>2
    <3> QED BY <3>3 DEF i
  <2> HIDE DEF x, a, z
  <2>5. f \o l = SubSeq(x, 1, p) /\ f \in Seq(Spot) /\ l \in Seq(Spot) /\ SubSeq(x, 1, p) = x
    <3>1. p <= Len(x)
      BY <2>2
    <3> QED BY <2>1, <2>2, <3>1, CutJoins
  <2> HIDE DEF f, l
  <2>6. z = (a \o (f \o l)) \o u
    BY <2>3, <2>4, <2>5
  <2>7. (a \o (f \o l)) \o u = (a \o f) \o (l \o u) /\ a \o f \in Seq(Spot) /\ l \o u \in Seq(Spot)
    <3>1. a \o f \in Seq(Spot) /\ l \o u \in Seq(Spot)
      BY <1>1, <2>4, <2>5, ConcatProperties
    <3>0. f \in Seq(Spot) /\ l \in Seq(Spot) /\ u \in Seq(Spot)
      BY <2>4, <2>5
    <3>2. (a \o f) \o l = a \o (f \o l)
      BY <1>1, <3>0, JoinsAgain, ZenonT(40)
    <3>3. ((a \o f) \o l) \o u = (a \o f) \o (l \o u)
      <4> DEFINE v == a \o f
      <4>1. v \in Seq(Spot)
        BY <3>1
      <4> HIDE DEF v
      <4>2. (v \o l) \o u = v \o (l \o u)
        BY <3>0, <4>1, JoinsAgain
      <4> QED BY <4>2 DEF v
    <3> QED BY <3>1, <3>2, <3>3
  <2>8. IsPrefix(a \o f, (a \o f) \o (l \o u))
    <3> DEFINE v == a \o f
               w == l \o u
    <3>1. v \in Seq(Spot) /\ w \in Seq(Spot)
      BY <2>7
    <3> HIDE DEF v, w
    <3>2. IsPrefix(v, v \o w)
      BY <3>1, JoinedPrefix
    <3> QED BY <3>2 DEF v, w
  <2> QED BY <2>6, <2>7, <2>8 DEF f, x
<1> QED BY <1>3, <1>4

-----------------------------------------------------------------------------
(* PackageClient: the invariant.                                            *)

PckCount == Len(ServerPackages)
PckEnd(k) == Packer!EndOf(k)
PckDone(n) == Len(packerDelivered[n])
PckPart(n, k) == Part(n, Payload + HeaderSize, k)
PckOut(n, m) == Out(n, Payload + HeaderSize, m)
PckNone == [of |-> 0, package |-> 0, position |-> 0]
PckConns == 1..PackageConnects

PckTypes ==
    /\ packerSocket \in 0..PackageConnects /\ packerIsConnected \in BOOLEAN
    /\ packerQueue \in Seq(PckConns \X Nat)
    /\ sending \in [of : Nat, package : Nat, position : 0..(Payload + HeaderSize - 1)]
    /\ packerReceived \in Seq(Nat)
    /\ packerPc \in {"select", "locked", "read", "exited"}
    /\ packerFds \in SUBSET {"except", "read", "write"}
    /\ packerOwner \in {"none", "waits", "waited", "gone"}
    /\ packerUsed \in 0..PackageConnects
    /\ packerNet \in [PckConns -> {"none", "connecting", "refused", "up", "closed", "reset", "gone"}]
    /\ packerAccepted \in [PckConns -> Nat] /\ packerWire \in [PckConns -> Seq(Spot)]
    /\ served \in [PckConns -> 0..PckCount] /\ taken \in [PckConns -> Nat]
    /\ packerDelivered \in [PckConns -> Seq(Seq(Nat))]
    /\ packerOverrun \in [PckConns -> BOOLEAN]
    /\ status \in Seq({"Connected", "ConnectFailed", "Disconnected"})

\* The thread works on a socket, and the destructor after the thread. What a
\* connection leaves behind is cleared with its socket.
PckLife ==
    /\ packerSocket <= packerUsed
    /\ packerPc = "locked" => packerSocket # 0
    /\ packerOwner \in {"waited", "gone"} => packerPc = "exited"
    /\ packerOwner = "gone" /\ packerSocket # 0 => ~packerIsConnected
    /\ packerSocket = 0 => packerQueue = <<>> /\ sending = PckNone /\ packerReceived = <<>>

\* The last notification is the state of m_bIsConnected.
PckStatus == Packer!StatusAlternates

\* A connection that was not opened yet.
PckBlank(n) ==
    n > packerUsed =>
        /\ packerNet[n] = "none" /\ packerAccepted[n] = 0 /\ packerWire[n] = <<>>
        /\ served[n] = 0 /\ taken[n] = 0 /\ packerDelivered[n] = <<>> /\ ~packerOverrun[n]

\* The packages of the queue are the last that were queued; the one before them
\* is sent in part, when there is one, and the ones before that as a whole.
PckTaken(n) == packerAccepted[n] - Len(packerQueue)
PckSends(n) ==
    /\ Len(packerQueue) <= packerAccepted[n]
    /\ \A i \in 1..Len(packerQueue) : packerQueue[i] = <<n, PckTaken(n) + i>>
    /\ \/ sending = PckNone /\ packerWire[n] = PckOut(n, PckTaken(n))
       \/ /\ PckTaken(n) # 0 /\ sending.of = n /\ sending.package = PckTaken(n)
          /\ packerWire[n] = PckOut(n, PckTaken(n) - 1)
                                 \o SubSeq(PckPart(n, PckTaken(n)), 1, sending.position)

\* What was received behind the last package that was notified.
PckReceives(n) ==
    ~packerOverrun[n] => /\ PckEnd(PckDone(n)) <= taken[n]
                         /\ packerReceived = Run(PckEnd(PckDone(n)), taken[n])

PckOne(n) ==
    /\ PckBlank(n)
    /\ IsPrefix(packerWire[n], PckOut(n, packerAccepted[n]))
    /\ taken[n] <= PckEnd(served[n])
    /\ ~packerOverrun[n] =>
        /\ PckDone(n) <= PckCount
        /\ \A k \in 1..PckDone(n) :
               packerDelivered[n][k] = Run(PckEnd(k - 1) + HeaderSize, PckEnd(k))
    /\ packerSocket = n => PckSends(n) /\ PckReceives(n)

PckInv == PckTypes /\ PckLife /\ PckStatus /\ \A n \in PckConns : PckOne(n)

\* The ends of the packages of the server begin with 0 and rise by a size each.
LEMMA PckEnds ==
    /\ PckCount \in Nat /\ PckEnd(0) = 0 /\ HeaderSize \in Nat \ {0} /\ Payload \in Nat
    /\ \A k \in 0..PckCount : PckEnd(k) \in Nat
    /\ \A k \in 1..PckCount :
         /\ ServerPackages[k].payload \in Nat
         /\ PckEnd(k) = PckEnd(k - 1) + (ServerPackages[k].payload + HeaderSize)
    /\ \A j, k \in 0..PckCount : j < k => PckEnd(j) < PckEnd(k)
<1> DEFINE n == PckCount
           s == [k \in 1..n |-> ServerPackages[k].payload + HeaderSize]
           e == CHOOSE e : e = [j \in 0..n |->
                    IF j = 0 THEN 0 ELSE e[j - 1] + ServerPackages[j].payload + HeaderSize]
<1>1. /\ ServerPackages \in Seq([payload : Nat, title : BOOLEAN]) /\ HeaderSize \in Nat \ {0}
      /\ Payload \in Nat
  BY ProtocolsAssumption
<1>2. n \in Nat
  BY <1>1 DEF PckCount
<1>3. \A k \in 1..n : ServerPackages[k].payload \in Nat
  <2> DEFINE R == [payload : Nat, title : BOOLEAN]
  <2>1. ServerPackages \in Seq(R) /\ n = Len(ServerPackages)
    BY <1>1 DEF PckCount
  <2> HIDE DEF R, n
  <2>2. \A k \in 1..Len(ServerPackages) : ServerPackages[k] \in R
    BY <2>1, ElementOfSeq
  <2> QED BY <2>1, <2>2 DEF R
<1>4. \A k \in 1..n : s[k] = ServerPackages[k].payload + HeaderSize /\ s[k] \in Nat \ {0}
  BY <1>1, <1>3
<1>5. \A k : PckEnd(k) = e[k]
  BY DEF PckEnd, Packer!EndOf, PckCount
<1> HIDE DEF s, n
<1>6. \E f : f = [j \in 0..n |->
                    IF j = 0 THEN 0 ELSE f[j - 1] + ServerPackages[j].payload + HeaderSize]
  <2>1. PICK f \in [0..n -> Nat] : Totals(f, s, n)
    BY <1>2, <1>4, TotalsExist
  <2>2. f = [j \in 0..n |-> IF j = 0 THEN 0 ELSE f[j - 1] + s[j]]
    BY <2>1 DEF Totals
  <2>3. \A j \in 0..n : f[j] = IF j = 0 THEN 0
                               ELSE f[j - 1] + ServerPackages[j].payload + HeaderSize
    <3> SUFFICES ASSUME NEW j \in 0..n
                 PROVE f[j] = IF j = 0 THEN 0 ELSE f[j - 1] + ServerPackages[j].payload + HeaderSize
      OBVIOUS
    <3>1. j = 0 \/ (j \in 1..n /\ j - 1 \in 0..n /\ j # 0)
      BY <1>2
    <3>2. f[j] = IF j = 0 THEN 0 ELSE f[j - 1] + s[j]
      BY <2>2
    <3>3. CASE j = 0
      BY <3>2, <3>3
    <3>4. CASE j \in 1..n /\ j - 1 \in 0..n /\ j # 0
      <4>1. f[j] = f[j - 1] + s[j] /\ f[j - 1] \in Nat
        BY <3>2, <3>4
      <4>2. s[j] = ServerPackages[j].payload + HeaderSize /\ ServerPackages[j].payload \in Nat
        BY <1>3, <1>4, <3>4
      <4> QED BY <4>1, <4>2, <1>1, <3>4
    <3> QED BY <3>1, <3>3, <3>4
  <2>4. f = [j \in 0..n |-> f[j]]
    OBVIOUS
  <2> QED BY <2>3, <2>4
<1>7. e = [j \in 0..n |-> IF j = 0 THEN 0 ELSE e[j - 1] + ServerPackages[j].payload + HeaderSize]
  BY <1>6
<1> HIDE DEF e
<1>8. \A j \in 0..n : e[j] = IF j = 0 THEN 0
                             ELSE (e[j - 1] + ServerPackages[j].payload) + HeaderSize
  BY <1>7
<1>9. e[0] = 0
  BY <1>2, <1>8
<1>10. \A k \in 0..n : e[k] \in Nat
  <2> DEFINE N == {k \in Nat : k <= n => e[k] \in Nat}
  <2>1. 0 \in N
    BY <1>9
  <2>2. ASSUME NEW k \in Nat, k \in N PROVE k + 1 \in N
    <3> SUFFICES ASSUME k + 1 <= n PROVE e[k + 1] \in Nat
      OBVIOUS
    <3>1. k + 1 \in 0..n /\ k + 1 \in 1..n /\ k + 1 # 0 /\ (k + 1) - 1 = k /\ k <= n
      BY <1>2
    <3>2. e[k] \in Nat /\ ServerPackages[k + 1].payload \in Nat
      BY <2>2, <3>1, <1>3
    <3>3. e[k + 1] = (e[k] + ServerPackages[k + 1].payload) + HeaderSize
      BY <3>1, <1>8
    <3> QED BY <3>2, <3>3, <1>1
  <2>3. Nat \subseteq N
    <3> HIDE DEF N
    <3> QED BY <2>1, <2>2, Induction
  <2> QED BY <2>3, <1>2
<1>11. \A k \in 1..n : e[k] = e[k - 1] + (ServerPackages[k].payload + HeaderSize) /\ e[k - 1] < e[k]
  <2> SUFFICES ASSUME NEW k \in 1..n
               PROVE  e[k] = e[k - 1] + (ServerPackages[k].payload + HeaderSize) /\ e[k - 1] < e[k]
    OBVIOUS
  <2>1. k \in 0..n /\ k # 0 /\ k - 1 \in 0..n
    BY <1>2
  <2>2. e[k - 1] \in Nat /\ ServerPackages[k].payload \in Nat
    BY <2>1, <1>3, <1>10
  <2>3. e[k] = (e[k - 1] + ServerPackages[k].payload) + HeaderSize
    BY <2>1, <1>8
  <2> QED BY <2>2, <2>3, <1>1
<1>12. \A j, k \in 0..n : j < k => e[j] < e[k]
  <2>1. e = [j \in 0..n |-> e[j]]
    BY <1>7
  <2>2. e \in [0..n -> Nat] /\ \A k \in 1..n : e[k - 1] < e[k]
    BY <2>1, <1>10, <1>11
  <2> QED BY <2>2, <1>2, TotalsRise
<1>13. PckEnd(0) = 0 /\ \A k \in 0..n : PckEnd(k) \in Nat
  BY <1>5, <1>9, <1>10
<1>14. \A k \in 1..n : PckEnd(k) = PckEnd(k - 1) + (ServerPackages[k].payload + HeaderSize)
  BY <1>5, <1>11
<1>15. \A j, k \in 0..n : j < k => PckEnd(j) < PckEnd(k)
  BY <1>5, <1>12
<1> QED BY <1>1, <1>2, <1>3, <1>13, <1>14, <1>15 DEF n

\* The package that begins behind the d-th is the next one.
LEMMA PckFrom ==
    ASSUME NEW d \in Nat, d < PckCount
    PROVE  Packer!PackageFrom(PckEnd(d) + 1) = d + 1
<1>1. PckCount \in Nat /\ DOMAIN ServerPackages = 1..PckCount
  BY ProtocolsAssumption DEF PckCount
<1>2. \A k \in 0..PckCount : PckEnd(k) \in Nat
  BY PckEnds
<1>3. d + 1 \in 1..PckCount /\ (d + 1) - 1 = d
  BY <1>1
<1>4. ASSUME NEW k \in 1..PckCount, PckEnd(k - 1) + 1 = PckEnd(d) + 1 PROVE k = d + 1
  <2>1. k - 1 \in 0..PckCount /\ d \in 0..PckCount
    BY <1>1
  <2>2. PckEnd(k - 1) = PckEnd(d)
    BY <2>1, <1>2, <1>4
  <2>3. ~(k - 1 < d) /\ ~(d < k - 1)
    <3>1. k - 1 < d => PckEnd(k - 1) < PckEnd(d)
      BY <2>1, PckEnds
    <3>2. d < k - 1 => PckEnd(d) < PckEnd(k - 1)
      BY <2>1, PckEnds
    <3>3. PckEnd(d) \in Nat
      BY <2>1, <1>2
    <3> QED BY <3>1, <3>2, <3>3, <2>2
  <2> QED BY <2>1, <2>3, <1>1
<1>5. PckEnd((d + 1) - 1) + 1 = PckEnd(d) + 1
  BY <1>3
<1> HIDE DEF PckEnd
<1>6. Packer!PackageFrom(PckEnd(d) + 1)
          = CHOOSE k \in 1..PckCount : PckEnd(k - 1) + 1 = PckEnd(d) + 1
  BY <1>1 DEF Packer!PackageFrom, PckEnd
<1> QED BY <1>3, <1>4, <1>5, <1>6

\* Nothing was opened.
LEMMA PckInit == Packer!Init => PckInv
<1> SUFFICES ASSUME Packer!Init PROVE PckInv
  OBVIOUS
<1> USE DEF Packer!Init, Packer!NoSocket, Packer!NoReader, Packer!Conns
<1>0. /\ PckCount \in Nat /\ PckEnd(0) = 0 /\ HeaderSize \in Nat \ {0} /\ Payload \in Nat
      /\ PackageConnects \in Nat
  BY PckEnds, ProtocolsAssumption
<1>1. /\ packerAccepted = [n \in PckConns |-> 0] /\ taken = [n \in PckConns |-> 0]
      /\ served = [n \in PckConns |-> 0] /\ packerWire = [n \in PckConns |-> <<>>]
      /\ packerDelivered = [n \in PckConns |-> <<>>]
      /\ packerOverrun = [n \in PckConns |-> FALSE] /\ packerNet = [n \in PckConns |-> "none"]
  BY DEF PckConns
<1>2. PckTypes
  <2>1. sending \in [of : Nat, package : Nat, position : 0..(Payload + HeaderSize - 1)]
    BY <1>0
  <2>2. 0 \in 0..PckCount /\ 0 \in 0..PackageConnects
    BY <1>0
  <2>3. packerWire \in [PckConns -> Seq(Spot)] /\ packerDelivered \in [PckConns -> Seq(Seq(Nat))]
    <3> HIDE DEF Spot
    <3> QED BY <1>1
  <2>4. packerFds \in SUBSET {"except", "read", "write"}
    BY DEF Packer!Init
  <2>5. /\ packerQueue \in Seq(PckConns \X Nat) /\ packerReceived \in Seq(Nat)
        /\ status \in Seq({"Connected", "ConnectFailed", "Disconnected"})
    OBVIOUS
  <2>6. /\ packerAccepted \in [PckConns -> Nat] /\ taken \in [PckConns -> Nat]
        /\ served \in [PckConns -> 0..PckCount] /\ packerOverrun \in [PckConns -> BOOLEAN]
        /\ packerNet \in [PckConns -> {"none", "connecting", "refused", "up", "closed", "reset",
                                       "gone"}]
    <3> HIDE DEF Packer!Init
    <3> QED BY <1>1, <2>2
  <2>7. /\ packerSocket \in 0..PackageConnects /\ packerIsConnected \in BOOLEAN
        /\ packerPc \in {"select", "locked", "read", "exited"}
        /\ packerOwner \in {"none", "waits", "waited", "gone"} /\ packerUsed \in 0..PackageConnects
    BY <2>2
  <2> HIDE DEF Packer!Init
  <2> QED BY <2>1, <2>3, <2>4, <2>5, <2>6, <2>7 DEF PckTypes
<1>3. PckLife
  BY DEF PckLife, PckNone
<1>4. PckStatus
  BY DEF PckStatus, Packer!StatusAlternates
<1>5. ASSUME NEW n \in PckConns PROVE PckOne(n)
  <2>1. PckDone(n) = 0 /\ packerSocket # n /\ n \in Nat
    BY <1>0, <1>1 DEF PckDone, PckConns
  <2>2. PckOut(n, 0) = <<>>
    BY <1>0, <2>1, OutGrows DEF PckOut
  <2>3. IsPrefix(<<>>, <<>>)
    BY DEF IsPrefix
  <2>4. PckBlank(n)
    BY <1>1 DEF PckBlank
  <2>5. taken[n] <= PckEnd(served[n])
    BY <1>0, <1>1
  <2>6. IsPrefix(packerWire[n], PckOut(n, packerAccepted[n]))
    BY <1>1, <2>2, <2>3
  <2> QED BY <1>0, <2>1, <2>4, <2>5, <2>6 DEF PckOne
<1> QED BY <1>2, <1>3, <1>4, <1>5 DEF PckInv

\* One notification more.
LEMMA PckTells ==
    ASSUME NEW s \in Seq({"Connected", "ConnectFailed", "Disconnected"}),
           NEW x \in {"Connected", "ConnectFailed", "Disconnected"},
           x = "Disconnected" <=> s # <<>> /\ s[Len(s)] = "Connected",
           \A i \in DOMAIN s : s[i] = "Disconnected" <=> (i > 1 /\ s[i - 1] = "Connected")
    PROVE  /\ Append(s, x) # <<>> /\ Append(s, x)[Len(Append(s, x))] = x
           /\ Append(s, x) \in Seq({"Connected", "ConnectFailed", "Disconnected"})
           /\ \A i \in DOMAIN Append(s, x) : Append(s, x)[i] = "Disconnected"
                  <=> (i > 1 /\ Append(s, x)[i - 1] = "Connected")
<1> DEFINE t == Append(s, x)
           n == Len(s)
<1>1. /\ t \in Seq({"Connected", "ConnectFailed", "Disconnected"}) /\ Len(t) = n + 1 /\ t[n + 1] = x
      /\ \A i \in 1..n : t[i] = s[i]
  BY AppendProperties
<1>2. n \in Nat /\ DOMAIN s = 1..n /\ DOMAIN t = 1..(n + 1) /\ (s # <<>> <=> n > 0)
  BY <1>1
<1> HIDE DEF t, n
<1>3. ASSUME NEW i \in 1..(n + 1)
      PROVE  t[i] = "Disconnected" <=> (i > 1 /\ t[i - 1] = "Connected")
  <2>1. CASE i \in 1..n
    <3>1. i > 1 => i - 1 \in 1..n
      BY <2>1, <1>2
    <3> QED BY <2>1, <3>1, <1>1, <1>2
  <2>2. CASE i = n + 1
    <3>1. (i > 1 <=> n > 0) /\ i - 1 = n /\ (n > 0 => n \in 1..n)
      BY <2>2, <1>2
    <3>2. t[i] = "Disconnected" <=> n > 0 /\ s[n] = "Connected"
      BY <2>2, <1>1, <1>2 DEF n
    <3> QED BY <3>1, <3>2, <1>1
  <2> QED BY <2>1, <2>2, <1>2
<1>4. t # <<>> /\ t[Len(t)] = x
  BY <1>1, <1>2
<1> QED BY <1>1, <1>2, <1>3, <1>4 DEF t

\* How the notifications go on: not at all, or with one that fits.
PckQuietTold == UNCHANGED <<packerIsConnected, status>>
PckConnected == packerIsConnected'
    /\ status' = IF packerIsConnected THEN status ELSE Append(status, "Connected")
PckDropped == ~packerIsConnected'
    /\ status' = Append(status, IF packerIsConnected THEN "Disconnected" ELSE "ConnectFailed")
PckSendFailed == ~packerIsConnected'
    /\ status' = status \o (IF packerIsConnected THEN <<>> ELSE <<"Connected">>)
                        \o <<"Disconnected">>

\* They keep alternating.
LEMMA PckStatusKeeps ==
    ASSUME PckStatus, packerIsConnected \in BOOLEAN,
           status \in Seq({"Connected", "ConnectFailed", "Disconnected"}),
           PckQuietTold \/ PckConnected \/ PckDropped \/ PckSendFailed,
           packerIsConnected' \in BOOLEAN
    PROVE  PckStatus' /\ status' \in Seq({"Connected", "ConnectFailed", "Disconnected"})
<1> DEFINE W == {"Connected", "ConnectFailed", "Disconnected"}
           Good(s, b) == /\ s \in Seq(W) /\ (b <=> s # <<>> /\ s[Len(s)] = "Connected")
                         /\ \A i \in DOMAIN s : s[i] = "Disconnected"
                                <=> (i > 1 /\ s[i - 1] = "Connected")
<1>1. Good(status, packerIsConnected)
  BY DEF PckStatus, Packer!StatusAlternates, Packer!Last
<1>2. Good(status', packerIsConnected') => PckStatus' /\ status' \in Seq(W)
  BY DEF PckStatus, Packer!StatusAlternates, Packer!Last
<1>3. ASSUME NEW s, NEW b \in BOOLEAN, Good(s, b), NEW x \in W, x = "Disconnected" <=> b
      PROVE  Good(Append(s, x), x = "Connected")
  BY <1>3, PckTells
<1>4. CASE PckQuietTold
  BY <1>1, <1>2, <1>4 DEF PckQuietTold
<1>5. CASE PckConnected
  <2>1. CASE packerIsConnected
    BY <1>1, <1>2, <1>5, <2>1 DEF PckConnected
  <2>2. CASE ~packerIsConnected
    <3>1. Good(Append(status, "Connected"), "Connected" = "Connected")
      <4> HIDE DEF Good
      <4> QED BY <1>1, <1>3, <2>2
    <3>2. packerIsConnected' = TRUE /\ status' = Append(status, "Connected")
      BY <1>5, <2>2 DEF PckConnected
    <3> QED BY <1>2, <3>1, <3>2
  <2> QED BY <2>1, <2>2
<1>6. CASE PckDropped
  <2> DEFINE x == IF packerIsConnected THEN "Disconnected" ELSE "ConnectFailed"
  <2>1. x \in W /\ (x = "Disconnected" <=> packerIsConnected) /\ x # "Connected"
    OBVIOUS
  <2> HIDE DEF x
  <2>2. Good(Append(status, x), x = "Connected")
    <3> HIDE DEF Good, W
    <3> QED BY <1>1, <1>3, <2>1
  <2>3. packerIsConnected' = FALSE /\ status' = Append(status, x)
    BY <1>6 DEF PckDropped, x
  <2> QED BY <1>2, <2>1, <2>2, <2>3
<1>7. CASE PckSendFailed
  <2> DEFINE s == IF packerIsConnected THEN status ELSE Append(status, "Connected")
  <2>1. Good(s, TRUE)
    <3>1. CASE packerIsConnected
      BY <1>1, <3>1
    <3>2. CASE ~packerIsConnected
      <4>1. Good(Append(status, "Connected"), "Connected" = "Connected")
        <5> HIDE DEF Good
        <5> QED BY <1>1, <1>3, <3>2
      <4> QED BY <3>2, <4>1
    <3> QED BY <3>1, <3>2
  <2>2. Good(Append(s, "Disconnected"), "Disconnected" = "Connected")
    <3> HIDE DEF Good, s
    <3> QED BY <1>3, <2>1
  <2>3. status' = Append(s, "Disconnected")
    <3>1. status \in Seq(W) /\ "Connected" \in W /\ "Disconnected" \in W
      BY <1>1
    <3> HIDE DEF W
    <3>2. CASE packerIsConnected
      <4>1. status \o <<>> = status /\ status' = status \o <<>> \o <<"Disconnected">>
        BY <1>7, <3>1, <3>2 DEF PckSendFailed
      <4>2. Append(status, "Disconnected") = status \o <<"Disconnected">>
        BY <3>1, AppendIsConcat
      <4> QED BY <3>2, <4>1, <4>2
    <3>3. CASE ~packerIsConnected
      <4>1. status' = (status \o <<"Connected">>) \o <<"Disconnected">>
        BY <1>7, <3>3 DEF PckSendFailed
      <4>2. Append(status, "Connected") = status \o <<"Connected">> /\ Append(status, "Connected") \in Seq(W)
        BY <3>1, AppendIsConcat, AppendProperties
      <4> DEFINE u == Append(status, "Connected")
      <4>3. u \in Seq(W)
        BY <4>2
      <4> HIDE DEF u
      <4>4. Append(u, "Disconnected") = u \o <<"Disconnected">>
        BY <3>1, <4>3, AppendIsConcat
      <4> QED BY <3>3, <4>1, <4>2, <4>4 DEF u
    <3> QED BY <3>2, <3>3
  <2> HIDE DEF s
  <2> QED BY <1>2, <1>7, <2>2, <2>3 DEF PckSendFailed
<1> QED BY <1>4, <1>5, <1>6, <1>7

\* What is on the way on a connection that a step leaves alone.
PckTraffic(n) ==
    /\ packerAccepted'[n] = packerAccepted[n] /\ packerWire'[n] = packerWire[n]
    /\ served'[n] = served[n] /\ taken'[n] = taken[n]
    /\ packerDelivered'[n] = packerDelivered[n] /\ packerOverrun'[n] = packerOverrun[n]

\* The buffers of the connection are the same again.
LEMMA PckBuffersStay ==
    ASSUME NEW n, PckTraffic(n)
    PROVE  /\ PckSends(n) /\ UNCHANGED <<packerQueue, sending>> => PckSends(n)'
           /\ PckReceives(n) /\ UNCHANGED packerReceived => PckReceives(n)'
<1>1. ASSUME PckSends(n), UNCHANGED <<packerQueue, sending>> PROVE PckSends(n)'
  BY <1>1 DEF PckTraffic, PckSends, PckTaken
<1>2. ASSUME PckReceives(n), UNCHANGED packerReceived PROVE PckReceives(n)'
  <2>1. PckDone(n)' = PckDone(n)
    BY DEF PckTraffic, PckDone
  <2> QED BY <1>2, <2>1 DEF PckTraffic, PckReceives
<1> QED BY <1>1, <1>2

\* And so is all that is known of it.
LEMMA PckOneStays ==
    ASSUME NEW n \in PckConns, PckOne(n), PckTraffic(n),
           n > packerUsed' => n > packerUsed /\ packerNet'[n] = packerNet[n],
           packerSocket' = n => PckSends(n)' /\ PckReceives(n)'
    PROVE  PckOne(n)'
<1>1. PckDone(n)' = PckDone(n)
  BY DEF PckTraffic, PckDone
<1>2. PckBlank(n)'
  BY DEF PckOne, PckBlank, PckTraffic
<1>3. IsPrefix(packerWire'[n], PckOut(n, packerAccepted'[n])) /\ taken'[n] <= PckEnd(served'[n])
  BY DEF PckOne, PckTraffic
<1>4. ~packerOverrun'[n] =>
        /\ PckDone(n)' <= PckCount
        /\ \A k \in 1..PckDone(n)' :
               packerDelivered'[n][k] = Run(PckEnd(k - 1) + HeaderSize, PckEnd(k))
  BY <1>1 DEF PckOne, PckTraffic
<1> QED BY <1>2, <1>3, <1>4 DEF PckOne

\* The steps that concern neither bytes nor notifications.
PckQuietStep ==
    \/ Packer!Select \/ Packer!SeeShutdown \/ Packer!NotWritable \/ Packer!ReceiveNothing
    \/ Packer!RaiseShutdown \/ Packer!EndThread \/ (\E n \in PckConns : Packer!Network(n))
    \/ (Packer!CloseAtEnd /\ ~packerIsConnected) \/ UNCHANGED Packer!vars

\* They keep the invariant.
LEMMA PckQuietKeeps == ASSUME PckInv, PckQuietStep PROVE PckInv'
<1>1. PckTypes /\ PckLife /\ PckStatus /\ \A n \in PckConns : PckOne(n)
  BY DEF PckInv
<1> USE DEF Packer!link, Packer!buffers, Packer!traffic, Packer!vars, Packer!Goto, Packer!NoSocket
<1>2. UNCHANGED <<packerSocket, packerIsConnected, status, packerQueue, sending, packerReceived,
                  packerUsed, packerAccepted, packerWire, served, taken, packerDelivered,
                  packerOverrun>>
  BY DEF PckQuietStep, Packer!Select, Packer!SeeShutdown, Packer!NotWritable, Packer!ReceiveNothing,
         Packer!RaiseShutdown, Packer!EndThread, Packer!Network, Packer!CloseAtEnd
<1> DEFINE Nets == {"none", "connecting", "refused", "up", "closed", "reset", "gone"}
<1>3. /\ packerPc' \in {"select", "locked", "read", "exited"}
      /\ packerFds' \in SUBSET {"except", "read", "write"}
      /\ packerOwner' \in {"none", "waits", "waited", "gone"}
      /\ packerNet' \in [PckConns -> Nets]
      /\ \A n \in PckConns : packerNet[n] = "none" => packerNet'[n] = "none"
      /\ (packerPc' = "locked" => packerSocket # 0)
      /\ (packerOwner' \in {"waited", "gone"} => packerPc' = "exited")
      /\ (packerOwner' = "gone" => packerOwner = "gone" \/ ~packerIsConnected)
  <2>0. /\ packerPc \in {"select", "locked", "read", "exited"}
        /\ packerFds \in SUBSET {"except", "read", "write"}
        /\ packerOwner \in {"none", "waits", "waited", "gone"}
        /\ packerNet \in [PckConns -> Nets]
        /\ (packerPc = "locked" => packerSocket # 0)
        /\ (packerOwner \in {"waited", "gone"} => packerPc = "exited")
    BY <1>1 DEF PckTypes, PckLife
  <2>1. CASE Packer!Select
    <3>1. packerFds' \in SUBSET {"except", "read", "write"}
      BY <2>1 DEF Packer!Select, Packer!Ready
    <3> QED BY <2>0, <2>1, <3>1 DEF Packer!Select
  <2>2. CASE Packer!SeeShutdown
    BY <2>0, <2>2 DEF Packer!SeeShutdown
  <2>3. CASE Packer!NotWritable
    BY <2>0, <2>3 DEF Packer!NotWritable
  <2>4. CASE Packer!ReceiveNothing
    BY <2>0, <2>4 DEF Packer!ReceiveNothing
  <2>5. CASE Packer!RaiseShutdown
    BY <2>0, <2>5 DEF Packer!RaiseShutdown
  <2>6. CASE Packer!EndThread
    BY <2>0, <2>6 DEF Packer!EndThread
  <2>7. CASE \E n \in PckConns : Packer!Network(n)
    <3>1. PICK n \in PckConns : Packer!Network(n)
      BY <2>7
    <3>2. /\ packerNet[n] # "none"
          /\ \E x \in {"up", "refused", "closed", "reset"} : packerNet' = [packerNet EXCEPT ![n] = x]
      <4>1. PICK move \in {<<"connecting", "up">>, <<"connecting", "refused">>, <<"up", "closed">>,
                           <<"up", "reset">>} :
                  packerNet[n] = move[1] /\ packerNet' = [packerNet EXCEPT ![n] = move[2]]
        BY <3>1 DEF Packer!Network
      <4>2. move[1] # "none" /\ move[2] \in {"up", "refused", "closed", "reset"}
        OBVIOUS
      <4> QED BY <4>1, <4>2
    <3>3. UNCHANGED <<packerPc, packerFds, packerOwner>>
      BY <3>1 DEF Packer!Network
    <3>4. /\ packerNet' \in [PckConns -> Nets]
          /\ \A m \in PckConns : packerNet[m] = "none" => packerNet'[m] = "none"
      BY <2>0, <3>2
    <3> QED BY <2>0, <3>3, <3>4
  <2>8. CASE UNCHANGED Packer!vars
    BY <2>0, <2>8
  <2>9. CASE Packer!CloseAtEnd /\ ~packerIsConnected
    BY <2>0, <2>9 DEF Packer!CloseAtEnd
  <2> QED BY <2>1, <2>2, <2>3, <2>4, <2>5, <2>6, <2>7, <2>8, <2>9 DEF PckQuietStep
<1>4. PckTypes'
  BY <1>1, <1>2, <1>3 DEF PckTypes
<1>5. PckLife'
  BY <1>1, <1>2, <1>3 DEF PckLife
<1>6. PckStatus'
  BY <1>1, <1>2 DEF PckStatus, Packer!StatusAlternates
<1>7. ASSUME NEW n \in PckConns PROVE PckOne(n)'
  <2>1. PckTraffic(n) /\ PckOne(n)
    BY <1>1, <1>2 DEF PckTraffic
  <2>2. packerSocket' = n => PckSends(n)' /\ PckReceives(n)'
    BY <1>2, <2>1, PckBuffersStay DEF PckOne
  <2>3. n > packerUsed' => n > packerUsed /\ packerNet'[n] = packerNet[n]
    BY <1>2, <1>3, <2>1 DEF PckOne, PckBlank
  <2> QED BY <2>1, <2>2, <2>3, PckOneStays
<1> QED BY <1>4, <1>5, <1>6, <1>7 DEF PckInv

\* A new connection begins with nothing.
LEMMA PckConnects == ASSUME PckInv, Packer!Connect PROVE PckInv'
<1> DEFINE c == packerUsed + 1
<1>1. PckTypes /\ PckLife /\ PckStatus /\ \A n \in PckConns : PckOne(n)
  BY DEF PckInv
<1>2. /\ packerSocket = 0 /\ packerUsed < PackageConnects /\ packerUsed' = c /\ packerSocket' = c
      /\ packerNet' = [packerNet EXCEPT ![c] = "connecting"] /\ packerOwner = "none"
      /\ UNCHANGED <<packerIsConnected, status, packerQueue, sending, packerReceived, packerPc,
                     packerFds, packerOwner, packerAccepted, packerWire, served, taken,
                     packerDelivered, packerOverrun>>
  BY DEF Packer!Connect, Packer!GetSockets, Packer!AsyncConnect, Packer!NoSocket, Packer!buffers,
         Packer!traffic
<1>3. PackageConnects \in Nat /\ packerUsed \in Nat /\ c \in PckConns /\ c \in Nat /\ c # 0
      /\ c \in 0..PackageConnects /\ c > packerUsed
  BY <1>1, <1>2, ProtocolsAssumption DEF PckTypes, PckConns
<1>4. PckTypes'
  BY <1>1, <1>2, <1>3 DEF PckTypes
<1>5. PckLife'
  BY <1>1, <1>2, <1>3 DEF PckLife
<1>6. PckStatus'
  BY <1>1, <1>2 DEF PckStatus, Packer!StatusAlternates
<1>7. ASSUME NEW n \in PckConns PROVE PckOne(n)'
  <2>1. PckTraffic(n) /\ PckOne(n) /\ n \in Nat
    BY <1>1, <1>2 DEF PckTraffic, PckConns
  <2>2. packerSocket' = n => PckSends(n)' /\ PckReceives(n)'
    <3> SUFFICES ASSUME n = c PROVE PckSends(n)' /\ PckReceives(n)'
      BY <1>2
    <3>1. packerAccepted[n] = 0 /\ packerWire[n] = <<>> /\ taken[n] = 0 /\ packerDelivered[n] = <<>>
      BY <1>3, <2>1 DEF PckOne, PckBlank
    <3>2. packerQueue = <<>> /\ sending = PckNone /\ packerReceived = <<>>
      BY <1>1, <1>2 DEF PckLife
    <3>3. PckTaken(n)' = 0 /\ PckDone(n)' = 0
      <4>1. packerAccepted'[n] = 0 /\ packerQueue' = <<>> /\ packerDelivered'[n] = <<>>
        BY <1>2, <3>1, <3>2
      <4>2. Len(<<>>) = 0 /\ 0 - 0 = 0
        OBVIOUS
      <4>3. PckTaken(n)' = 0 - Len(<<>>)
        BY <4>1 DEF PckTaken
      <4>4. PckDone(n)' = Len(<<>>)
        BY <4>1 DEF PckDone
      <4> QED BY <4>2, <4>3, <4>4
    <3>4. PckOut(n, 0) = <<>> /\ PckEnd(0) = 0 /\ Run(0, 0) = <<>>
      <4>1. Payload + HeaderSize \in Nat
        BY ProtocolsAssumption
      <4>2. PckOut(n, 0) = <<>>
        BY <2>1, <4>1, OutGrows DEF PckOut
      <4>3. Run(0, 0) = <<>>
        BY RunFacts
      <4>4. PckEnd(0) = 0
        BY PckEnds
      <4> QED BY <4>2, <4>3, <4>4
    <3>5. PckSends(n)'
      BY <1>2, <3>1, <3>2, <3>3, <3>4 DEF PckSends
    <3>6. PckReceives(n)'
      BY <1>2, <3>1, <3>2, <3>3, <3>4 DEF PckReceives
    <3> QED BY <3>5, <3>6
  <2>3. n > packerUsed' => n > packerUsed /\ packerNet'[n] = packerNet[n]
    BY <1>1, <1>2, <1>3, <2>1 DEF PckTypes
  <2> QED BY <2>1, <2>2, <2>3, PckOneStays
<1> QED BY <1>4, <1>5, <1>6, <1>7 DEF PckInv

\* What was sent of a list of packages is a prefix of it.
LEMMA PckPrefix ==
    ASSUME NEW n \in Nat, NEW a \in Nat, NEW l \in Nat, l <= a, NEW w, NEW s,
           \/ s = PckNone /\ w = PckOut(n, a - l)
           \/ /\ a - l # 0 /\ s.position \in 0..(Payload + HeaderSize)
              /\ w = PckOut(n, (a - l) - 1) \o SubSeq(PckPart(n, a - l), 1, s.position)
    PROVE  IsPrefix(w, PckOut(n, a))
<1> DEFINE p == Payload + HeaderSize
           t == a - l
<1>1. p \in Nat /\ t \in Nat /\ t <= a
  BY ProtocolsAssumption
<1>2. CASE s = PckNone /\ w = PckOut(n, t)
  <2> HIDE DEF p, t
  <2>1. IsPrefix(Out(n, p, t), Out(n, p, a))
    BY <1>1, OutPrefix
  <2> QED BY <2>1, <1>2 DEF PckOut, p
<1>3. CASE /\ t # 0 /\ s.position \in 0..p
           /\ w = PckOut(n, t - 1) \o SubSeq(PckPart(n, t), 1, s.position)
  <2> DEFINE j == t - 1
             q == s.position
  <2>1. j \in Nat /\ j <= a /\ j < a /\ j + 1 = t /\ q \in 0..p
    BY <1>1, <1>3
  <2>2. w = Out(n, p, j) \o SubSeq(Part(n, p, t), 1, q)
    BY <1>3 DEF PckOut, PckPart
  <2> HIDE DEF p, t, j, q
  <2>3. IsPrefix(Out(n, p, j) \o SubSeq(Part(n, p, j + 1), 1, q), Out(n, p, a))
    BY <1>1, <2>1, OutPrefix
  <2> QED BY <2>1, <2>2, <2>3 DEF PckOut, p
<1> QED BY <1>2, <1>3

\* A package is queued behind the others.
LEMMA PckQueues == ASSUME PckInv, Packer!Send PROVE PckInv'
<1> SUFFICES ASSUME NEW c, c = packerSocket PROVE PckInv'
  OBVIOUS
<1> DEFINE a == packerAccepted[c]
           x == <<c, a + 1>>
           l == Len(packerQueue)
<1>1. PckTypes /\ PckLife /\ PckStatus /\ \A n \in PckConns : PckOne(n)
  BY DEF PckInv
<1>2. /\ c # 0 /\ packerQueue' = Append(packerQueue, x)
      /\ packerAccepted' = [packerAccepted EXCEPT ![c] = a + 1]
      /\ UNCHANGED <<packerSocket, packerIsConnected, status, sending, packerReceived, packerPc,
                     packerFds, packerOwner, packerUsed, packerNet, packerWire, served, taken,
                     packerDelivered, packerOverrun>>
  BY DEF Packer!Send, Packer!NoSocket, Packer!link
<1>3. /\ c \in PckConns /\ c \in Nat /\ a \in Nat /\ l \in Nat /\ packerUsed \in Nat
      /\ packerQueue \in Seq(PckConns \X Nat) /\ x \in PckConns \X Nat /\ c <= packerUsed
  <2>1. /\ c \in 0..PackageConnects /\ packerUsed \in 0..PackageConnects /\ PackageConnects \in Nat
        /\ c <= packerUsed /\ packerQueue \in Seq(PckConns \X Nat)
    BY <1>1, ProtocolsAssumption DEF PckTypes, PckLife
  <2>2. c \in PckConns /\ c \in Nat /\ packerUsed \in Nat
    BY <1>2, <2>1 DEF PckConns
  <2>3. a \in Nat /\ l \in Nat
    BY <1>1, <2>1, <2>2 DEF PckTypes
  <2>4. x \in PckConns \X Nat
    BY <2>2, <2>3
  <2> QED BY <2>1, <2>2, <2>3, <2>4
<1>4. /\ packerQueue' \in Seq(PckConns \X Nat) /\ Len(packerQueue') = l + 1
      /\ packerQueue'[l + 1] = x /\ \A i \in 1..l : packerQueue'[i] = packerQueue[i]
  <2> DEFINE S == PckConns \X Nat
  <2>1. x \in S /\ packerQueue \in Seq(S)
    BY <1>3
  <2> HIDE DEF S, x
  <2> QED BY <1>2, <2>1, AppendProperties DEF S
<1>5. PckTypes'
  BY <1>1, <1>2, <1>3, <1>4 DEF PckTypes
<1>6. PckLife'
  BY <1>1, <1>2 DEF PckLife
<1>7. PckStatus'
  BY <1>1, <1>2 DEF PckStatus, Packer!StatusAlternates
<1>8. ASSUME NEW n \in PckConns, n # c PROVE PckOne(n)'
  <2>1. PckTraffic(n) /\ PckOne(n)
    BY <1>1, <1>2, <1>8 DEF PckTraffic, PckTypes
  <2>2. packerSocket' # n /\ packerUsed' = packerUsed /\ packerNet' = packerNet
    BY <1>2, <1>8
  <2> QED BY <2>1, <2>2, PckOneStays
<1>9. PckOne(c)'
  <2>1. PckOne(c) /\ PckSends(c) /\ PckReceives(c)
    BY <1>1, <1>3 DEF PckOne
  <2>2. l <= a /\ packerAccepted'[c] = a + 1 /\ PckTaken(c) = a - l
    BY <1>1, <1>2, <1>3, <2>1 DEF PckSends, PckTaken, PckTypes
  <2>3. PckTaken(c)' = a - l
    <3>1. (a + 1) - (l + 1) = a - l
      BY <1>3
    <3> QED BY <3>1, <1>2, <1>4, <2>2 DEF PckTaken
  <2>4. \A i \in 1..(l + 1) : packerQueue'[i] = <<c, (a - l) + i>>
    <3> SUFFICES ASSUME NEW i \in 1..(l + 1) PROVE packerQueue'[i] = <<c, (a - l) + i>>
      OBVIOUS
    <3>1. i \in 1..l \/ i = l + 1
      BY <1>3
    <3>2. CASE i \in 1..l
      BY <3>2, <1>4, <2>1, <2>2 DEF PckSends
    <3>3. CASE i = l + 1
      <4>1. (a - l) + i = a + 1
        BY <3>3, <1>3
      <4> QED BY <3>3, <4>1, <1>4
    <3> QED BY <3>1, <3>2, <3>3
  <2>5. \/ sending = PckNone /\ packerWire[c] = PckOut(c, a - l)
        \/ /\ a - l # 0 /\ sending.of = c /\ sending.package = a - l
           /\ packerWire[c] = PckOut(c, (a - l) - 1) \o SubSeq(PckPart(c, a - l), 1, sending.position)
    BY <2>1, <2>2 DEF PckSends
  <2>6. PckSends(c)'
    <3>1. l + 1 <= a + 1
      BY <1>3, <2>2
    <3>2. Len(packerQueue') <= packerAccepted'[c]
      BY <3>1, <1>4, <2>2
    <3>3. \A i \in 1..Len(packerQueue') : packerQueue'[i] = <<c, PckTaken(c)' + i>>
      BY <1>4, <2>3, <2>4
    <3> HIDE DEF a, l
    <3>4. packerSocket' = c
      BY <1>2
    <3>5. \/ sending' = PckNone /\ packerWire'[c] = PckOut(c, PckTaken(c)')
          \/ /\ PckTaken(c)' # 0 /\ sending'.of = c /\ sending'.package = PckTaken(c)'
             /\ packerWire'[c] = PckOut(c, PckTaken(c)' - 1)
                                     \o SubSeq(PckPart(c, PckTaken(c)'), 1, sending'.position)
      BY <1>2, <2>3, <2>5
    <3> QED BY <1>2, <3>2, <3>3, <3>4, <3>5 DEF PckSends
  <2>7. PckReceives(c)'
    BY <1>2, <2>1 DEF PckReceives, PckDone
  <2>8. IsPrefix(packerWire'[c], PckOut(c, packerAccepted'[c]))
    <3> DEFINE b == a + 1
               m == l + 1
    <3>1. b \in Nat /\ m \in Nat /\ m <= b /\ b - m = a - l
      BY <1>3, <2>2
    <3>2. sending.position \in 0..(Payload + HeaderSize)
      BY <1>1, ProtocolsAssumption, SMTT(30) DEF PckTypes
    <3> HIDE DEF b, m, a, l
    <3>3. IsPrefix(packerWire[c], PckOut(c, b))
      BY <1>3, <2>5, <3>1, <3>2, PckPrefix
    <3> QED BY <3>3, <1>2, <2>2 DEF b
  <2>9. PckBlank(c)'
    BY <1>2, <1>3 DEF PckBlank
  <2>10. PckDone(c)' = PckDone(c)
    BY <1>2 DEF PckDone
  <2>11. taken'[c] <= PckEnd(served'[c])
    BY <1>2, <2>1 DEF PckOne
  <2>12. ~packerOverrun'[c] =>
           /\ PckDone(c)' <= PckCount
           /\ \A k \in 1..PckDone(c)' :
                  packerDelivered'[c][k] = Run(PckEnd(k - 1) + HeaderSize, PckEnd(k))
    BY <1>2, <2>1, <2>10 DEF PckOne
  <2> QED BY <2>6, <2>7, <2>8, <2>9, <2>11, <2>12 DEF PckOne
<1> QED BY <1>5, <1>6, <1>7, <1>8, <1>9 DEF PckInv

\* The server sends the next package.
LEMMA PckServes == ASSUME PckInv, NEW c \in PckConns, Packer!ServerSends(c) PROVE PckInv'
<1>1. PckTypes /\ PckLife /\ PckStatus /\ \A n \in PckConns : PckOne(n)
  BY DEF PckInv
<1>2. /\ packerNet[c] = "up" /\ served[c] < PckCount /\ served' = [served EXCEPT ![c] = @ + 1]
      /\ UNCHANGED <<packerSocket, packerIsConnected, status, packerQueue, sending, packerReceived,
                     packerPc, packerFds, packerOwner, packerUsed, packerNet, packerAccepted,
                     packerWire, taken, packerDelivered, packerOverrun>>
  BY DEF Packer!ServerSends, Packer!link, Packer!buffers, PckCount
<1> DEFINE s == served[c]
<1>3. s \in Nat /\ s \in 0..PckCount /\ s + 1 \in 0..PckCount /\ PckEnd(s) \in Nat
      /\ PckEnd(s + 1) \in Nat /\ PckEnd(s) < PckEnd(s + 1) /\ taken[c] \in Nat
  <2>1. s \in 0..PckCount /\ PckCount \in Nat /\ taken[c] \in Nat
    BY <1>1, PckEnds DEF PckTypes
  <2>2. s \in Nat /\ s + 1 \in 0..PckCount /\ s < s + 1
    BY <1>2, <2>1
  <2> QED BY <2>1, <2>2, PckEnds
<1>4. PckTypes'
  <2>1. served' \in [PckConns -> 0..PckCount]
    BY <1>1, <1>2, <1>3 DEF PckTypes
  <2> QED BY <1>1, <1>2, <2>1 DEF PckTypes
<1>5. PckLife'
  BY <1>1, <1>2 DEF PckLife
<1>6. PckStatus'
  BY <1>1, <1>2 DEF PckStatus, Packer!StatusAlternates
<1>7. ASSUME NEW n \in PckConns, n # c PROVE PckOne(n)'
  <2>1. PckTraffic(n) /\ PckOne(n)
    BY <1>1, <1>2, <1>7 DEF PckTraffic, PckTypes
  <2>2. packerSocket' = n => PckSends(n)' /\ PckReceives(n)'
    BY <1>2, <2>1, PckBuffersStay DEF PckOne
  <2> QED BY <1>2, <2>1, <2>2, PckOneStays
<1>8. PckOne(c)'
  <2>1. PckOne(c) /\ PckDone(c)' = PckDone(c)
    BY <1>1, <1>2 DEF PckDone
  <2>2. ~(c > packerUsed)
    BY <1>2, <2>1 DEF PckOne, PckBlank
  <2>3. packerSocket' = c => PckSends(c)' /\ PckReceives(c)'
    BY <1>2, <2>1 DEF PckOne, PckSends, PckTaken, PckReceives
  <2>4. taken'[c] <= PckEnd(served'[c])
    <3>1. served'[c] = s + 1 /\ taken[c] <= PckEnd(s)
      BY <1>1, <1>2, <2>1 DEF PckOne, PckTypes
    <3> HIDE DEF s
    <3> QED BY <3>1, <1>2, <1>3
  <2> QED BY <1>2, <2>1, <2>2, <2>3, <2>4 DEF PckOne, PckBlank
<1> QED BY <1>4, <1>5, <1>6, <1>7, <1>8 DEF PckInv

\* A connection that is closed takes its buffers with it. What a receive took
\* before it was closed is not notified.
LEMMA PckCloseKeeps ==
    ASSUME PckInv, Packer!CloseConnect,
           UNCHANGED <<packerUsed, packerFds, packerAccepted, packerWire, served, packerDelivered,
                       packerOverrun>>,
           taken' \in [PckConns -> Nat],
           \A n \in PckConns : taken'[n] = taken[n]
                               \/ (n <= packerUsed /\ taken'[n] <= PckEnd(served[n])),
           packerPc' \in {"select", "read", "exited"},
           packerOwner' \in {"none", "waits", "waited", "gone"},
           packerOwner' \in {"waited", "gone"} => packerPc' = "exited",
           packerIsConnected' \in BOOLEAN,
           PckQuietTold \/ PckConnected \/ PckDropped \/ PckSendFailed
    PROVE  PckInv'
<1>1. PckTypes /\ PckLife /\ PckStatus /\ \A n \in PckConns : PckOne(n)
  BY DEF PckInv
<1>2. /\ packerSocket' = 0 /\ packerQueue' = <<>> /\ packerReceived' = <<>> /\ sending' = PckNone
      /\ packerNet' = IF packerSocket = 0 THEN packerNet
                      ELSE [packerNet EXCEPT ![packerSocket] = "gone"]
  BY DEF Packer!CloseConnect, Packer!NoSocket, Packer!NoReader, PckNone
<1>3. PckStatus' /\ status' \in Seq({"Connected", "ConnectFailed", "Disconnected"})
  <2>1. /\ PckStatus /\ packerIsConnected \in BOOLEAN
        /\ status \in Seq({"Connected", "ConnectFailed", "Disconnected"})
    BY <1>1 DEF PckTypes
  <2> HIDE DEF PckStatus, PckQuietTold, PckConnected, PckDropped, PckSendFailed
  <2> QED BY <2>1, PckStatusKeeps
<1>4. PckTypes'
  <2>1. packerSocket' \in 0..PackageConnects /\ packerQueue' \in Seq(PckConns \X Nat)
        /\ packerReceived' \in Seq(Nat)
    BY <1>2, ProtocolsAssumption
  <2>2. sending' \in [of : Nat, package : Nat, position : 0..(Payload + HeaderSize - 1)]
    <3>1. 0 \in 0..(Payload + HeaderSize - 1)
      BY ProtocolsAssumption
    <3> QED BY <1>2, <3>1 DEF PckNone
  <2>3. packerNet' \in [PckConns ->
            {"none", "connecting", "refused", "up", "closed", "reset", "gone"}]
    BY <1>1, <1>2 DEF PckTypes
  <2> QED BY <1>1, <1>3, <2>1, <2>2, <2>3 DEF PckTypes
<1>5. PckLife'
  <2>1. 0 <= packerUsed
    BY <1>1 DEF PckTypes
  <2> QED BY <1>1, <1>2, <2>1 DEF PckLife
<1>6. ASSUME NEW n \in PckConns PROVE PckOne(n)'
  <2>1. PckOne(n) /\ packerSocket' # n /\ n \in Nat /\ packerUsed \in Nat
    BY <1>1, <1>2 DEF PckTypes, PckConns
  <2>2. PckDone(n)' = PckDone(n)
    BY DEF PckDone
  <2>3. PckBlank(n)'
    <3> SUFFICES ASSUME n > packerUsed PROVE PckBlank(n)'
      BY DEF PckBlank
    <3>1. taken'[n] = taken[n] /\ packerSocket # n
      BY <1>1, <2>1 DEF PckLife, PckTypes
    <3>2. packerNet'[n] = packerNet[n]
      BY <1>1, <1>2, <3>1 DEF PckTypes
    <3> QED BY <2>1, <3>1, <3>2 DEF PckOne, PckBlank
  <2>4. IsPrefix(packerWire'[n], PckOut(n, packerAccepted'[n])) /\ taken'[n] <= PckEnd(served'[n])
    BY <2>1 DEF PckOne
  <2>5. ~packerOverrun'[n] =>
          /\ PckDone(n)' <= PckCount
          /\ \A k \in 1..PckDone(n)' :
                 packerDelivered'[n][k] = Run(PckEnd(k - 1) + HeaderSize, PckEnd(k))
    BY <2>1, <2>2 DEF PckOne
  <2> QED BY <2>1, <2>3, <2>4, <2>5 DEF PckOne
<1> QED BY <1>3, <1>4, <1>5, <1>6 DEF PckInv

\* The steps that close the connection and receive nothing.
PckClosingStep ==
    \/ Packer!ProcessException \/ Packer!SendFails \/ Packer!ReceiveFails
    \/ (Packer!CloseAtEnd /\ packerIsConnected)

\* They keep the invariant.
LEMMA PckClosesKeep == ASSUME PckInv, PckClosingStep PROVE PckInv'
<1> USE DEF Packer!Goto
<1>1. /\ packerOwner \in {"none", "waits", "waited", "gone"} /\ taken \in [PckConns -> Nat]
      /\ packerIsConnected \in BOOLEAN /\ packerPc \in {"select", "locked", "read", "exited"}
      /\ (packerOwner \in {"waited", "gone"} => packerPc = "exited")
  BY DEF PckInv, PckTypes, PckLife
<1>2. /\ Packer!CloseConnect
      /\ UNCHANGED <<packerUsed, packerFds, packerAccepted, packerWire, served, packerDelivered,
                     packerOverrun, taken>>
  BY DEF PckClosingStep, Packer!ProcessException, Packer!SendFails, Packer!ReceiveFails,
         Packer!CloseAtEnd, Packer!AsyncProcessDisconnected, Packer!traffic
<1>3. /\ packerPc' \in {"select", "read", "exited"}
      /\ packerOwner' \in {"none", "waits", "waited", "gone"}
      /\ (packerOwner' \in {"waited", "gone"} => packerPc' = "exited")
  BY <1>1 DEF PckClosingStep, Packer!ProcessException, Packer!SendFails, Packer!ReceiveFails,
         Packer!CloseAtEnd
<1>4. packerIsConnected' \in BOOLEAN /\ (PckQuietTold \/ PckConnected \/ PckDropped \/ PckSendFailed)
  <2>1. CASE Packer!ProcessException
    BY <2>1 DEF Packer!ProcessException, Packer!AsyncProcessDisconnected, PckDropped
  <2>2. CASE Packer!SendFails
    BY <2>2 DEF Packer!SendFails, PckSendFailed
  <2>3. CASE Packer!ReceiveFails \/ (Packer!CloseAtEnd /\ packerIsConnected)
    BY <2>3, <1>1 DEF Packer!ReceiveFails, Packer!CloseAtEnd, PckQuietTold
  <2> QED BY <2>1, <2>2, <2>3 DEF PckClosingStep
<1> HIDE DEF PckQuietTold, PckConnected, PckDropped, PckSendFailed, PckClosingStep
<1> QED BY <1>1, <1>2, <1>3, <1>4, PckCloseKeeps

\* What is being sent: the package k with everything from its byte q + 1 on still to come,
\* and the packages that wait behind it.
PckAt(c, k, q) ==
    /\ Packer!Current = [of |-> c, package |-> k, position |-> q]
    /\ Packer!QueueLeft \in Seq(PckConns \X Nat)
    /\ Len(Packer!QueueLeft) <= packerAccepted[c] /\ k = packerAccepted[c] - Len(Packer!QueueLeft)
    /\ \A i \in 1..Len(Packer!QueueLeft) : Packer!QueueLeft[i] = <<c, k + i>>
    /\ packerWire[c] = PckOut(c, k - 1) \o SubSeq(PckPart(c, k), 1, q)

\* There is one, whether it is in hand or at the head of the queue.
LEMMA PckCurrent ==
    ASSUME PckInv, NEW c \in PckConns, c = packerSocket, Packer!HasCurrent
    PROVE  \E k \in Nat \ {0}, q \in 0..(Payload + HeaderSize - 1) : PckAt(c, k, q)
<1> DEFINE Q == 0..(Payload + HeaderSize - 1)
           a == packerAccepted[c]
           l == Len(packerQueue)
           t == a - l
           Pair == PckConns \X Nat
<1>1. PckTypes /\ PckSends(c)
  BY DEF PckInv, PckOne
<1>2. /\ packerQueue \in Seq(Pair) /\ a \in Nat /\ l \in Nat /\ c \in Nat \ {0}
      /\ sending \in [of : Nat, package : Nat, position : Q]
  <2>1. packerQueue \in Seq(Pair) /\ sending \in [of : Nat, package : Nat, position : Q]
    BY <1>1 DEF PckTypes
  <2>2. packerAccepted \in [PckConns -> Nat]
    BY <1>1 DEF PckTypes
  <2>3. c \in Nat \ {0}
    BY ProtocolsAssumption DEF PckConns
  <2>4. l \in Nat
    <3> HIDE DEF Pair
    <3> QED BY <2>1
  <2> QED BY <2>1, <2>2, <2>3, <2>4
<1>3. /\ l <= a /\ t \in Nat /\ PckTaken(c) = t
      /\ \A i \in 1..l : packerQueue[i] = <<c, t + i>>
      /\ \/ sending = PckNone /\ packerWire[c] = PckOut(c, t)
         \/ /\ t # 0 /\ sending.of = c /\ sending.package = t
            /\ packerWire[c] = PckOut(c, t - 1) \o SubSeq(PckPart(c, t), 1, sending.position)
  BY <1>1, <1>2, SMTT(30) DEF PckSends, PckTaken
<1>4. CASE sending # PckNone
  <2>1. t \in Nat \ {0} /\ sending.of = c /\ sending.package = t /\ sending.position \in Q
        /\ packerWire[c] = PckOut(c, t - 1) \o SubSeq(PckPart(c, t), 1, sending.position)
    BY <1>2, <1>3, <1>4
  <2>2. sending = [of |-> c, package |-> t, position |-> sending.position]
    BY <1>2, <2>1
  <2>3. Packer!Current = sending /\ Packer!QueueLeft = packerQueue
    BY <1>4 DEF Packer!Current, Packer!QueueLeft, Packer!NoReader, PckNone
  <2>4. PckAt(c, t, sending.position)
    <3>1. /\ Packer!Current = [of |-> c, package |-> t, position |-> sending.position]
          /\ Packer!QueueLeft \in Seq(PckConns \X Nat)
          /\ Len(Packer!QueueLeft) <= packerAccepted[c]
          /\ t = packerAccepted[c] - Len(Packer!QueueLeft)
      BY <1>2, <1>3, <2>2, <2>3
    <3>2. \A i \in 1..Len(Packer!QueueLeft) : Packer!QueueLeft[i] = <<c, t + i>>
      BY <1>3, <2>3
    <3> HIDE DEF t
    <3> QED BY <2>1, <3>1, <3>2 DEF PckAt
  <2> HIDE DEF t
  <2> QED BY <2>1, <2>4
<1>5. CASE sending = PckNone
  <2>1. packerWire[c] = PckOut(c, t)
    BY <1>2, <1>3, <1>5 DEF PckNone
  <2>2. packerQueue # <<>>
    BY <1>5 DEF Packer!HasCurrent, Packer!NoReader, PckNone
  <2> DEFINE h == Tail(packerQueue)
  <2>3. /\ h \in Seq(Pair) /\ Len(h) = l - 1 /\ \A i \in 1..Len(h) : h[i] = packerQueue[i + 1]
    <3> HIDE DEF Pair
    <3> QED BY <1>2, <2>2, HeadTailProperties
  <2>4. l >= 1 /\ Head(packerQueue) = <<c, t + 1>>
    <3>1. l >= 1
      BY <1>2, <2>2
    <3>2. Head(packerQueue) = packerQueue[1]
      BY <1>2
    <3>3. 1 \in 1..l
      BY <1>2, <3>1
    <3> QED BY <3>1, <3>2, <3>3, <1>3
  <2>5. Packer!Current = [of |-> c, package |-> t + 1, position |-> 0] /\ Packer!QueueLeft = h
    BY <1>5, <2>4 DEF Packer!Current, Packer!QueueLeft, Packer!NoReader, PckNone
  <2>6. Len(h) <= a /\ t + 1 = a - Len(h) /\ t + 1 \in Nat \ {0} /\ (t + 1) - 1 = t
    <3> DEFINE m == Len(h)
    <3>1. m = l - 1 /\ l >= 1 /\ l <= a /\ t = a - l
      <4>1. m = l - 1
        BY <2>3
      <4>2. l >= 1 /\ l <= a
        BY <1>3, <2>4
      <4>3. t = a - l
        OBVIOUS
      <4> QED BY <4>1, <4>2, <4>3
    <3> HIDE DEF h, t, l, a, m
    <3>2. m <= a /\ t + 1 = a - m /\ t + 1 \in Nat \ {0} /\ (t + 1) - 1 = t
      BY <1>2, <1>3, <3>1
    <3> QED BY <3>2 DEF m, a
  <2>7. \A i \in 1..Len(h) : h[i] = <<c, (t + 1) + i>>
    <3> SUFFICES ASSUME NEW i \in 1..Len(h) PROVE h[i] = <<c, (t + 1) + i>>
      OBVIOUS
    <3>1. i + 1 \in 1..l /\ t + (i + 1) = (t + 1) + i
      <4> DEFINE m == Len(h)
      <4>1. m = l - 1 /\ i \in 1..m
        BY <2>3
      <4> HIDE DEF m, t, l
      <4>2. l \in Nat /\ t \in Nat
        BY <1>2, <1>3
      <4> QED BY <4>1, <4>2
    <3>2. h[i] = packerQueue[i + 1] /\ packerQueue[i + 1] = <<c, t + (i + 1)>>
      BY <1>3, <2>3, <3>1
    <3> QED BY <3>1, <3>2
  <2> DEFINE k == t + 1
  <2>8. packerWire[c] = PckOut(c, k - 1) \o SubSeq(PckPart(c, k), 1, 0)
    <3> DEFINE p == Payload + HeaderSize
               o == Out(c, p, t)
               x == Part(c, p, k)
    <3>1. p \in Nat /\ k \in Nat /\ t \in Nat /\ c \in Nat /\ k - 1 = t
      <4>1. p \in Nat
        BY ProtocolsAssumption
      <4>2. k \in Nat /\ t \in Nat /\ c \in Nat /\ k - 1 = t
        BY <1>2, <2>6, <1>3
      <4> QED BY <4>1, <4>2
    <3> HIDE DEF p, k, t
    <3>2. o \in Seq(Spot)
      BY <3>1, OutGrows
    <3>3. x \in Seq(Spot) /\ Len(x) = p
      BY <3>1, PartFacts
    <3> HIDE DEF o, x
    <3>4. SubSeq(x, 1, 0) = <<>>
      <4>1. 1 \in Int /\ 0 \in Int /\ 0 < 1
        OBVIOUS
      <4> QED BY <4>1, SubSeqEmpty
    <3>5. o \o <<>> = o
      BY <3>2, ConcatEmptySeq
    <3>6. packerWire[c] = o \o SubSeq(x, 1, 0)
      BY <2>1, <3>4, <3>5 DEF PckOut, o, p
    <3> QED BY <3>1, <3>6 DEF PckOut, PckPart, o, x, p
  <2>9. 0 \in Q
    BY ProtocolsAssumption
  <2>10. PckAt(c, k, 0)
    <3>1. /\ Packer!Current = [of |-> c, package |-> k, position |-> 0]
          /\ Packer!QueueLeft \in Seq(PckConns \X Nat)
          /\ Len(Packer!QueueLeft) <= packerAccepted[c]
          /\ k = packerAccepted[c] - Len(Packer!QueueLeft)
          /\ \A i \in 1..Len(Packer!QueueLeft) : Packer!QueueLeft[i] = <<c, k + i>>
      BY <2>3, <2>5, <2>6, <2>7
    <3> HIDE DEF k, h, t
    <3> QED BY <2>8, <3>1 DEF PckAt
  <2> HIDE DEF t
  <2> QED BY <2>6, <2>9, <2>10
<1> QED BY <1>4, <1>5

\* The network takes the bytes of the package up to p, which may be none.
LEMMA PckSent ==
    ASSUME PckInv, NEW c \in PckConns, c = packerSocket, NEW k \in Nat \ {0},
           NEW q \in 0..(Payload + HeaderSize - 1), PckAt(c, k, q),
           NEW p \in q..(Payload + HeaderSize),
           packerQueue' = Packer!QueueLeft,
           sending' = IF p = Payload + HeaderSize THEN PckNone
                      ELSE [of |-> c, package |-> k, position |-> p],
           packerWire' = [packerWire EXCEPT ![c] = @ \o SubSeq(PckPart(c, k), q + 1, p)],
           packerPc = "locked", packerPc' = "read", packerIsConnected' \in BOOLEAN, PckConnected,
           UNCHANGED <<packerSocket, packerNet, packerReceived, packerFds, packerOwner, packerUsed,
                       packerAccepted, served, taken, packerDelivered, packerOverrun>>
    PROVE  PckInv'
<1> DEFINE P == Payload + HeaderSize
           x == PckPart(c, k)
           o == PckOut(c, k - 1)
           l == Len(packerQueue')
           w == packerWire'[c]
<1>1. PckTypes /\ PckLife /\ PckStatus /\ \A n \in PckConns : PckOne(n)
  BY DEF PckInv
<1>2. /\ P \in Nat /\ c \in Nat /\ c # 0 /\ k \in Nat /\ k - 1 \in Nat /\ (k - 1) + 1 = k
      /\ q \in Nat /\ p \in Nat /\ q <= p /\ p <= P /\ packerAccepted[c] \in Nat
  <2>1. P \in Nat /\ PackageConnects \in Nat
    BY ProtocolsAssumption
  <2>2. c \in Nat /\ c # 0
    BY <2>1 DEF PckConns
  <2>3. packerAccepted[c] \in Nat
    BY <1>1 DEF PckTypes
  <2>4. q \in Nat /\ p \in Nat /\ q <= p /\ p <= P
    BY <2>1
  <2>5. k \in Nat /\ k - 1 \in Nat /\ (k - 1) + 1 = k
    OBVIOUS
  <2> QED BY <2>1, <2>2, <2>3, <2>4, <2>5
<1>3. /\ packerQueue' \in Seq(PckConns \X Nat) /\ l <= packerAccepted[c] /\ l \in Nat
      /\ k = packerAccepted[c] - l /\ packerAccepted'[c] = packerAccepted[c]
      /\ \A i \in 1..l : packerQueue'[i] = <<c, k + i>>
  <2>1. /\ packerQueue' \in Seq(PckConns \X Nat) /\ l <= packerAccepted[c]
        /\ k = packerAccepted[c] - l /\ \A i \in 1..l : packerQueue'[i] = <<c, k + i>>
    BY DEF PckAt
  <2>2. l \in Nat
    BY <2>1
  <2> QED BY <2>1, <2>2
<1>4. o \in Seq(Spot) /\ x \in Seq(Spot) /\ Len(x) = P
  <2> HIDE DEF P
  <2>1. Out(c, P, k - 1) \in Seq(Spot)
    BY <1>2, OutGrows
  <2>2. Part(c, P, k) \in Seq(Spot) /\ Len(Part(c, P, k)) = P
    BY <1>2, PartFacts
  <2> QED BY <2>1, <2>2 DEF PckOut, PckPart, P
<1>5. /\ SubSeq(x, 1, q) \o SubSeq(x, q + 1, p) = SubSeq(x, 1, p)
      /\ SubSeq(x, 1, q) \in Seq(Spot) /\ SubSeq(x, q + 1, p) \in Seq(Spot)
      /\ SubSeq(x, 1, Len(x)) = x
  <2> HIDE DEF x, P
  <2> QED BY <1>2, <1>4, CutJoins
<1>6. SubSeq(x, 1, p) \in Seq(Spot)
  <2> HIDE DEF x, P
  <2>1. 0 \in Nat /\ 0 <= p /\ p <= Len(x)
    BY <1>2, <1>4
  <2>2. 0 + 1 = 1
    OBVIOUS
  <2>3. SubSeq(x, 0 + 1, p) \in Seq(Spot)
    BY <1>2, <1>4, <2>1, CutJoins
  <2> QED BY <2>2, <2>3
<1>7. w = o \o SubSeq(x, 1, p)
  <2> DEFINE y == SubSeq(x, 1, q)
             z == SubSeq(x, q + 1, p)
  <2>1. w = (o \o y) \o z
    BY <1>1 DEF PckAt, PckTypes
  <2>2. y \in Seq(Spot) /\ z \in Seq(Spot) /\ y \o z = SubSeq(x, 1, p)
    BY <1>5
  <2> HIDE DEF y, z, o, w
  <2>3. (o \o y) \o z = o \o (y \o z)
    BY <1>4, <2>2, JoinsAgain, ZenonT(40)
  <2> QED BY <2>1, <2>2, <2>3
<1>8. w \in Seq(Spot)
  <2> DEFINE y == SubSeq(x, 1, p)
  <2>1. y \in Seq(Spot)
    BY <1>6
  <2> HIDE DEF y, o, w
  <2>2. o \o y \in Seq(Spot)
    BY <1>4, <2>1, ConcatProperties
  <2> QED BY <1>7, <2>2 DEF y
<1>9. p = P => w = PckOut(c, k)
  <2> SUFFICES ASSUME p = P PROVE w = PckOut(c, k)
    OBVIOUS
  <2>1. w = o \o x
    BY <1>4, <1>5, <1>7
  <2> HIDE DEF P
  <2>2. Out(c, P, (k - 1) + 1) = Out(c, P, k - 1) \o Part(c, P, (k - 1) + 1)
    BY <1>2, OutGrows, ZenonT(40)
  <2>3. Out(c, P, k) = Out(c, P, k - 1) \o Part(c, P, k)
    BY <1>2, <2>2
  <2> QED BY <2>1, <2>3 DEF PckOut, PckPart, P
<1>10. PckStatus' /\ status' \in Seq({"Connected", "ConnectFailed", "Disconnected"})
  <2>1. /\ PckStatus /\ packerIsConnected \in BOOLEAN
        /\ status \in Seq({"Connected", "ConnectFailed", "Disconnected"})
    BY <1>1 DEF PckTypes
  <2> HIDE DEF PckStatus, PckQuietTold, PckConnected, PckDropped, PckSendFailed
  <2> QED BY <2>1, PckStatusKeeps
<1>11. PckTypes'
  <2>1. sending' \in [of : Nat, package : Nat, position : 0..(Payload + HeaderSize - 1)]
    <3> DEFINE e == Payload + HeaderSize
               R == [of : Nat, package : Nat, position : 0..(e - 1)]
    <3>1. PckNone \in R
      BY ProtocolsAssumption DEF PckNone
    <3>2. p # e => [of |-> c, package |-> k, position |-> p] \in R
      <4>1. p # e => p \in 0..(e - 1)
        BY <1>2
      <4> QED BY <1>2, <4>1
    <3>3. sending' \in R
      <4> HIDE DEF R
      <4> QED BY <3>1, <3>2
    <3>4. Payload + HeaderSize - 1 = e - 1
      BY ProtocolsAssumption
    <3> QED BY <3>3, <3>4
  <2>2. packerWire' \in [PckConns -> Seq(Spot)]
    <3>1. packerWire' = [packerWire EXCEPT ![c] = w]
      BY <1>1 DEF PckTypes
    <3>2. packerWire \in [PckConns -> Seq(Spot)]
      BY <1>1 DEF PckTypes
    <3> HIDE DEF w
    <3> QED BY <1>8, <3>1, <3>2
  <2>3. packerQueue' \in Seq(PckConns \X Nat)
    BY <1>3
  <2>4. status' \in Seq({"Connected", "ConnectFailed", "Disconnected"})
    BY <1>10
  <2>5. /\ packerSocket' \in 0..PackageConnects /\ packerReceived' \in Seq(Nat)
        /\ packerFds' \in SUBSET {"except", "read", "write"}
        /\ packerOwner' \in {"none", "waits", "waited", "gone"}
        /\ packerUsed' \in 0..PackageConnects
        /\ packerNet' \in [PckConns ->
               {"none", "connecting", "refused", "up", "closed", "reset", "gone"}]
        /\ packerAccepted' \in [PckConns -> Nat]
        /\ served' \in [PckConns -> 0..PckCount] /\ taken' \in [PckConns -> Nat]
        /\ packerDelivered' \in [PckConns -> Seq(Seq(Nat))]
        /\ packerOverrun' \in [PckConns -> BOOLEAN]
    BY <1>1 DEF PckTypes
  <2>6. packerPc' \in {"select", "locked", "read", "exited"}
    OBVIOUS
  <2> QED BY <2>1, <2>2, <2>3, <2>4, <2>5, <2>6, Zenon DEF PckTypes
<1>12. PckLife'
  BY <1>1, <1>2 DEF PckLife
<1>13. ASSUME NEW n \in PckConns, n # c PROVE PckOne(n)'
  <2>1. PckTraffic(n) /\ PckOne(n)
    BY <1>1, <1>13 DEF PckTraffic, PckTypes
  <2>2. packerSocket' # n /\ packerUsed' = packerUsed /\ packerNet' = packerNet
    BY <1>13
  <2> QED BY <2>1, <2>2, PckOneStays
<1>14. PckOne(c)'
  <2>1. PckOne(c) /\ PckReceives(c) /\ PckDone(c)' = PckDone(c) /\ ~(c > packerUsed)
        /\ packerSocket' = c
    <3>1. c <= packerUsed /\ packerUsed \in Nat
      BY <1>1 DEF PckLife, PckTypes
    <3>2. ~(c > packerUsed)
      BY <1>2, <3>1
    <3> QED BY <1>1, <3>2 DEF PckOne, PckDone
  <2>2. PckReceives(c)'
    BY <2>1 DEF PckReceives
  <2>3. PckTaken(c)' = k
    BY <1>3 DEF PckTaken
  <2>4. \/ sending' = PckNone /\ packerWire'[c] = PckOut(c, k)
        \/ /\ k # 0 /\ sending'.of = c /\ sending'.package = k
           /\ packerWire'[c] = PckOut(c, k - 1) \o SubSeq(PckPart(c, k), 1, sending'.position)
    <3>1. CASE p = P
      BY <3>1, <1>9
    <3>2. CASE p # P
      BY <3>2, <1>7
    <3> QED BY <3>1, <3>2
  <2>5. PckSends(c)'
    <3>1. l <= packerAccepted'[c] /\ \A i \in 1..l : packerQueue'[i] = <<c, PckTaken(c)' + i>>
      BY <1>3, <2>3
    <3> QED BY <2>3, <2>4, <3>1 DEF PckSends
  <2>6. IsPrefix(packerWire'[c], PckOut(c, packerAccepted'[c]))
    <3> DEFINE a == packerAccepted[c]
    <3>1. a \in Nat /\ l \in Nat /\ l <= a /\ a - l = k /\ k # 0 /\ c \in Nat
      BY <1>2, <1>3
    <3>2. p = P \/ (sending'.position = p /\ p \in 0..P)
      BY <1>2
    <3>3. CASE p = P
      <4>1. w = PckOut(c, a - l) /\ PckNone = PckNone
        BY <1>9, <3>1, <3>3
      <4> HIDE DEF a, l, w
      <4>2. IsPrefix(w, PckOut(c, a))
        BY <3>1, <4>1, PckPrefix
      <4> QED BY <4>2, <1>3 DEF w, a
    <3>4. CASE p # P
      <4> DEFINE s == sending'
      <4>1. /\ s.position \in 0..(Payload + HeaderSize)
            /\ w = PckOut(c, (a - l) - 1) \o SubSeq(PckPart(c, a - l), 1, s.position)
        BY <1>2, <1>7, <3>1, <3>2, <3>4
      <4>2. a - l # 0
        BY <3>1
      <4> HIDE DEF a, l, w, s
      <4>3. IsPrefix(w, PckOut(c, a))
        BY <3>1, <4>1, <4>2, PckPrefix
      <4> QED BY <4>3, <1>3 DEF w, a
    <3> QED BY <3>3, <3>4
  <2>7. PckBlank(c)'
    BY <2>1 DEF PckBlank
  <2>8. taken'[c] <= PckEnd(served'[c])
    BY <2>1 DEF PckOne
  <2>9. ~packerOverrun'[c] =>
          /\ PckDone(c)' <= PckCount
          /\ \A j \in 1..PckDone(c)' :
                 packerDelivered'[c][j] = Run(PckEnd(j - 1) + HeaderSize, PckEnd(j))
    BY <2>1 DEF PckOne
  <2> QED BY <2>2, <2>5, <2>6, <2>7, <2>8, <2>9 DEF PckOne
<1> QED BY <1>10, <1>11, <1>12, <1>13, <1>14 DEF PckInv

\* Nothing is sent, but what would be is taken from the queue.
LEMMA PckSendsNone == ASSUME PckInv, Packer!SendNothing PROVE PckInv'
<1> SUFFICES ASSUME NEW c, c = packerSocket PROVE PckInv'
  OBVIOUS
<1>1. /\ packerPc = "locked" /\ packerPc' = "read" /\ packerIsConnected' \in BOOLEAN /\ PckConnected
      /\ UNCHANGED <<packerSocket, packerNet, packerReceived, packerFds, packerOwner, packerUsed,
                     packerAccepted, served, taken, packerDelivered, packerOverrun, packerWire>>
  BY DEF Packer!SendNothing, Packer!Goto, Packer!AsyncProcessConnected, PckConnected, Packer!traffic
<1>2. PckTypes /\ PckLife /\ PckStatus /\ \A n \in PckConns : PckOne(n)
  BY DEF PckInv
<1>3. c \in PckConns /\ c # 0 /\ packerWire \in [PckConns -> Seq(Spot)]
  <2>1. c # 0 /\ c \in 0..PackageConnects /\ packerWire \in [PckConns -> Seq(Spot)]
    BY <1>1, <1>2 DEF PckTypes, PckLife
  <2> QED BY <2>1, ProtocolsAssumption DEF PckConns
<1>4. CASE Packer!HasCurrent
  <2>1. sending' = Packer!Current /\ packerQueue' = Packer!QueueLeft
    BY <1>4 DEF Packer!SendNothing
  <2>2. PICK k \in Nat \ {0}, q \in 0..(Payload + HeaderSize - 1) : PckAt(c, k, q)
    BY <1>3, <1>4, PckCurrent
  <2>3. q \in q..(Payload + HeaderSize) /\ q # Payload + HeaderSize /\ q \in Nat
    BY ProtocolsAssumption
  <2>4. sending' = IF q = Payload + HeaderSize THEN PckNone
                   ELSE [of |-> c, package |-> k, position |-> q]
    BY <2>1, <2>2, <2>3 DEF PckAt
  <2>5. packerWire' = [packerWire EXCEPT ![c] = @ \o SubSeq(PckPart(c, k), q + 1, q)]
    <3> DEFINE x == PckPart(c, k)
               u == packerWire[c]
    <3>1. SubSeq(x, q + 1, q) = <<>>
      <4>1. q + 1 \in Int /\ q \in Int /\ q < q + 1
        BY <2>3
      <4> HIDE DEF x
      <4> QED BY <4>1, SubSeqEmpty
    <3>2. u \in Seq(Spot)
      BY <1>3
    <3> HIDE DEF x
    <3>3. u \o SubSeq(x, q + 1, q) = u
      <4> HIDE DEF u
      <4> QED BY <3>1, <3>2, ConcatEmptySeq
    <3> DEFINE y == u \o SubSeq(x, q + 1, q)
    <3>4. packerWire' = [packerWire EXCEPT ![c] = y]
      <4>1. y = packerWire[c]
        BY <3>3
      <4> HIDE DEF y
      <4> QED BY <1>1, <1>3, <4>1
    <3> QED BY <3>4 DEF x
  <2> HIDE DEF PckConnected
  <2> QED BY <1>1, <1>3, <2>1, <2>2, <2>3, <2>4, <2>5, PckSent
<1>5. CASE ~Packer!HasCurrent
  <2>1. UNCHANGED <<sending, packerQueue>>
    BY <1>5 DEF Packer!SendNothing
  <2>2. PckStatus' /\ status' \in Seq({"Connected", "ConnectFailed", "Disconnected"})
    <3>1. /\ PckStatus /\ packerIsConnected \in BOOLEAN
          /\ status \in Seq({"Connected", "ConnectFailed", "Disconnected"})
      BY <1>2 DEF PckTypes
    <3> HIDE DEF PckStatus, PckQuietTold, PckConnected, PckDropped, PckSendFailed
    <3> QED BY <1>1, <3>1, PckStatusKeeps
  <2>3. PckTypes'
    <3> HIDE DEF PckConnected
    <3> QED BY <1>1, <1>2, <2>1, <2>2 DEF PckTypes
  <2>4. PckLife'
    BY <1>1, <1>2, <2>1 DEF PckLife
  <2>5. ASSUME NEW n \in PckConns PROVE PckOne(n)'
    <3>1. PckTraffic(n) /\ PckOne(n)
      BY <1>1, <1>2 DEF PckTraffic
    <3>2. packerSocket' = n => PckSends(n)' /\ PckReceives(n)'
      BY <1>1, <2>1, <3>1, PckBuffersStay DEF PckOne
    <3> QED BY <1>1, <3>1, <3>2, PckOneStays
  <2> QED BY <2>2, <2>3, <2>4, <2>5 DEF PckInv
<1> QED BY <1>4, <1>5

\* The network takes a byte at least.
LEMMA PckSendsSome ==
    ASSUME PckInv, NEW p \in 1..Packer!PackageBytes, Packer!AsyncProcessSending(p)
    PROVE  PckInv'
<1> SUFFICES ASSUME NEW c, c = packerSocket PROVE PckInv'
  OBVIOUS
<1>1. /\ packerPc = "locked" /\ packerPc' = "read" /\ packerIsConnected' \in BOOLEAN /\ PckConnected
      /\ Packer!HasCurrent
      /\ UNCHANGED <<packerSocket, packerNet, packerReceived, packerFds, packerOwner, packerUsed,
                     packerAccepted, served, taken, packerDelivered, packerOverrun>>
  BY DEF Packer!AsyncProcessSending, Packer!Goto, Packer!AsyncProcessConnected, PckConnected
<1>2. c \in PckConns
  <2>1. c # 0 /\ c \in 0..PackageConnects
    BY <1>1 DEF PckInv, PckTypes, PckLife
  <2> QED BY <2>1, ProtocolsAssumption DEF PckConns
<1>3. PICK k \in Nat \ {0}, q \in 0..(Payload + HeaderSize - 1) : PckAt(c, k, q)
  BY <1>1, <1>2, PckCurrent
<1>4. Packer!Current = [of |-> c, package |-> k, position |-> q]
  BY <1>3 DEF PckAt
<1>5. /\ packerQueue' = Packer!QueueLeft /\ sending' = Packer!ReaderAt(p) /\ p > Packer!Current.position
      /\ packerWire' = [packerWire EXCEPT ![c] = @ \o
           SubSeq(Packer!BytesOf(Packer!Current.of, Packer!Current.package),
                  Packer!Current.position + 1, p)]
  BY DEF Packer!AsyncProcessSending
<1>6. Packer!BytesOf(c, k) = PckPart(c, k) /\ Packer!PackageBytes = Payload + HeaderSize
  BY DEF Packer!BytesOf, PckPart, Part, Packer!PackageBytes
<1>7. p \in q..(Payload + HeaderSize)
  BY <1>4, <1>5, <1>6, ProtocolsAssumption
<1>8. sending' = IF p = Payload + HeaderSize THEN PckNone
                 ELSE [of |-> c, package |-> k, position |-> p]
  <2> HIDE DEF PckAt
  <2> QED BY <1>4, <1>5, <1>6 DEF Packer!ReaderAt, Packer!NoReader, PckNone
<1>9. packerWire' = [packerWire EXCEPT ![c] = @ \o SubSeq(PckPart(c, k), q + 1, p)]
  <2> DEFINE x == Packer!BytesOf(c, k)
  <2>1. Packer!Current.of = c /\ Packer!Current.package = k /\ Packer!Current.position = q
    BY <1>4
  <2>2. packerWire' = [packerWire EXCEPT ![c] = @ \o SubSeq(x, q + 1, p)]
    BY <1>5, <2>1
  <2> QED BY <1>6, <2>2
<1> HIDE DEF PckConnected
<1> QED BY <1>1, <1>2, <1>3, <1>5, <1>7, <1>8, <1>9, PckSent

\* What AsyncProcessReceive has in its buffer when recv gave it k bytes.
PckBytes(c, k) == packerReceived \o Packer!Positions(taken[c], taken[c] + k)

\* They are the bytes behind the last package that was notified, and begin the next one.
LEMMA PckArrives ==
    ASSUME PckInv, NEW c \in PckConns, c = packerSocket, NEW k \in Nat \ {0},
           ~packerOverrun[c], k <= Packer!Unread(c)
    PROVE  /\ taken[c] \in Nat /\ taken[c] + k \in Nat /\ taken[c] + k <= PckEnd(served[c])
           /\ PckDone(c) \in Nat /\ PckDone(c) < PckCount
           /\ PckEnd(PckDone(c)) \in Nat /\ PckEnd(PckDone(c)) < taken[c] + k
           /\ PckBytes(c, k) = Run(PckEnd(PckDone(c)), taken[c] + k)
           /\ Len(PckBytes(c, k)) = (taken[c] + k) - PckEnd(PckDone(c))
           /\ Packer!FirstSize(PckBytes(c, k)) = PckEnd(PckDone(c) + 1) - PckEnd(PckDone(c))
<1> DEFINE a == taken[c]
           m == a + k
           d == PckDone(c)
           e == PckEnd(d)
           s == served[c]
           b == PckBytes(c, k)
<1>1. PckTypes /\ PckOne(c) /\ PckReceives(c)
  BY DEF PckInv, PckOne
<1>2. /\ a \in Nat /\ s \in 0..PckCount /\ PckCount \in Nat /\ packerDelivered[c] \in Seq(Seq(Nat))
  BY <1>1, PckEnds DEF PckTypes
<1>3. d \in Nat /\ d <= PckCount /\ e <= a /\ packerReceived = Run(e, a)
  BY <1>1, <1>2 DEF PckOne, PckReceives, PckDone
<1>4. d \in 0..PckCount /\ e \in Nat /\ PckEnd(s) \in Nat
  <2> HIDE DEF s, d
  <2>1. d \in 0..PckCount
    BY <1>2, <1>3
  <2> QED BY <1>2, <2>1, PckEnds
<1>5. m \in Nat /\ m <= PckEnd(s)
  <2>1. k <= PckEnd(s) - a
    BY DEF Packer!Unread, PckEnd
  <2> HIDE DEF s, a
  <2> QED BY <1>2, <1>4, <2>1
<1>6. e < m
  <2> HIDE DEF e, a
  <2> QED BY <1>2, <1>3, <1>4
<1>7. d < PckCount
  <2>1. e < PckEnd(s)
    <3> HIDE DEF e, m, s
    <3> QED BY <1>4, <1>5, <1>6
  <2>2. ~(s < d)
    <3> SUFFICES ASSUME s < d PROVE FALSE
      OBVIOUS
    <3> HIDE DEF s, d
    <3>1. PckEnd(s) < PckEnd(d)
      BY <1>2, <1>4, PckEnds
    <3> QED BY <1>4, <2>1, <3>1
  <2>3. s # d
    BY <1>4, <2>1
  <2> HIDE DEF s, d
  <2> QED BY <1>2, <1>3, <2>2, <2>3
<1>8. b = Run(e, m)
  <2>1. b = Run(e, a) \o Run(a, m)
    BY <1>3 DEF PckBytes, Packer!Positions, Run
  <2>2. a <= m
    BY <1>2
  <2> HIDE DEF a, e, m, b
  <2>3. Run(e, a) \o Run(a, m) = Run(e, m)
    BY <1>2, <1>3, <1>4, <1>5, <2>2, RunJoins, ZenonT(40)
  <2> QED BY <2>1, <2>3
<1>9. Len(b) = m - e /\ Head(b) = e + 1
  <2>1. 1 \in 1..(m - e)
    <3> HIDE DEF e, m
    <3> QED BY <1>4, <1>5, <1>6
  <2> HIDE DEF e, m, b
  <2>2. Run(e, m) \in Seq(Nat) /\ Len(Run(e, m)) = m - e /\ \A i \in 1..(m - e) : Run(e, m)[i] = e + i
    <3>1. e <= m
      BY <1>4, <1>5, <1>6
    <3> QED BY <1>4, <1>5, <3>1, RunFacts
  <2>3. Run(e, m)[1] = e + 1
    BY <2>1, <2>2
  <2> QED BY <1>8, <2>1, <2>2, <2>3
<1>10. Packer!FirstSize(b) = PckEnd(d + 1) - e
  <2> HIDE DEF d, b
  <2>1. Packer!PackageFrom(Head(b)) = d + 1
    <3>1. Packer!PackageFrom(e + 1) = d + 1
      BY <1>3, <1>7, PckFrom
    <3> QED BY <1>9, <3>1
  <2>2. d + 1 \in 1..PckCount /\ (d + 1) - 1 = d
    BY <1>2, <1>3, <1>7
  <2>3. /\ ServerPackages[d + 1].payload \in Nat
        /\ PckEnd(d + 1) = PckEnd((d + 1) - 1) + (ServerPackages[d + 1].payload + HeaderSize)
    <3> DEFINE i == d + 1
    <3>1. i \in 1..PckCount
      BY <2>2
    <3> HIDE DEF i
    <3>2. /\ ServerPackages[i].payload \in Nat
          /\ PckEnd(i) = PckEnd(i - 1) + (ServerPackages[i].payload + HeaderSize)
      BY <3>1, PckEnds
    <3> QED BY <3>2 DEF i
  <2>4. HeaderSize \in Nat
    BY ProtocolsAssumption
  <2>5. Packer!FirstSize(b) = ServerPackages[d + 1].payload + HeaderSize
    BY <2>1 DEF Packer!FirstSize
  <2> QED BY <1>4, <2>2, <2>3, <2>4, <2>5
<1> QED BY <1>2, <1>3, <1>4, <1>5, <1>6, <1>7, <1>8, <1>9, <1>10

\* A receive that leaves the connection open: what is known of the others stays, and of
\* this one but for the packages and the buffer.
LEMMA PckReceiveKeeps ==
    ASSUME PckInv, NEW c \in PckConns, c = packerSocket, NEW m \in Nat, m <= PckEnd(served[c]),
           taken' = [taken EXCEPT ![c] = m], packerReceived' \in Seq(Nat),
           packerDelivered' \in [PckConns -> Seq(Seq(Nat))],
           packerOverrun' \in [PckConns -> BOOLEAN],
           \A n \in PckConns : n # c => packerDelivered'[n] = packerDelivered[n]
                                        /\ packerOverrun'[n] = packerOverrun[n],
           ~packerOverrun'[c] => PckDone(c)' <= PckCount
               /\ \A j \in 1..PckDone(c)' :
                      packerDelivered'[c][j] = Run(PckEnd(j - 1) + HeaderSize, PckEnd(j)),
           PckReceives(c)', packerPc = "read", packerPc' = "select",
           UNCHANGED <<packerSocket, packerIsConnected, status, packerQueue, sending, packerFds,
                       packerOwner, packerUsed, packerNet, packerAccepted, packerWire, served>>
    PROVE  PckInv'
<1>1. PckTypes /\ PckLife /\ PckStatus /\ \A n \in PckConns : PckOne(n)
  BY DEF PckInv
<1>2. PckTypes'
  <2>1. taken' \in [PckConns -> Nat]
    BY <1>1 DEF PckTypes
  <2> QED BY <1>1, <2>1 DEF PckTypes
<1>3. PckLife'
  <2>1. c # 0
    BY ProtocolsAssumption DEF PckConns
  <2> QED BY <1>1, <2>1 DEF PckLife
<1>4. PckStatus'
  BY <1>1 DEF PckStatus, Packer!StatusAlternates
<1>5. ASSUME NEW n \in PckConns, n # c PROVE PckOne(n)'
  <2>1. PckTraffic(n) /\ PckOne(n)
    BY <1>1, <1>5 DEF PckTraffic, PckTypes
  <2> QED BY <1>5, <2>1, PckOneStays
<1>6. PckOne(c)'
  <2>1. PckOne(c) /\ taken'[c] = m /\ PckSends(c)
    BY <1>1 DEF PckTypes, PckOne
  <2>2. PckSends(c)'
    BY <2>1 DEF PckSends, PckTaken
  <2>3. PckBlank(c)'
    <3>1. c <= packerUsed /\ packerUsed \in Nat /\ c \in Nat
      BY <1>1 DEF PckLife, PckTypes, PckConns
    <3>2. ~(c > packerUsed')
      BY <3>1
    <3> QED BY <3>2 DEF PckBlank
  <2>4. IsPrefix(packerWire'[c], PckOut(c, packerAccepted'[c])) /\ taken'[c] <= PckEnd(served'[c])
    BY <2>1 DEF PckOne
  <2> QED BY <2>2, <2>3, <2>4 DEF PckOne
<1> QED BY <1>2, <1>3, <1>4, <1>5, <1>6 DEF PckInv

\* A package that is notified is the next one, unless it was not received as a whole.
LEMMA PckNotifies ==
    ASSUME PckInv, NEW c \in PckConns, c = packerSocket, NEW k \in Nat \ {0},
           ~packerOverrun[c], k <= Packer!Unread(c), Packer!TakesFirst(PckBytes(c, k)),
           packerDelivered' = [packerDelivered EXCEPT ![c] =
               Append(@, SubSeq(PckBytes(c, k), HeaderSize + 1, Len(PckBytes(c, k))))],
           packerOverrun' = [packerOverrun EXCEPT ![c] =
               Packer!FirstSize(PckBytes(c, k)) > Len(PckBytes(c, k))]
    PROVE  /\ packerDelivered' \in [PckConns -> Seq(Seq(Nat))]
           /\ packerOverrun' \in [PckConns -> BOOLEAN]
           /\ ~packerOverrun'[c] =>
                /\ PckDone(c)' <= PckCount /\ PckEnd(PckDone(c)') = taken[c] + k
                /\ \A j \in 1..PckDone(c)' :
                       packerDelivered'[c][j] = Run(PckEnd(j - 1) + HeaderSize, PckEnd(j))
<1> DEFINE m == taken[c] + k
           d == PckDone(c)
           e == PckEnd(d)
           b == PckBytes(c, k)
           x == SubSeq(b, HeaderSize + 1, Len(b))
           y == packerDelivered[c]
           z == packerDelivered'[c]
           o == packerOverrun'[c]
<1>1. /\ d \in Nat /\ d < PckCount /\ m \in Nat /\ e \in Nat /\ e < m /\ b = Run(e, m)
      /\ Len(b) = m - e /\ Packer!FirstSize(b) = PckEnd(d + 1) - e
  BY PckArrives
<1>2. PckTypes /\ PckOne(c) /\ HeaderSize \in Nat /\ PckCount \in Nat
  BY ProtocolsAssumption, PckEnds DEF PckInv
<1>3. HeaderSize <= m - e /\ m - e <= PckEnd(d + 1) - e
  <2>1. Len(b) >= HeaderSize /\ Packer!FirstSize(b) >= Len(b)
    BY DEF Packer!TakesFirst
  <2>2. d + 1 \in 0..PckCount
    BY <1>1, <1>2
  <2>3. PckEnd(d + 1) \in Nat
    BY <2>2, PckEnds
  <2> HIDE DEF d, e, m, b
  <2> QED BY <1>1, <1>2, <2>1, <2>3
<1>4. x = Run(e + HeaderSize, m)
  <2> DEFINE i == e + HeaderSize
  <2>1. i \in Nat /\ e <= i /\ i <= m /\ (i - e) + 1 = HeaderSize + 1
    <3> HIDE DEF e, m
    <3> QED BY <1>1, <1>2, <1>3
  <2>2. x = SubSeq(Run(e, m), (i - e) + 1, m - e)
    BY <1>1, <2>1
  <2>3. x = Piece(e, m, i, m)
    BY <2>2 DEF Piece
  <2>4. m <= m
    BY <1>1
  <2> HIDE DEF e, m, i, x
  <2>5. Piece(e, m, i, m) = Run(i, m)
    BY <1>1, <2>1, <2>4, RunPiece
  <2> QED BY <2>3, <2>5 DEF i
<1>5. x \in Seq(Nat)
  <2> DEFINE i == e + HeaderSize
  <2>1. i \in Nat /\ i <= m
    <3> HIDE DEF e, m
    <3> QED BY <1>1, <1>2, <1>3
  <2> HIDE DEF x, m, i
  <2>2. Run(i, m) \in Seq(Nat)
    BY <1>1, <2>1, RunFacts
  <2> QED BY <1>4, <2>2 DEF i
<1>6. /\ z = Append(y, x) /\ y \in Seq(Seq(Nat)) /\ Len(y) = d
  BY <1>2 DEF PckTypes, PckDone
<1>7. /\ z \in Seq(Seq(Nat)) /\ Len(z) = d + 1 /\ z[d + 1] = x /\ \A j \in 1..d : z[j] = y[j]
  <2> DEFINE S == Seq(Nat)
  <2>1. x \in S /\ y \in Seq(S)
    BY <1>5, <1>6
  <2> HIDE DEF S, x, y, z, d
  <2> QED BY <1>6, <2>1, AppendProperties DEF S
<1>8. packerDelivered' \in [PckConns -> Seq(Seq(Nat))]
  <2> DEFINE v == Append(y, x)
  <2>1. v \in Seq(Seq(Nat))
    BY <1>6, <1>7
  <2>2. packerDelivered' = [packerDelivered EXCEPT ![c] = v]
    OBVIOUS
  <2>3. packerDelivered \in [PckConns -> Seq(Seq(Nat))]
    BY <1>2 DEF PckTypes
  <2> HIDE DEF v
  <2> QED BY <2>1, <2>2, <2>3
<1>9. packerOverrun' \in [PckConns -> BOOLEAN] /\ (~o => Packer!FirstSize(b) <= Len(b))
  <2> DEFINE v == Packer!FirstSize(b) > Len(b)
  <2>1. v \in BOOLEAN
    OBVIOUS
  <2>2. packerOverrun' = [packerOverrun EXCEPT ![c] = v] /\ packerOverrun \in [PckConns -> BOOLEAN]
    BY <1>2 DEF PckTypes
  <2>3. ~v => Packer!FirstSize(b) <= Len(b)
    <3>1. PckEnd(d + 1) \in Nat
      <4>1. d + 1 \in 0..PckCount
        BY <1>1, <1>2
      <4> QED BY <4>1, PckEnds
    <3> HIDE DEF b, d, e, m
    <3> QED BY <1>1, <3>1
  <2> HIDE DEF v
  <2> QED BY <2>1, <2>2, <2>3
<1>10. ASSUME ~o
       PROVE  /\ PckDone(c)' <= PckCount /\ PckEnd(PckDone(c)') = m
              /\ \A j \in 1..PckDone(c)' : z[j] = Run(PckEnd(j - 1) + HeaderSize, PckEnd(j))
  <2>1. PckDone(c)' = d + 1
    BY <1>7 DEF PckDone
  <2>2. d + 1 \in 0..PckCount /\ d + 1 \in Nat /\ (d + 1) - 1 = d
    BY <1>1, <1>2
  <2>3. PckEnd(d + 1) = m
    <3>1. PckEnd(d + 1) \in Nat
      BY <2>2, PckEnds
    <3>2. Packer!FirstSize(b) <= Len(b)
      BY <1>9, <1>10
    <3> HIDE DEF b, d, e, m
    <3> QED BY <1>1, <1>3, <3>1, <3>2
  <2>4. \A j \in 1..d : y[j] = Run(PckEnd(j - 1) + HeaderSize, PckEnd(j))
    BY <1>2 DEF PckOne
  <2>5. ASSUME NEW j \in 1..(d + 1)
        PROVE  z[j] = Run(PckEnd(j - 1) + HeaderSize, PckEnd(j))
    <3>1. j \in 1..d \/ j = d + 1
      BY <1>1
    <3>2. CASE j \in 1..d
      BY <3>2, <1>7, <2>4
    <3>3. CASE j = d + 1
      <4>1. z[j] = Run(e + HeaderSize, m)
        BY <3>3, <1>4, <1>7
      <4>2. PckEnd(j) = m /\ PckEnd(j - 1) = e
        BY <3>3, <2>2, <2>3
      <4> QED BY <4>1, <4>2
    <3> QED BY <3>1, <3>2, <3>3
  <2>6. d + 1 <= PckCount
    BY <1>1, <1>2
  <2> HIDE DEF d, m, z
  <2> QED BY <2>1, <2>3, <2>5, <2>6
<1> QED BY <1>8, <1>9, <1>10

\* AsyncProcessReceive keeps the invariant.
LEMMA PckReceivesKeep ==
    ASSUME PckInv, NEW k \in Nat \ {0}, Packer!AsyncProcessReceive(k)
    PROVE  PckInv'
<1> SUFFICES ASSUME NEW c, c = packerSocket PROVE PckInv'
  OBVIOUS
<1> DEFINE b == PckBytes(c, k)
           m == taken[c] + k
<1>1. PckTypes /\ PckLife /\ PckStatus /\ \A n \in PckConns : PckOne(n)
  BY DEF PckInv
<1>2. /\ packerPc = "read" /\ packerPc' = "select" /\ c # 0 /\ ~packerOverrun[c]
      /\ k <= Packer!Unread(c) /\ taken' = [taken EXCEPT ![c] = m]
      /\ UNCHANGED <<packerIsConnected, status, packerFds, packerOwner, packerUsed, packerAccepted,
                     packerWire, served>>
  BY DEF Packer!AsyncProcessReceive, Packer!Goto, Packer!Readable, Packer!NoSocket
<1>3. \/ /\ ~Packer!TakesFirst(b) /\ packerReceived' = b
         /\ UNCHANGED <<packerSocket, packerNet, packerQueue, sending, packerDelivered,
                        packerOverrun>>
      \/ Packer!CloseConnect /\ UNCHANGED <<packerDelivered, packerOverrun>>
      \/ /\ Packer!TakesFirst(b)
         /\ packerDelivered' = [packerDelivered EXCEPT ![c] =
                Append(@, SubSeq(b, HeaderSize + 1, Len(b)))]
         /\ packerOverrun' = [packerOverrun EXCEPT ![c] = Packer!FirstSize(b) > Len(b)]
         /\ packerReceived' = <<>> /\ UNCHANGED <<packerSocket, packerNet, packerQueue, sending>>
  BY Zenon DEF Packer!AsyncProcessReceive, PckBytes
<1>4. c \in PckConns
  <2>1. c \in 0..PackageConnects
    BY <1>1 DEF PckTypes
  <2> QED BY <1>2, <2>1, ProtocolsAssumption DEF PckConns
<1>5. PckOne(c) /\ PckReceives(c)
  BY <1>1, <1>4 DEF PckOne
<1>6. /\ taken[c] \in Nat /\ m \in Nat /\ m <= PckEnd(served[c]) /\ PckDone(c) \in Nat
      /\ PckEnd(PckDone(c)) \in Nat /\ PckEnd(PckDone(c)) < m /\ b = Run(PckEnd(PckDone(c)), m)
  BY <1>2, <1>4, PckArrives
<1>7. taken'[c] = m /\ \A n \in PckConns : n # c => taken'[n] = taken[n]
  BY <1>1, <1>2, <1>4 DEF PckTypes
<1>8. CASE /\ ~Packer!TakesFirst(b) /\ packerReceived' = b
           /\ UNCHANGED <<packerSocket, packerNet, packerQueue, sending, packerDelivered,
                          packerOverrun>>
  <2>1. packerReceived' \in Seq(Nat)
    <3> DEFINE e == PckEnd(PckDone(c))
    <3>1. e <= m /\ e \in Nat
      BY <1>6
    <3> HIDE DEF e, m, b
    <3>2. Run(e, m) \in Seq(Nat)
      BY <1>6, <3>1, RunFacts
    <3> QED BY <1>6, <1>8, <3>2 DEF e
  <2>2. PckDone(c)' = PckDone(c)
    BY <1>8 DEF PckDone
  <2>3. PckReceives(c)'
    <3>1. PckEnd(PckDone(c)) <= m
      BY <1>6
    <3> HIDE DEF m, b
    <3> QED BY <1>6, <1>7, <1>8, <2>2, <3>1 DEF PckReceives
  <2>4. packerDelivered' \in [PckConns -> Seq(Seq(Nat))] /\ packerOverrun' \in [PckConns -> BOOLEAN]
    BY <1>1, <1>8 DEF PckTypes
  <2>5. ~packerOverrun'[c] => PckDone(c)' <= PckCount
               /\ \A j \in 1..PckDone(c)' :
                      packerDelivered'[c][j] = Run(PckEnd(j - 1) + HeaderSize, PckEnd(j))
    BY <1>5, <1>8, <2>2 DEF PckOne
  <2> HIDE DEF m, b
  <2> QED BY <1>2, <1>4, <1>6, <1>8, <2>1, <2>3, <2>4, <2>5, PckReceiveKeeps
<1>9. CASE Packer!CloseConnect /\ UNCHANGED <<packerDelivered, packerOverrun>>
  <2>1. taken' \in [PckConns -> Nat]
    BY <1>1, <1>2, <1>4, <1>6 DEF PckTypes
  <2>2. \A n \in PckConns : taken'[n] = taken[n]
                            \/ (n <= packerUsed /\ taken'[n] <= PckEnd(served[n]))
    <3>1. c <= packerUsed
      BY <1>1 DEF PckLife
    <3> QED BY <1>6, <1>7, <3>1
  <2>3. /\ packerOwner' \in {"none", "waits", "waited", "gone"} /\ packerIsConnected' \in BOOLEAN
        /\ ~(packerOwner' \in {"waited", "gone"}) /\ PckQuietTold
    BY <1>1, <1>2 DEF PckTypes, PckLife, PckQuietTold
  <2> HIDE DEF PckQuietTold, PckConnected, PckDropped, PckSendFailed, m, b
  <2> QED BY <1>2, <1>9, <2>1, <2>2, <2>3, PckCloseKeeps
<1>10. CASE /\ Packer!TakesFirst(b)
            /\ packerDelivered' = [packerDelivered EXCEPT ![c] =
                   Append(@, SubSeq(b, HeaderSize + 1, Len(b)))]
            /\ packerOverrun' = [packerOverrun EXCEPT ![c] = Packer!FirstSize(b) > Len(b)]
            /\ packerReceived' = <<>> /\ UNCHANGED <<packerSocket, packerNet, packerQueue, sending>>
  <2>1. /\ packerDelivered' \in [PckConns -> Seq(Seq(Nat))]
        /\ packerOverrun' \in [PckConns -> BOOLEAN]
        /\ ~packerOverrun'[c] =>
             /\ PckDone(c)' <= PckCount /\ PckEnd(PckDone(c)') = m
             /\ \A j \in 1..PckDone(c)' :
                    packerDelivered'[c][j] = Run(PckEnd(j - 1) + HeaderSize, PckEnd(j))
    BY <1>2, <1>4, <1>10, PckNotifies
  <2>2. \A n \in PckConns : n # c => packerDelivered'[n] = packerDelivered[n]
                                     /\ packerOverrun'[n] = packerOverrun[n]
    BY <1>1, <1>10 DEF PckTypes
  <2>3. PckReceives(c)'
    <3>1. Run(m, m) = <<>> /\ m <= m
      <4>1. m <= m
        BY <1>6
      <4> HIDE DEF m
      <4> QED BY <1>6, <4>1, RunFacts
    <3> HIDE DEF m, b
    <3> QED BY <1>7, <1>10, <2>1, <3>1 DEF PckReceives
  <2>4. packerReceived' \in Seq(Nat)
    BY <1>10
  <2>5. ~packerOverrun'[c] => PckDone(c)' <= PckCount
               /\ \A j \in 1..PckDone(c)' :
                      packerDelivered'[c][j] = Run(PckEnd(j - 1) + HeaderSize, PckEnd(j))
    BY <2>1
  <2> HIDE DEF m, b
  <2> QED BY <1>2, <1>4, <1>6, <1>10, <2>1, <2>2, <2>3, <2>4, <2>5, PckReceiveKeeps
<1> QED BY <1>3, <1>8, <1>9, <1>10

\* Every step keeps the invariant.
LEMMA PckStep == PckInv /\ [Packer!Next]_(Packer!vars) => PckInv'
<1> SUFFICES ASSUME PckInv, [Packer!Next]_(Packer!vars) PROVE PckInv'
  OBVIOUS
<1>1. CASE UNCHANGED Packer!vars
  BY <1>1, PckQuietKeeps DEF PckQuietStep
<1>2. CASE Packer!Connect
  BY <1>2, PckConnects
<1>3. CASE Packer!Send
  BY <1>3, PckQueues
<1>4. CASE Packer!Thread
  <2>1. CASE Packer!Select \/ Packer!SeeShutdown \/ Packer!NotWritable \/ Packer!ReceiveNothing
    BY <2>1, PckQuietKeeps DEF PckQuietStep
  <2>2. CASE Packer!ProcessException \/ Packer!SendFails \/ Packer!ReceiveFails
    BY <2>2, PckClosesKeep DEF PckClosingStep
  <2>3. CASE Packer!SendNothing
    BY <2>3, PckSendsNone
  <2>4. CASE \E p \in 1..Packer!PackageBytes : Packer!AsyncProcessSending(p)
    BY <2>4, PckSendsSome
  <2>5. CASE \E k \in 1..Packer!EndOf(Len(ServerPackages)) : Packer!AsyncProcessReceive(k)
    <3>1. PICK k \in 1..Packer!EndOf(Len(ServerPackages)) : Packer!AsyncProcessReceive(k)
      BY <2>5
    <3>2. k \in Nat \ {0}
      OBVIOUS
    <3> QED BY <3>1, <3>2, PckReceivesKeep
  <2> QED BY <1>4, <2>1, <2>2, <2>3, <2>4, <2>5 DEF Packer!Thread
<1>5. CASE Packer!AtRest
  BY <1>5, PckQuietKeeps DEF PckQuietStep, Packer!AtRest
<1>6. CASE Packer!RaiseShutdown \/ Packer!EndThread
  BY <1>6, PckQuietKeeps DEF PckQuietStep
<1>7. CASE Packer!CloseAtEnd
  <2>1. CASE packerIsConnected
    BY <1>7, <2>1, PckClosesKeep DEF PckClosingStep
  <2>2. CASE ~packerIsConnected
    BY <1>7, <2>2, PckQuietKeeps DEF PckQuietStep
  <2> QED BY <2>1, <2>2
<1>8. CASE \E n \in Packer!Conns : Packer!Network(n) \/ Packer!ServerSends(n)
  <2>1. PICK n \in PckConns : Packer!Network(n) \/ Packer!ServerSends(n)
    BY <1>8 DEF Packer!Conns, PckConns
  <2>2. CASE Packer!Network(n)
    BY <2>2, PckQuietKeeps DEF PckQuietStep
  <2>3. CASE Packer!ServerSends(n)
    BY <2>3, PckServes
  <2> QED BY <2>1, <2>2, <2>3
<1> QED BY <1>1, <1>2, <1>3, <1>4, <1>5, <1>6, <1>7, <1>8 DEF Packer!Next

\* And it says what PackageClient promises.
LEMMA PckSound == PckInv => PackageClientIsSound
<1> SUFFICES ASSUME PckInv PROVE PackageClientIsSound
  OBVIOUS
<1>1. PckTypes /\ PckLife /\ PckStatus /\ \A n \in PckConns : PckOne(n)
  BY DEF PckInv
<1>2. Packer!TypeOK
  <2>1. sending.position < Payload + HeaderSize
    <3>1. sending.position \in 0..(Payload + HeaderSize - 1)
      BY <1>1 DEF PckTypes
    <3> QED BY <3>1, ProtocolsAssumption
  <2> QED BY <1>1, <2>1 DEF PckTypes, PckLife, Packer!TypeOK, Packer!Conns, PckConns,
             Packer!PackageBytes, Packer!NoSocket
<1>3. Packer!WireInOrder
  <2> SUFFICES ASSUME NEW n \in PckConns
               PROVE Packer!IsPrefix(packerWire[n],
                   Packer!FlattenSeq([k \in 1..packerAccepted[n] |-> Packer!BytesOf(n, k)]))
    BY DEF Packer!WireInOrder, Packer!Conns, PckConns
  <2> DEFINE a == packerAccepted[n]
             s == [k \in 1..a |-> Packer!BytesOf(n, k)]
  <2>1. s = [k \in 1..a |-> PckPart(n, k)]
    BY DEF Packer!BytesOf, PckPart, Part, Packer!PackageBytes
  <2>2. PckOut(n, a) = FlattenSeq(s)
    BY <2>1 DEF PckOut, Out, PckPart
  <2>3. IsPrefix(packerWire[n], PckOut(n, a))
    BY <1>1 DEF PckOne
  <2>4. \A t : Packer!FlattenSeq(t) = FlattenSeq(t)
    BY DEF Packer!FlattenSeq, FlattenSeq
  <2>5. \A t, u : Packer!IsPrefix(t, u) <=> IsPrefix(t, u)
    BY DEF Packer!IsPrefix, IsPrefix
  <2> HIDE DEF s, a
  <2>6. Packer!FlattenSeq(s) = PckOut(n, a)
    BY <2>2, <2>4
  <2>7. Packer!IsPrefix(packerWire[n], PckOut(n, a))
    BY <2>3, <2>5
  <2>8. Packer!IsPrefix(packerWire[n], Packer!FlattenSeq(s))
    BY <2>6, <2>7
  <2> QED BY <2>8 DEF s, a
<1>4. Packer!PackagesInOrder
  <2> SUFFICES ASSUME NEW n \in PckConns, ~packerOverrun[n], NEW k \in DOMAIN packerDelivered[n]
               PROVE packerDelivered[n][k]
                         = Packer!Positions(Packer!EndOf(k - 1) + HeaderSize, Packer!EndOf(k))
    BY DEF Packer!PackagesInOrder, Packer!Conns, PckConns
  <2>1. k \in 1..PckDone(n)
    BY <1>1 DEF PckTypes, PckDone
  <2>2. packerDelivered[n][k] = Run(PckEnd(k - 1) + HeaderSize, PckEnd(k))
    BY <1>1, <2>1 DEF PckOne
  <2>3. \A x, y : Packer!Positions(x, y) = Run(x, y)
    BY DEF Packer!Positions, Run
  <2> QED BY <2>2, <2>3 DEF PckEnd
<1>5. Packer!DestructorCloses
  <2>1. packerOwner = "gone" /\ packerSocket # 0 => ~packerIsConnected
    BY <1>1 DEF PckLife
  <2>2. ~packerIsConnected => status = <<>> \/ Packer!Last(status) # "Connected"
    BY <1>1 DEF PckStatus, Packer!StatusAlternates
  <2> QED BY <2>1, <2>2 DEF Packer!DestructorCloses, Packer!NoSocket
<1>6. Packer!StatusAlternates
  BY <1>1 DEF PckStatus
<1> QED BY <1>2, <1>3, <1>4, <1>5, <1>6 DEF PackageClientIsSound, Packer!PackageClientIsSound

\* The package client is sound, however its connections are lost and cut by the
\* network, and whenever it is destroyed: PackageIOCPClient.cpp.
THEOREM PackageClientHolds == Packer!Spec => []PackageClientIsSound
<1>1. Packer!Init => PckInv
  BY PckInit
<1>2. PckInv /\ [Packer!Next]_(Packer!vars) => PckInv'
  BY PckStep
<1>3. PckInv => PackageClientIsSound
  BY PckSound
<1> QED BY <1>1, <1>2, <1>3, PTL DEF Packer!Spec

-----------------------------------------------------------------------------
(* TextClient: the invariant.                                               *)

\* The y-th byte of the peer on connection n, and where its k-th text ends.
Flow(n) == [y \in Nat |-> <<n, ((y - 1) \div TextLength) + 1, ((y - 1) % TextLength) + 1>>]
TextEnd(k) == k * TextLength

\* The bytes of the peer behind the a-th, up to the b-th.
Stretch(n, a, b) == [i \in 1..(b - a) |-> Flow(n)[a + i]]

\* How many texts were notified, and the names of PartFacts and its lemmas for TextLength.
CliDone(n) == Len(delivered[n])
CliPart(n, k) == Part(n, TextLength, k)
CliOut(n, m) == Out(n, TextLength, m)

\* Types: counters are naturals, for the bounds are in the guards of the model.
CliTypes ==
    /\ socket \in 0..MaxConnects /\ used \in 0..MaxConnects
    /\ isConnected \in BOOLEAN /\ wouldBlock \in BOOLEAN /\ connecting \in BOOLEAN
    /\ queue \in Seq(Conns \X Nat)
    /\ reader \in [of : Nat, text : Nat, position : 0..(TextLength - 1)]
    /\ received \in Seq(Bytes)
    /\ pc \in {"select", "lock", "send", "read", "close", "clear", "exited"}
    /\ fds \in SUBSET {"except", "read", "write"}
    /\ owner \in {"none", "waits", "waited", "gone"}
    /\ net \in [Conns -> {"none", "fresh", "connecting", "refused", "up",
                          "closed", "reset", "gone"}]
    /\ accepted \in [Conns -> Nat] /\ peerSent \in [Conns -> Nat]
    /\ wire \in [Conns -> Seq(Bytes)] /\ inbox \in [Conns -> Seq(Bytes)]
    /\ delivered \in [Conns -> Seq(Seq(Bytes))]

\* The thread works on a socket and ends with the destructor; what a connection
\* leaves behind is gone before the thread is out of CloseConnect.
CliLife ==
    /\ socket <= used
    /\ pc \in {"lock", "send", "close"} => socket # NoSocket
    /\ owner \in {"waited", "gone"} <=> pc = "exited"
    /\ socket = NoSocket /\ pc \notin {"clear", "exited"} =>
           queue = <<>> /\ reader = NoReader /\ received = <<>>

\* A connection that was not opened yet.
CliBlank(n) ==
    n > used => /\ net[n] = "none" /\ accepted[n] = 0 /\ wire[n] = <<>>
                /\ inbox[n] = <<>> /\ peerSent[n] = 0 /\ delivered[n] = <<>>

\* The texts of the queue are the last that were queued; the one before them is
\* sent in part, when there is one, and the ones before that as a whole.
CliTaken(n) == accepted[n] - Len(queue)
CliSends(n) ==
    /\ Len(queue) <= accepted[n]
    /\ \A i \in 1..Len(queue) : queue[i] = <<n, CliTaken(n) + i>>
    /\ \/ reader = NoReader /\ wire[n] = CliOut(n, CliTaken(n))
       \/ /\ CliTaken(n) # 0 /\ reader.of = n /\ reader.text = CliTaken(n)
          /\ wire[n] = CliOut(n, CliTaken(n) - 1)
                           \o SubSeq(CliPart(n, CliTaken(n)), 1, reader.position)

\* What the peer sent is what was notified, what is in m_ReceivedBytes behind it,
\* and what recv did not return yet.
CliHere(n) == TextEnd(CliDone(n)) + Len(received)
CliReceives(n) ==
    /\ CliHere(n) <= TextEnd(peerSent[n])
    /\ received = Stretch(n, TextEnd(CliDone(n)), CliHere(n))
    /\ inbox[n] = Stretch(n, CliHere(n), TextEnd(peerSent[n]))

\* A connection that Connect opened between the two steps of CloseConnect: the
\* buffers are those of the connection before.
CliFresh(n) ==
    /\ accepted[n] = 0 /\ wire[n] = <<>> /\ delivered[n] = <<>>
    /\ inbox[n] = Stretch(n, 0, TextEnd(peerSent[n]))

\* All of it for one connection.
CliOne(n) ==
    /\ CliBlank(n)
    /\ IsPrefix(wire[n], CliOut(n, accepted[n]))
    /\ CliDone(n) <= peerSent[n]
    /\ \A k \in 1..CliDone(n) : delivered[n][k] = BytesOf(n, k)
    /\ socket = n /\ pc = "clear" => CliFresh(n)
    /\ socket = n /\ pc \notin {"clear", "exited"} => CliSends(n) /\ CliReceives(n)

CliInv == CliTypes /\ CliLife /\ \A n \in Conns : CliOne(n)

\* A text has a byte at least, and the texts end one behind the other.
LEMMA TextEnds ==
    /\ TextLength \in Nat \ {0} /\ TextEnd(0) = 0
    /\ \A k \in Nat : TextEnd(k) \in Nat /\ TextEnd(k + 1) = TextEnd(k) + TextLength
    /\ \A j, k \in Nat : TextEnd(j + k) = TextEnd(j) + TextEnd(k)
    /\ \A j, k \in Nat : TextEnd(j) <= TextEnd(k) => j <= k
<1>1. TextLength \in Nat \ {0}
  BY BoundsAssumption
<1>2. \A k \in Nat : k * TextLength \in Nat /\ (k + 1) * TextLength = k * TextLength + TextLength
  BY <1>1
<1>3. \A j, k \in Nat : (j + k) * TextLength = j * TextLength + k * TextLength
  BY <1>1
<1>4. \A j, k \in Nat : j < k => j * TextLength + TextLength <= k * TextLength
  BY <1>1
<1>5. \A j, k \in Nat : j * TextLength <= k * TextLength => j <= k
  <2> SUFFICES ASSUME NEW j \in Nat, NEW k \in Nat, j * TextLength <= k * TextLength, k < j
               PROVE  FALSE
    OBVIOUS
  <2>1. k * TextLength + TextLength <= j * TextLength
    BY <1>4
  <2>2. j * TextLength \in Nat /\ k * TextLength \in Nat
    BY <1>2
  <2> QED BY <2>1, <2>2, <1>1
<1>6. 0 * TextLength = 0
  BY <1>1
<1> QED BY <1>1, <1>2, <1>3, <1>5, <1>6 DEF TextEnd

\* The i-th byte behind the k-th text is the i-th of the next one.
LEMMA FlowAt ==
    ASSUME NEW n, NEW k \in Nat, NEW i \in 1..TextLength
    PROVE  Flow(n)[TextEnd(k) + i] = <<n, k + 1, i>>
<1> DEFINE y == k * TextLength + i
           r == i - 1
<1>1. TextLength \in Nat \ {0} /\ TextEnd(k) \in Nat /\ TextEnd(k) = k * TextLength
  BY TextEnds DEF TextEnd
<1>2. r \in 0..(TextLength - 1) /\ y \in Nat /\ y - 1 = k * TextLength + r /\ r + 1 = i
  BY <1>1
<1>3. (k * TextLength + r) \div TextLength = k
  <2> HIDE DEF r
  <2> QED BY <1>1, <1>2
<1>4. (k * TextLength + r) % TextLength = r
  <2> HIDE DEF r
  <2> QED BY <1>1, <1>2
<1>5. Flow(n)[y] = <<n, ((y - 1) \div TextLength) + 1, ((y - 1) % TextLength) + 1>>
  <2> HIDE DEF y
  <2> QED BY <1>2 DEF Flow
<1> HIDE DEF r
<1>6. Flow(n)[y] = <<n, k + 1, i>>
  <2>1. (y - 1) \div TextLength = k /\ (y - 1) % TextLength = r
    BY <1>2, <1>3, <1>4
  <2> HIDE DEF y
  <2> QED BY <2>1, <1>2, <1>5
<1> QED BY <1>1, <1>6

\* A byte is the connection, the text and the place in the text.
Counted == Conns \X Int \X Int

\* The flow of a connection is a sequence of such bytes without end.
LEMMA FlowIs == ASSUME NEW n \in Conns PROVE Flow(n) \in [Nat -> Counted]
<1>1. ASSUME NEW y \in Nat
      PROVE  <<n, ((y - 1) \div TextLength) + 1, ((y - 1) % TextLength) + 1>> \in Counted
  <2>1. ((y - 1) \div TextLength) \in Int /\ ((y - 1) % TextLength) \in Int
    BY TextEnds
  <2> QED BY <2>1 DEF Counted
<1> HIDE DEF Counted
<1> QED BY <1>1 DEF Flow

\* From a to b there are b - a of them, in order.
LEMMA StretchFacts ==
    ASSUME NEW n \in Conns, NEW a \in Nat, NEW b \in Nat, a <= b
    PROVE  /\ Stretch(n, a, b) \in Seq(Counted) /\ Len(Stretch(n, a, b)) = b - a
           /\ \A i \in 1..(b - a) : Stretch(n, a, b)[i] = Flow(n)[a + i]
<1>1. b - a \in Nat /\ \A i \in 1..(b - a) : a + i \in Nat
  OBVIOUS
<1>2. \A i \in 1..(b - a) : Flow(n)[a + i] \in Counted
  BY <1>1, FlowIs
<1> QED BY <1>1, <1>2 DEF Stretch

\* From a to a there is nothing.
LEMMA StretchEmpty == ASSUME NEW n, NEW a \in Nat PROVE Stretch(n, a, a) = <<>>
<1>1. a - a = 0
  OBVIOUS
<1> QED BY <1>1 DEF Stretch

\* What follows goes behind it.
LEMMA StretchJoins ==
    ASSUME NEW n \in Conns, NEW a \in Nat, NEW b \in Nat, NEW c \in Nat, a <= b, b <= c
    PROVE  Stretch(n, a, b) \o Stretch(n, b, c) = Stretch(n, a, c)
<1> DEFINE p == Stretch(n, a, b)
           q == Stretch(n, b, c)
           r == Stretch(n, a, c)
           t == p \o q
<1>1. b - a \in Nat /\ c - b \in Nat /\ (b - a) + (c - b) = c - a /\ a <= c
  OBVIOUS
<1>2. p \in Seq(Counted) /\ Len(p) = b - a /\ \A i \in 1..(b - a) : p[i] = Flow(n)[a + i]
  BY StretchFacts, ZenonT(40)
<1>3. q \in Seq(Counted) /\ Len(q) = c - b /\ \A i \in 1..(c - b) : q[i] = Flow(n)[b + i]
  BY StretchFacts, ZenonT(40)
<1>4. r \in Seq(Counted) /\ Len(r) = c - a /\ \A i \in 1..(c - a) : r[i] = Flow(n)[a + i]
  <2>1. a <= c
    BY <1>1
  <2> QED BY <2>1, StretchFacts
<1> HIDE DEF p, q, r
<1>5. /\ t \in Seq(Counted) /\ Len(t) = Len(p) + Len(q)
      /\ \A i \in 1..(Len(p) + Len(q)) : t[i] = IF i <= Len(p) THEN p[i] ELSE q[i - Len(p)]
  BY <1>2, <1>3, ConcatProperties, ZenonT(40)
<1> HIDE DEF t
<1>6. ASSUME NEW i \in 1..(c - a) PROVE t[i] = r[i]
  <2>1. CASE i <= b - a
    <3>1. i \in 1..(b - a)
      BY <2>1
    <3>2. t[i] = p[i]
      BY <3>1, <1>1, <1>2, <1>3, <1>5
    <3> QED BY <3>1, <3>2, <1>2, <1>4
  <2>2. CASE ~(i <= b - a)
    <3>1. i - (b - a) \in 1..(c - b) /\ b + (i - (b - a)) = a + i
      BY <2>2
    <3>2. t[i] = q[i - (b - a)]
      BY <2>2, <1>1, <1>2, <1>3, <1>5
    <3> QED BY <3>1, <3>2, <1>3, <1>4
  <2> QED BY <2>1, <2>2
<1>7. t = r
  <2>1. Len(t) = Len(r)
    BY <1>1, <1>2, <1>3, <1>4, <1>5
  <2>2. \A i \in 1..Len(t) : t[i] = r[i]
    BY <2>1, <1>4, <1>6
  <2> QED BY <2>1, <2>2, <1>4, <1>5, SeqEqual
<1> QED BY <1>7 DEF t, p, q, r

\* A piece of it, from place i to place j.
Between(s, i, j) == SubSeq(s, i + 1, j)

\* A piece of a stretch is a stretch.
LEMMA StretchPiece ==
    ASSUME NEW n \in Conns, NEW a \in Nat, NEW b \in Nat, NEW i \in Nat, NEW j \in Nat,
           i <= j, a + j <= b
    PROVE  Between(Stretch(n, a, b), i, j) = Stretch(n, a + i, a + j)
<1> DEFINE r == Stretch(n, a, b)
           q == Stretch(n, a + i, a + j)
           m == i + 1
           t == SubSeq(r, m, j)
<1>1. r \in Seq(Counted) /\ Len(r) = b - a /\ \A k \in 1..(b - a) : r[k] = Flow(n)[a + k]
  <2>1. a <= b
    OBVIOUS
  <2> QED BY <2>1, StretchFacts
<1>2. q \in Seq(Counted) /\ Len(q) = j - i /\ \A k \in 1..(j - i) : q[k] = Flow(n)[(a + i) + k]
  <2> DEFINE x == a + i
             y == a + j
  <2>1. x \in Nat /\ y \in Nat /\ x <= y
    OBVIOUS
  <2>5. y - x = j - i
    OBVIOUS
  <2> HIDE DEF x, y, q
  <2>2. /\ Stretch(n, x, y) \in Seq(Counted) /\ Len(Stretch(n, x, y)) = y - x
        /\ \A k \in 1..(y - x) : Stretch(n, x, y)[k] = Flow(n)[x + k]
    BY <2>1, StretchFacts
  <2>3. q = Stretch(n, x, y)
    BY DEF x, y, q
  <2>4. \A k : Flow(n)[x + k] = Flow(n)[(a + i) + k]
    BY DEF x
  <2> QED BY <2>2, <2>3, <2>4, <2>5
<1>3. /\ m \in Int /\ j \in Int /\ j - m + 1 = j - i /\ (m <= j \/ j - i = 0)
      /\ \A k \in m..j : k \in 1..(b - a)
  OBVIOUS
<1>4. \A k \in 1..(j - i) : m + k - 1 \in 1..(b - a) /\ a + (m + k - 1) = (a + i) + k
  OBVIOUS
<1> HIDE DEF r, q, m
<1>5. \A k \in m..j : r[k] \in Counted
  <2>1. \A k \in 1..(b - a) : r[k] \in Counted
    BY <1>1, ElementOfSeq
  <2> QED BY <2>1, <1>3
<1>6. /\ t \in Seq(Counted) /\ Len(t) = (IF m <= j THEN j - m + 1 ELSE 0)
      /\ \A k \in 1..(j - m + 1) : t[k] = r[m + k - 1]
  BY <1>3, <1>5, SubSeqProperties
<1> HIDE DEF t
<1>7. Len(t) = Len(q)
  BY <1>2, <1>3, <1>6
<1>8. ASSUME NEW k \in 1..Len(t) PROVE t[k] = q[k]
  <2> DEFINE l == m + k - 1
  <2>1. t[k] = r[l] /\ l \in 1..(b - a) /\ a + l = (a + i) + k /\ k \in 1..(j - i)
    BY <1>2, <1>3, <1>4, <1>6, <1>7
  <2> HIDE DEF l
  <2> QED BY <2>1, <1>1, <1>2
<1>9. t = q
  BY <1>2, <1>6, <1>7, <1>8, SeqEqual
<1> QED BY <1>9 DEF t, r, q, m, Between

\* A text as Send queues it and as the peer sends it.
LEMMA TextFacts ==
    ASSUME NEW n \in Conns, NEW k \in Nat
    PROVE  /\ BytesOf(n, k) \in Seq(Bytes) /\ Len(BytesOf(n, k)) = TextLength
           /\ \A i \in 1..TextLength : BytesOf(n, k)[i] = <<n, k, i>>
           /\ BytesOf(n, k) = CliPart(n, k)
<1>1. \A i \in 1..TextLength : <<n, k, i>> \in Bytes
  BY DEF Bytes
<1>2. TextLength \in Nat
  BY TextEnds
<1> HIDE DEF Bytes
<1> DEFINE t == BytesOf(n, k)
<1>3. t = [i \in 1..TextLength |-> <<n, k, i>>]
  BY DEF BytesOf
<1> HIDE DEF t
<1>4. t \in Seq(Bytes) /\ Len(t) = TextLength
  BY <1>1, <1>2, <1>3
<1>5. \A i \in 1..TextLength : t[i] = <<n, k, i>>
  BY <1>3
<1>6. t = CliPart(n, k)
  BY <1>3 DEF CliPart, Part
<1> QED BY <1>4, <1>5, <1>6 DEF t

\* Between two ends there is a text.
LEMMA FlowText ==
    ASSUME NEW n \in Conns, NEW k \in Nat
    PROVE  Stretch(n, TextEnd(k), TextEnd(k) + TextLength) = BytesOf(n, k + 1)
<1> DEFINE e == TextEnd(k)
           s == Stretch(n, e, e + TextLength)
           t == BytesOf(n, k + 1)
<1>1. e \in Nat /\ TextLength \in Nat /\ e + TextLength \in Nat /\ (e + TextLength) - e = TextLength
  <2>1. e \in Nat /\ TextLength \in Nat
    BY TextEnds
  <2> HIDE DEF e
  <2> QED BY <2>1
<1>2. Flow(n) \in [Nat -> Counted]
  BY FlowIs
<1>3. \A i \in 1..TextLength : Flow(n)[e + i] = <<n, k + 1, i>>
  BY FlowAt
<1> HIDE DEF e
<1>4. s = [i \in 1..TextLength |-> Flow(n)[e + i]]
  BY <1>1 DEF Stretch
<1>5. t = [i \in 1..TextLength |-> <<n, k + 1, i>>]
  BY DEF BytesOf
<1>6. s = t
  <2> HIDE DEF s, t
  <2> QED BY <1>3, <1>4, <1>5
<1> QED BY <1>6 DEF e

\* The m texts behind the d-th one.
CliTexts(n, d, m) == [k \in 1..m |-> BytesOf(n, d + k)]

\* They are texts, in order.
LEMMA CliTextsFacts ==
    ASSUME NEW n \in Conns, NEW d \in Nat, NEW m \in Nat
    PROVE  /\ CliTexts(n, d, m) \in Seq(Seq(Bytes)) /\ Len(CliTexts(n, d, m)) = m
           /\ \A k \in 1..m : CliTexts(n, d, m)[k] = BytesOf(n, d + k)
<1> DEFINE S == Seq(Bytes)
<1>1. \A k \in 1..m : BytesOf(n, d + k) \in S
  <2> SUFFICES ASSUME NEW k \in 1..m PROVE BytesOf(n, d + k) \in S
    OBVIOUS
  <2> DEFINE e == d + k
  <2>1. e \in Nat
    OBVIOUS
  <2> HIDE DEF e
  <2> QED BY <2>1, TextFacts DEF e
<1> HIDE DEF S
<1>2. CliTexts(n, d, m) \in Seq(S) /\ Len(CliTexts(n, d, m)) = m
  BY <1>1 DEF CliTexts
<1>3. \A k \in 1..m : CliTexts(n, d, m)[k] = BytesOf(n, d + k)
  BY DEF CliTexts
<1> QED BY <1>2, <1>3 DEF S

\* One text more.
LEMMA CliTextsGrow ==
    ASSUME NEW n \in Conns, NEW d \in Nat, NEW m \in Nat
    PROVE  Append(CliTexts(n, d, m), BytesOf(n, (d + m) + 1)) = CliTexts(n, d, m + 1)
<1> DEFINE S == Seq(Bytes)
           s == CliTexts(n, d, m)
           x == BytesOf(n, (d + m) + 1)
           t == CliTexts(n, d, m + 1)
           u == Append(s, x)
<1>1. s \in Seq(S) /\ Len(s) = m /\ \A k \in 1..m : s[k] = BytesOf(n, d + k)
  BY CliTextsFacts
<1>2. t \in Seq(S) /\ Len(t) = m + 1 /\ \A k \in 1..(m + 1) : t[k] = BytesOf(n, d + k)
  <2> DEFINE e == m + 1
  <2>1. e \in Nat
    OBVIOUS
  <2> HIDE DEF e
  <2>2. /\ CliTexts(n, d, e) \in Seq(S) /\ Len(CliTexts(n, d, e)) = e
        /\ \A k \in 1..e : CliTexts(n, d, e)[k] = BytesOf(n, d + k)
    BY <2>1, CliTextsFacts
  <2> QED BY <2>2 DEF e
<1>3. x \in S
  <2> DEFINE e == (d + m) + 1
  <2>1. e \in Nat
    OBVIOUS
  <2> HIDE DEF e
  <2> QED BY <2>1, TextFacts DEF e
<1>4. x = BytesOf(n, d + (m + 1))
  <2>1. (d + m) + 1 = d + (m + 1)
    OBVIOUS
  <2> QED BY <2>1
<1> HIDE DEF S, s, x, t
<1>5. u \in Seq(S) /\ Len(u) = Len(s) + 1 /\ u[Len(s) + 1] = x /\ \A k \in 1..Len(s) : u[k] = s[k]
  BY <1>1, <1>3, AppendProperties
<1> HIDE DEF u
<1>6. ASSUME NEW k \in 1..(m + 1) PROVE u[k] = t[k]
  <2>1. k \in 1..m \/ k = m + 1
    OBVIOUS
  <2>2. CASE k \in 1..m
    BY <2>2, <1>1, <1>2, <1>5
  <2>3. CASE k = m + 1
    <3>1. t[m + 1] = BytesOf(n, d + (m + 1))
      BY <1>2
    <3> QED BY <3>1, <2>3, <1>1, <1>4, <1>5
  <2> QED BY <2>1, <2>2, <2>3
<1>7. u = t
  BY <1>1, <1>2, <1>5, <1>6, SeqEqual
<1> QED BY <1>7 DEF u, s, x, t

\* Two lists of texts, one behind the other.
LEMMA CliTextsJoin ==
    ASSUME NEW n \in Conns, NEW d \in Nat, NEW m \in Nat
    PROVE  CliTexts(n, 0, d) \o CliTexts(n, d, m) = CliTexts(n, 0, d + m)
<1> DEFINE S == Seq(Bytes)
           p == CliTexts(n, 0, d)
           q == CliTexts(n, d, m)
           e == d + m
           r == CliTexts(n, 0, e)
           t == p \o q
<1>0. 0 \in Nat /\ e \in Nat
  OBVIOUS
<1>1. p \in Seq(S) /\ Len(p) = d /\ \A k \in 1..d : p[k] = BytesOf(n, k)
  <2>1. \A k \in 1..d : p[k] = BytesOf(n, 0 + k)
    BY <1>0, CliTextsFacts
  <2>2. \A k \in 1..d : 0 + k = k
    OBVIOUS
  <2>3. p \in Seq(S) /\ Len(p) = d
    BY <1>0, CliTextsFacts
  <2> HIDE DEF p
  <2> QED BY <2>1, <2>2, <2>3
<1>2. q \in Seq(S) /\ Len(q) = m /\ \A k \in 1..m : q[k] = BytesOf(n, d + k)
  BY CliTextsFacts
<1>3. r \in Seq(S) /\ Len(r) = e /\ \A k \in 1..e : r[k] = BytesOf(n, k)
  <2> HIDE DEF e
  <2>1. \A k \in 1..e : r[k] = BytesOf(n, 0 + k)
    BY <1>0, CliTextsFacts
  <2>2. \A k \in 1..e : 0 + k = k
    OBVIOUS
  <2>3. r \in Seq(S) /\ Len(r) = e
    BY <1>0, CliTextsFacts
  <2> HIDE DEF r
  <2> QED BY <2>1, <2>2, <2>3
<1> HIDE DEF S, p, q, r
<1>5. /\ t \in Seq(S) /\ Len(t) = Len(p) + Len(q)
      /\ \A i \in 1..(Len(p) + Len(q)) : t[i] = IF i <= Len(p) THEN p[i] ELSE q[i - Len(p)]
  BY <1>1, <1>2, ConcatProperties
<1> HIDE DEF t
<1>6. ASSUME NEW i \in 1..e PROVE t[i] = r[i]
  <2>1. CASE i <= d
    BY <2>1, <1>1, <1>2, <1>3, <1>5
  <2>2. CASE ~(i <= d)
    <3>1. i - d \in 1..m /\ d + (i - d) = i
      BY <2>2
    <3>2. t[i] = q[i - d]
      BY <2>2, <1>1, <1>2, <1>5
    <3> QED BY <3>1, <3>2, <1>2, <1>3
  <2> QED BY <2>1, <2>2
<1>7. Len(t) = e
  BY <1>1, <1>2, <1>5
<1>8. t = r
  BY <1>3, <1>5, <1>6, <1>7, SeqEqual
<1> QED BY <1>8 DEF t, p, q, r, e

\* Byte j + 1 of a buffer that begins behind the d-th text is a byte of text m + 1 of the buffer.
LEMMA CliByte ==
    ASSUME NEW n \in Conns, NEW d \in Nat, NEW m \in Nat, NEW j \in Nat, NEW t \in Nat,
           TextEnd(m) <= j, j < TextEnd(m + 1), TextEnd(d) + (j + 1) <= t
    PROVE  /\ (j + 1) - TextEnd(m) \in 1..TextLength
           /\ Stretch(n, TextEnd(d), t)[j + 1] = <<n, (d + m) + 1, (j + 1) - TextEnd(m)>>
<1> DEFINE a == TextEnd(d)
           e == TextEnd(m)
           k == d + m
           i == (j + 1) - e
           y == TextEnd(k) + i
           s == Stretch(n, a, t)
<1>1. a \in Nat /\ e \in Nat /\ k \in Nat /\ TextLength \in Nat
  BY TextEnds
<1>2. TextEnd(m + 1) = e + TextLength /\ TextEnd(k) = a + e
  BY TextEnds
<1>3. i \in 1..TextLength
  <2>1. e <= j /\ j < e + TextLength
    BY <1>2
  <2> HIDE DEF e
  <2> QED BY <1>1, <2>1
<1>4. Flow(n)[y] = <<n, k + 1, i>>
  <2> HIDE DEF i, k
  <2> QED BY <1>1, <1>3, FlowAt
<1>5. a + (j + 1) = y
  <2> HIDE DEF a, e, k
  <2> QED BY <1>1, <1>2
<1>6. j + 1 \in 1..(t - a) /\ a <= t
  <2>1. a + (j + 1) <= t
    OBVIOUS
  <2> HIDE DEF a
  <2> QED BY <1>1, <2>1
<1> HIDE DEF a, y
<1>7. s[j + 1] = Flow(n)[a + (j + 1)]
  BY <1>6 DEF Stretch
<1> QED BY <1>3, <1>4, <1>5, <1>7 DEF a

\* GetStringLen came to byte j of a buffer that begins behind text d of connection n:
\* it has cut m texts, and no other ends there.
CliCut(n, d, j, r, m) ==
    /\ r.texts = CliTexts(n, d, m) /\ r.end = TextEnd(m)
    /\ TextEnd(m) <= j /\ j < TextEnd(m + 1)

\* A byte that ends no text changes nothing.
LEMMA CliCutSkip ==
    ASSUME NEW n \in Conns, NEW d \in Nat, NEW m \in Nat, NEW j \in Nat, NEW t \in Nat, NEW r,
           TextEnd(d) + (j + 1) <= t, CliCut(n, d, j, r, m),
           Stretch(n, TextEnd(d), t)[j + 1][3] # TextLength
    PROVE  CliCut(n, d, j + 1, r, m)
<1> DEFINE i == (j + 1) - TextEnd(m)
           b == Stretch(n, TextEnd(d), t)[j + 1]
<1>1. TextEnd(m) <= j /\ j < TextEnd(m + 1)
  BY DEF CliCut
<1>2. i \in 1..TextLength /\ b = <<n, (d + m) + 1, i>>
  BY <1>1, CliByte
<1>3. i # TextLength
  <2> HIDE DEF i
  <2> QED BY <1>2
<1>4. TextEnd(m) \in Nat /\ TextEnd(m + 1) = TextEnd(m) + TextLength /\ TextLength \in Nat
  BY TextEnds
<1>5. TextEnd(m) <= j + 1 /\ j + 1 < TextEnd(m + 1)
  <2> DEFINE e == TextEnd(m)
             f == TextEnd(m + 1)
  <2>1. e \in Nat /\ f = e + TextLength /\ (j + 1) - e \in 1..TextLength /\ (j + 1) - e # TextLength
    BY <1>2, <1>3, <1>4
  <2> HIDE DEF e, f
  <2>2. e <= j + 1 /\ j + 1 < f
    BY <2>1, <1>4
  <2> QED BY <2>2 DEF e, f
<1> QED BY <1>5 DEF CliCut

\* A byte that ends a text, ends the next one.
LEMMA CliCutOne ==
    ASSUME NEW n \in Conns, NEW d \in Nat, NEW m \in Nat, NEW j \in Nat, NEW t \in Nat, NEW r,
           NEW b, b = Stretch(n, TextEnd(d), t),
           TextEnd(d) + (j + 1) <= t, CliCut(n, d, j, r, m), b[j + 1][3] = TextLength
    PROVE  CliCut(n, d, j + 1,
                  [texts |-> Append(r.texts, SubSeq(b, r.end + 1, j + 1)), end |-> j + 1], m + 1)
<1> DEFINE i == (j + 1) - TextEnd(m)
           e == TextEnd(m)
           a == TextEnd(d)
           f == TextEnd(m + 1)
           k == d + m
<1>1. r.texts = CliTexts(n, d, m) /\ r.end = e /\ e <= j /\ j < f
  BY DEF CliCut
<1>2. i \in 1..TextLength /\ b[j + 1] = <<n, (d + m) + 1, i>>
  BY <1>1, CliByte
<1>3. i = TextLength
  <2> HIDE DEF i
  <2> QED BY <1>2
<1>4. /\ e \in Nat /\ f = e + TextLength /\ TextLength \in Nat \ {0}
      /\ a \in Nat /\ TextEnd(k) = a + e
      /\ k \in Nat
  <2>1. e \in Nat /\ f = e + TextLength /\ TextLength \in Nat \ {0} /\ a \in Nat
    BY TextEnds
  <2>2. TextEnd(k) = a + e /\ k \in Nat
    BY TextEnds
  <2> HIDE DEF e, f, a, k
  <2> QED BY <2>1, <2>2
<1>5. f \in Nat /\ j + 1 = f /\ TextEnd((m + 1) + 1) = f + TextLength
  <2>1. TextEnd((m + 1) + 1) = f + TextLength
    <3> DEFINE l == m + 1
    <3>1. l \in Nat
      OBVIOUS
    <3> HIDE DEF l
    <3>2. TextEnd(l + 1) = TextEnd(l) + TextLength
      BY <3>1, TextEnds
    <3> QED BY <3>2 DEF l
  <2>2. (j + 1) - e = TextLength
    BY <1>3
  <2> HIDE DEF e, f
  <2> QED BY <2>1, <2>2, <1>4
<1>6. SubSeq(b, e + 1, f) = BytesOf(n, k + 1)
  <2> DEFINE g == TextEnd(k)
  <2>1. Stretch(n, g, g + TextLength) = BytesOf(n, k + 1)
    <3> HIDE DEF k
    <3> QED BY <1>4, FlowText
  <2>2. b = Stretch(n, a, t)
    OBVIOUS
  <2>3. g = a + e /\ g + TextLength = a + f
    <3>1. g = a + e
      BY <1>4
    <3> HIDE DEF g, a, e, f
    <3> QED BY <3>1, <1>4
  <2>4. a + (j + 1) <= t
    OBVIOUS
  <2> HIDE DEF a, e, f, g, k
  <2>5. a \in Nat /\ e \in Nat /\ f \in Nat /\ e <= f /\ a + f <= t
    BY <2>4, <1>4, <1>5
  <2>6. Between(Stretch(n, a, t), e, f) = Stretch(n, a + e, a + f)
    BY <2>5, StretchPiece
  <2> QED BY <2>1, <2>2, <2>3, <2>6 DEF Between
<1>7. Append(r.texts, SubSeq(b, r.end + 1, j + 1)) = CliTexts(n, d, m + 1)
  <2>1. Append(CliTexts(n, d, m), BytesOf(n, (d + m) + 1)) = CliTexts(n, d, m + 1)
    BY CliTextsGrow
  <2>2. SubSeq(b, r.end + 1, j + 1) = BytesOf(n, (d + m) + 1)
    <3> HIDE DEF e, f
    <3> QED BY <1>1, <1>5, <1>6
  <2> QED BY <2>1, <2>2, <1>1
<1> DEFINE z == [texts |-> Append(r.texts, SubSeq(b, r.end + 1, j + 1)), end |-> j + 1]
<1>8. z.texts = CliTexts(n, d, m + 1) /\ z.end = f
  BY <1>5, <1>7
<1>9. f <= j + 1 /\ j + 1 < TextEnd((m + 1) + 1)
  <2> HIDE DEF f
  <2> QED BY <1>4, <1>5
<1> HIDE DEF z
<1>10. CliCut(n, d, j + 1, z, m + 1)
  BY <1>8, <1>9 DEF CliCut
<1> QED BY <1>10 DEF z

\* GetStringLen cuts the texts that are complete, and no others.
LEMMA CliCuts ==
    ASSUME NEW n \in Conns, NEW d \in Nat, NEW t \in Nat, TextEnd(d) <= t,
           NEW b, b = Stretch(n, TextEnd(d), t)
    PROVE  \E m \in Nat : CliCut(n, d, t - TextEnd(d), GetStringLen(b), m)
<1> DEFINE a == TextEnd(d)
           l == t - a
           T == Counted
           S == [texts : Seq(Seq(T)), end : Nat]
           z == [texts |-> <<>>, end |-> 0]
           more(i, r) == [texts |-> Append(r.texts, SubSeq(b, r.end + 1, i)), end |-> i]
           g == [q \in (1..l) \X S |-> IF b[q[1]][3] # TextLength THEN q[2] ELSE more(q[1], q[2])]
           cut == CHOOSE cut : cut = [i \in 0..Len(b) |->
                      IF i = 0 THEN [texts |-> <<>>, end |-> 0]
                      ELSE IF b[i][3] # TextLength THEN cut[i - 1]
                      ELSE [texts |-> Append(cut[i - 1].texts, SubSeq(b, cut[i - 1].end + 1, i)),
                            end   |-> i]]
<1>1. a \in Nat /\ l \in Nat
  <2>1. a \in Nat
    BY TextEnds
  <2> QED BY <2>1
<1>0. z \in S
  OBVIOUS
<1>2. b \in Seq(T) /\ Len(b) = l /\ \A i \in 1..l : b[i] \in T
  <2>1. a <= t /\ b = Stretch(n, a, t)
    OBVIOUS
  <2> HIDE DEF a, T
  <2>2. Stretch(n, a, t) \in Seq(Counted) /\ Len(Stretch(n, a, t)) = t - a
    BY <1>1, <2>1, StretchFacts
  <2>3. b \in Seq(T) /\ Len(b) = l
    BY <2>1, <2>2 DEF T
  <2> QED BY <2>3, ElementOfSeq
<1>3. GetStringLen(b) = cut[l]
  <2>1. GetStringLen(b) = cut[Len(b)]
    BY DEF GetStringLen
  <2> HIDE DEF cut
  <2> QED BY <2>1, <1>2
<1> HIDE DEF a, l, T
<1>4. ASSUME NEW i \in 1..l, NEW r \in S PROVE more(i, r) \in S
  <2>1. r.end \in Nat /\ r.texts \in Seq(Seq(T))
    OBVIOUS
  <2> DEFINE x == r.end + 1
             u == SubSeq(b, x, i)
             U == Seq(T)
  <2>2. x \in Int /\ i \in Int /\ x >= 1
    BY <2>1
  <2>3. \A j \in x..i : b[j] \in T
    BY <1>1, <1>2, <2>2
  <2> HIDE DEF x
  <2>4. u \in U
    BY <2>2, <2>3, SubSeqProperties
  <2>5. r.texts \in Seq(U)
    BY <2>1
  <2> HIDE DEF u, U
  <2>6. Append(r.texts, u) \in Seq(U)
    BY <2>4, <2>5, AppendProperties
  <2> QED BY <2>6 DEF x, u, U
<1>5. g \in [(1..l) \X S -> S]
  <2> SUFFICES ASSUME NEW q \in (1..l) \X S
               PROVE  (IF b[q[1]][3] # TextLength THEN q[2] ELSE more(q[1], q[2])) \in S
    OBVIOUS
  <2> DEFINE i == q[1]
             r == q[2]
  <2>1. i \in 1..l /\ r \in S
    OBVIOUS
  <2> HIDE DEF i, r, S
  <2>2. more(i, r) \in S
    BY <2>1, <1>4
  <2> HIDE DEF more
  <2> QED BY <2>1, <2>2 DEF i, r
<1>6. PICK f \in [0..l -> S] : Recurses(f, z, g, l)
  <2> HIDE DEF S, z, g
  <2> QED BY <1>0, <1>1, <1>5, RecursionExists
<1>7. \A i \in 0..l : f[i] = IF i = 0 THEN z ELSE IF b[i][3] # TextLength THEN f[i - 1]
                             ELSE more(i, f[i - 1])
  <2> SUFFICES ASSUME NEW i \in 0..l
               PROVE  f[i] = IF i = 0 THEN z ELSE IF b[i][3] # TextLength THEN f[i - 1]
                             ELSE more(i, f[i - 1])
    OBVIOUS
  <2>1. f[i] = IF i = 0 THEN z ELSE g[<<i, f[i - 1]>>]
    <3> HIDE DEF z, g, S
    <3> QED BY <1>6 DEF Recurses
  <2>2. CASE i = 0
    BY <2>1, <2>2
  <2>3. CASE i \in 1..l
    <3> HIDE DEF S, more
    <3>0. i - 1 \in 0..l /\ i # 0
      BY <2>3, <1>1
    <3>1. f[i - 1] \in S /\ i # 0
      BY <3>0
    <3>2. <<i, f[i - 1]>> \in (1..l) \X S
      BY <3>1, <2>3
    <3>3. g[<<i, f[i - 1]>>] = IF b[i][3] # TextLength THEN f[i - 1] ELSE more(i, f[i - 1])
      BY <3>2
    <3> HIDE DEF g, z
    <3> QED BY <2>1, <3>1, <3>3
  <2>4. i = 0 \/ i \in 1..l
    BY <1>1
  <2> QED BY <2>2, <2>3, <2>4
<1>8. \E h : h = [i \in 0..Len(b) |->
                      IF i = 0 THEN [texts |-> <<>>, end |-> 0]
                      ELSE IF b[i][3] # TextLength THEN h[i - 1]
                      ELSE [texts |-> Append(h[i - 1].texts, SubSeq(b, h[i - 1].end + 1, i)),
                            end   |-> i]]
  <2>1. f = [i \in 0..Len(b) |-> f[i]]
    BY <1>2
  <2>2. f = [i \in 0..Len(b) |->
                      IF i = 0 THEN [texts |-> <<>>, end |-> 0]
                      ELSE IF b[i][3] # TextLength THEN f[i - 1]
                      ELSE [texts |-> Append(f[i - 1].texts, SubSeq(b, f[i - 1].end + 1, i)),
                            end   |-> i]]
    BY <2>1, <1>2, <1>7
  <2> QED BY <2>2
<1>9. /\ cut[0] = z
      /\ \A i \in 1..l : cut[i] = IF b[i][3] # TextLength THEN cut[i - 1] ELSE more(i, cut[i - 1])
  <2>1. cut = [i \in 0..Len(b) |->
                      IF i = 0 THEN [texts |-> <<>>, end |-> 0]
                      ELSE IF b[i][3] # TextLength THEN cut[i - 1]
                      ELSE [texts |-> Append(cut[i - 1].texts, SubSeq(b, cut[i - 1].end + 1, i)),
                            end   |-> i]]
    BY <1>8, ZenonT(40)
  <2> HIDE DEF cut
  <2>2. \A i \in 0..l : cut[i] = IF i = 0 THEN z ELSE IF b[i][3] # TextLength THEN cut[i - 1]
                                 ELSE more(i, cut[i - 1])
    BY <2>1, <1>2, Zenon
  <2>3. 0 \in 0..l /\ \A i \in 1..l : i \in 0..l /\ i # 0
    BY <1>1
  <2> HIDE DEF z, more
  <2> QED BY <2>2, <2>3, SMTT(40)
<1> HIDE DEF cut, z
<1> DEFINE Q(i) == \E m \in Nat : CliCut(n, d, i, cut[i], m)
           N == {i \in Nat : i <= l => Q(i)}
<1>10. 0 \in N
  <2>1. CliTexts(n, d, 0) = <<>>
    <3>1. 0 \in Nat
      OBVIOUS
    <3>2. CliTexts(n, d, 0) \in Seq(Seq(Bytes)) /\ Len(CliTexts(n, d, 0)) = 0
      BY <3>1, CliTextsFacts
    <3> QED BY <3>2
  <2>2. TextEnd(0) = 0 /\ TextEnd(0 + 1) = TextEnd(0) + TextLength /\ TextLength \in Nat \ {0}
    BY TextEnds
  <2>3. TextEnd(0) <= 0 /\ 0 < TextEnd(0 + 1)
    BY <2>2
  <2>4. cut[0].texts = <<>> /\ cut[0].end = 0
    BY <1>9 DEF z
  <2>5. CliCut(n, d, 0, cut[0], 0)
    BY <2>1, <2>2, <2>3, <2>4 DEF CliCut
  <2> QED BY <2>5
<1>11. ASSUME NEW i \in Nat, i \in N PROVE i + 1 \in N
  <2> SUFFICES ASSUME i + 1 <= l PROVE Q(i + 1)
    OBVIOUS
  <2>1. Q(i)
    BY <1>1, <1>11
  <2>2. PICK m \in Nat : CliCut(n, d, i, cut[i], m)
    BY <2>1
  <2>3. i + 1 \in 1..l /\ (i + 1) - 1 = i
    OBVIOUS
  <2>4. TextEnd(d) + (i + 1) <= t
    <3>1. i + 1 <= t - a
      BY DEF l
    <3>2. a + (i + 1) <= t
      BY <3>1, <1>1
    <3> QED BY <3>2 DEF a
  <2>5. CASE b[i + 1][3] # TextLength
    <3>1. CliCut(n, d, i + 1, cut[i], m)
      BY <2>2, <2>4, <2>5, CliCutSkip
    <3>2. cut[i + 1] = cut[i]
      BY <2>3, <2>5, <1>9
    <3> QED BY <3>1, <3>2
  <2>6. CASE b[i + 1][3] = TextLength
    <3>1. CliCut(n, d, i + 1, more(i + 1, cut[i]), m + 1)
      BY <2>2, <2>4, <2>6, CliCutOne
    <3>2. cut[i + 1] = more(i + 1, cut[i])
      BY <2>3, <2>6, <1>9
    <3> HIDE DEF more
    <3> QED BY <3>1, <3>2
  <2> QED BY <2>5, <2>6
<1>12. Nat \subseteq N
  <2> HIDE DEF N
  <2> QED BY <1>10, <1>11, Induction
<1>13. Q(l)
  <2> HIDE DEF Q
  <2> QED BY <1>1, <1>12
<1> QED BY <1>3, <1>13 DEF l, a

\* Nothing was opened.
LEMMA CliInit == Init => CliInv
<1> SUFFICES ASSUME Init PROVE CliInv
  OBVIOUS
<1> USE DEF Init, NoSocket, NoReader
<1>0. TextLength \in Nat \ {0} /\ TextEnd(0) = 0 /\ MaxConnects \in Nat
  BY TextEnds, BoundsAssumption
<1>1. /\ accepted = [n \in Conns |-> 0] /\ peerSent = [n \in Conns |-> 0]
      /\ wire = [n \in Conns |-> <<>>] /\ inbox = [n \in Conns |-> <<>>]
      /\ delivered = [n \in Conns |-> <<>>] /\ net = [n \in Conns |-> "none"]
  OBVIOUS
<1>2. CliTypes
  <2>1. reader \in [of : Nat, text : Nat, position : 0..(TextLength - 1)]
    BY <1>0
  <2>2. fds \in SUBSET {"except", "read", "write"}
    OBVIOUS
  <2>3. queue \in Seq(Conns \X Nat) /\ received \in Seq(Bytes)
    OBVIOUS
  <2>4. /\ accepted \in [Conns -> Nat] /\ peerSent \in [Conns -> Nat]
        /\ wire \in [Conns -> Seq(Bytes)] /\ inbox \in [Conns -> Seq(Bytes)]
        /\ delivered \in [Conns -> Seq(Seq(Bytes))]
        /\ net \in [Conns -> {"none", "fresh", "connecting", "refused", "up", "closed", "reset",
                              "gone"}]
    <3> HIDE DEF Init
    <3> QED BY <1>1
  <2>5. /\ socket \in 0..MaxConnects /\ used \in 0..MaxConnects
        /\ isConnected \in BOOLEAN /\ wouldBlock \in BOOLEAN /\ connecting \in BOOLEAN
        /\ pc \in {"select", "lock", "send", "read", "close", "clear", "exited"}
        /\ owner \in {"none", "waits", "waited", "gone"}
    <3>1. socket \in 0..MaxConnects /\ used \in 0..MaxConnects
      BY <1>0
    <3>2. isConnected \in BOOLEAN /\ wouldBlock \in BOOLEAN /\ connecting \in BOOLEAN
      OBVIOUS
    <3>3. /\ pc \in {"select", "lock", "send", "read", "close", "clear", "exited"}
          /\ owner \in {"none", "waits", "waited", "gone"}
      OBVIOUS
    <3> QED BY <3>1, <3>2, <3>3
  <2> HIDE DEF Init
  <2> QED BY <2>1, <2>2, <2>3, <2>4, <2>5 DEF CliTypes
<1>3. CliLife
  BY DEF CliLife
<1>4. ASSUME NEW n \in Conns PROVE CliOne(n)
  <2>1. CliDone(n) = 0 /\ socket # n /\ n \in Nat
    BY <1>0, <1>1 DEF CliDone, Conns
  <2>2. CliOut(n, 0) = <<>>
    BY <1>0, <2>1, OutGrows DEF CliOut
  <2>3. IsPrefix(<<>>, <<>>)
    BY DEF IsPrefix
  <2>4. CliBlank(n)
    BY <1>1 DEF CliBlank
  <2>5. CliDone(n) <= peerSent[n] /\ \A k \in 1..CliDone(n) : delivered[n][k] = BytesOf(n, k)
    BY <1>1, <2>1
  <2>6. IsPrefix(wire[n], CliOut(n, accepted[n]))
    BY <1>1, <2>2, <2>3
  <2> QED BY <2>1, <2>4, <2>5, <2>6 DEF CliOne
<1> QED BY <1>2, <1>3, <1>4 DEF CliInv

\* What is on the way on a connection that a step leaves alone.
CliTraffic(n) ==
    /\ accepted'[n] = accepted[n] /\ wire'[n] = wire[n] /\ inbox'[n] = inbox[n]
    /\ peerSent'[n] = peerSent[n] /\ delivered'[n] = delivered[n]

\* The buffers of the connection are the same again.
LEMMA CliBuffersStay ==
    ASSUME NEW n, CliTraffic(n)
    PROVE  /\ CliSends(n) /\ UNCHANGED <<queue, reader>> => CliSends(n)'
           /\ CliReceives(n) /\ UNCHANGED received => CliReceives(n)'
           /\ CliFresh(n) => CliFresh(n)'
<1>1. ASSUME CliSends(n), UNCHANGED <<queue, reader>> PROVE CliSends(n)'
  BY <1>1 DEF CliTraffic, CliSends, CliTaken
<1>2. ASSUME CliReceives(n), UNCHANGED received PROVE CliReceives(n)'
  <2>1. CliDone(n)' = CliDone(n)
    BY DEF CliTraffic, CliDone
  <2>2. CliHere(n)' = CliHere(n)
    BY <1>2, <2>1 DEF CliHere
  <2> QED BY <1>2, <2>1, <2>2 DEF CliTraffic, CliReceives
<1>3. ASSUME CliFresh(n) PROVE CliFresh(n)'
  BY <1>3 DEF CliTraffic, CliFresh
<1> QED BY <1>1, <1>2, <1>3

\* And so is all that is known of it.
LEMMA CliOneStays ==
    ASSUME NEW n \in Conns, CliOne(n), CliTraffic(n),
           n > used' => n > used /\ net'[n] = net[n],
           socket' = n /\ pc' = "clear" => CliFresh(n)',
           socket' = n /\ pc' \notin {"clear", "exited"} => CliSends(n)' /\ CliReceives(n)'
    PROVE  CliOne(n)'
<1>1. CliDone(n)' = CliDone(n)
  BY DEF CliTraffic, CliDone
<1>2. CliBlank(n)'
  BY DEF CliOne, CliBlank, CliTraffic
<1>3. IsPrefix(wire'[n], CliOut(n, accepted'[n]))
  BY DEF CliOne, CliTraffic
<1>4. CliDone(n)' <= peerSent'[n] /\ \A k \in 1..CliDone(n)' : delivered'[n][k] = BytesOf(n, k)
  BY <1>1 DEF CliOne, CliTraffic
<1> QED BY <1>2, <1>3, <1>4 DEF CliOne

\* The steps that concern neither the socket nor bytes.
CliQuietStep ==
    \/ (\E r \in SUBSET {"except", "read", "write"} : Select(r))
    \/ ProcessException \/ ProcessWritable \/ SendNothing \/ SendFails \/ ReadSkipped
    \/ ReceiveIgnored \/ ReceiveFails \/ EndConnect \/ RaiseShutdown \/ EndThread
    \/ (\E n \in Conns : Network(n)) \/ (CloseAtEnd /\ ~isConnected) \/ UNCHANGED vars

\* They keep the invariant.
LEMMA CliQuietKeeps == ASSUME CliInv, CliQuietStep PROVE CliInv'
<1>1. CliTypes /\ CliLife /\ \A n \in Conns : CliOne(n)
  BY DEF CliInv
<1> USE DEF link, buffers, application, peer, vars, At, NoSocket
<1>2. UNCHANGED <<socket, queue, reader, received, used, accepted, wire, inbox,
                  peerSent, delivered>>
  BY DEF CliQuietStep, Select, ProcessException, ProcessWritable, SendNothing, SendFails,
         ReadSkipped, ReceiveIgnored, ReceiveFails, EndConnect, RaiseShutdown, EndThread, Network,
         Move, CloseAtEnd
<1> DEFINE Nets == {"none", "fresh", "connecting", "refused", "up", "closed", "reset", "gone"}
           Pcs == {"select", "lock", "send", "read", "close", "clear", "exited"}
           Good == /\ isConnected' \in BOOLEAN /\ wouldBlock' \in BOOLEAN /\ connecting' \in BOOLEAN
                   /\ pc' \in Pcs /\ fds' \in SUBSET {"except", "read", "write"}
                   /\ owner' \in {"none", "waits", "waited", "gone"} /\ net' \in [Conns -> Nets]
                   /\ (pc' \in {"lock", "send", "close"} => socket # 0)
                   /\ (owner' \in {"waited", "gone"} <=> pc' = "exited")
                   /\ (pc' = "clear" => pc = "clear")
                   /\ (pc' \notin {"clear", "exited"} => pc \notin {"clear", "exited"})
                   /\ \A n \in Conns : n > used => net'[n] = net[n]
<1>3. Good
  <2>0. /\ isConnected \in BOOLEAN /\ wouldBlock \in BOOLEAN /\ connecting \in BOOLEAN
        /\ pc \in Pcs /\ fds \in SUBSET {"except", "read", "write"}
        /\ owner \in {"none", "waits", "waited", "gone"} /\ net \in [Conns -> Nets]
        /\ (pc \in {"lock", "send", "close"} => socket # 0)
        /\ (owner \in {"waited", "gone"} <=> pc = "exited")
    BY <1>1 DEF CliTypes, CliLife
  <2>1. CASE \E r \in SUBSET {"except", "read", "write"} : Select(r)
    BY <2>0, <2>1 DEF Select
  <2>2. CASE ProcessException
    BY <2>0, <2>2 DEF ProcessException
  <2>3. CASE ProcessWritable
    BY <2>0, <2>3 DEF ProcessWritable
  <2>4. CASE SendNothing
    BY <2>0, <2>4 DEF SendNothing
  <2>5. CASE SendFails
    BY <2>0, <2>5 DEF SendFails
  <2>6. CASE ReadSkipped
    BY <2>0, <2>6 DEF ReadSkipped
  <2>7. CASE ReceiveIgnored
    BY <2>0, <2>7 DEF ReceiveIgnored
  <2>8. CASE ReceiveFails
    BY <2>0, <2>8 DEF ReceiveFails, Readable
  <2>9. CASE EndConnect
    <3>1. net' \in [Conns -> Nets] /\ \A n \in Conns : n > used => net'[n] = net[n]
      <4>1. net' = net \/ net' = [net EXCEPT ![socket] = "connecting"]
        BY <2>9 DEF EndConnect, AsyncConnect
      <4>2. \A n \in Conns : n > used => n # socket
        BY <1>1 DEF CliTypes, CliLife, Conns
      <4> QED BY <2>0, <4>1, <4>2
    <3> QED BY <2>0, <2>9, <3>1 DEF EndConnect
  <2>10. CASE RaiseShutdown
    BY <2>0, <2>10 DEF RaiseShutdown
  <2>11. CASE EndThread
    BY <2>0, <2>11 DEF EndThread
  <2>12. CASE \E n \in Conns : Network(n)
    <3>1. PICK n \in Conns : Network(n)
      BY <2>12
    <3>2. net[n] # "none" /\ \E x \in Nets : net' = [net EXCEPT ![n] = x]
      BY <3>1 DEF Network, Move
    <3>3. UNCHANGED <<isConnected, wouldBlock, connecting, pc, fds, owner>>
      BY <3>1 DEF Network, Move
    <3>4. \A m \in Conns : m > used => net[m] = "none"
      BY <1>1 DEF CliOne, CliBlank
    <3>5. net' \in [Conns -> Nets] /\ \A m \in Conns : m > used => net'[m] = net[m]
      BY <2>0, <3>2, <3>4
    <3> QED BY <2>0, <3>3, <3>5
  <2>13. CASE CloseAtEnd /\ ~isConnected
    BY <2>0, <2>13 DEF CloseAtEnd
  <2>14. CASE UNCHANGED vars
    BY <2>0, <2>14
  <2> HIDE DEF Good
  <2> QED BY <2>1, <2>2, <2>3, <2>4, <2>5, <2>6, <2>7, <2>8, <2>9, <2>10, <2>11, <2>12, <2>13,
             <2>14 DEF CliQuietStep
<1>4. CliTypes'
  BY <1>1, <1>2, <1>3 DEF CliTypes
<1>5. CliLife'
  BY <1>1, <1>2, <1>3 DEF CliLife
<1>6. ASSUME NEW n \in Conns PROVE CliOne(n)'
  <2>1. CliTraffic(n) /\ CliOne(n)
    BY <1>1, <1>2 DEF CliTraffic
  <2>2. socket' = n /\ pc' = "clear" => CliFresh(n)'
    BY <1>2, <1>3, <2>1, CliBuffersStay DEF CliOne
  <2>3. socket' = n /\ pc' \notin {"clear", "exited"} => CliSends(n)' /\ CliReceives(n)'
    BY <1>2, <1>3, <2>1, CliBuffersStay DEF CliOne
  <2>4. n > used' => n > used /\ net'[n] = net[n]
    BY <1>2, <1>3
  <2> QED BY <2>1, <2>2, <2>3, <2>4, CliOneStays
<1> QED BY <1>4, <1>5, <1>6 DEF CliInv

\* A connection with empty buffers, of which nothing was received or sent yet.
LEMMA CliBegins ==
    ASSUME NEW n \in Conns, CliFresh(n)', queue' = <<>>, reader' = NoReader, received' = <<>>,
           peerSent'[n] \in Nat
    PROVE  CliSends(n)' /\ CliReceives(n)'
<1>1. n \in Nat /\ TextLength \in Nat \ {0} /\ TextEnd(0) = 0 /\ TextEnd(peerSent'[n]) \in Nat
  <2>1. n \in Nat
    BY BoundsAssumption DEF Conns
  <2>2. TextLength \in Nat \ {0} /\ TextEnd(0) = 0
    BY TextEnds
  <2>3. TextEnd(peerSent'[n]) \in Nat
    BY TextEnds
  <2> QED BY <2>1, <2>2, <2>3
<1>2. /\ accepted'[n] = 0 /\ wire'[n] = <<>> /\ delivered'[n] = <<>>
      /\ inbox'[n] = Stretch(n, 0, TextEnd(peerSent'[n]))
  BY DEF CliFresh
<1>3. CliTaken(n)' = 0 /\ CliDone(n)' = 0 /\ Len(queue') = 0
  <2>1. Len(<<>>) = 0 /\ 0 - 0 = 0
    OBVIOUS
  <2>2. CliTaken(n)' = 0 - Len(<<>>)
    BY <1>2 DEF CliTaken
  <2>3. CliDone(n)' = Len(<<>>)
    BY <1>2 DEF CliDone
  <2> QED BY <2>1, <2>2, <2>3
<1>4. CliHere(n)' = 0
  <2>1. CliHere(n)' = TextEnd(0) + Len(<<>>)
    BY <1>3 DEF CliHere
  <2> QED BY <2>1, <1>1
<1>5. CliOut(n, 0) = <<>> /\ Stretch(n, 0, 0) = <<>>
  <2>1. CliOut(n, 0) = <<>>
    BY <1>1, OutGrows DEF CliOut
  <2>2. Stretch(n, 0, 0) = <<>>
    BY StretchEmpty
  <2> QED BY <2>1, <2>2
<1>6. CliSends(n)'
  BY <1>2, <1>3, <1>5 DEF CliSends
<1>7. CliReceives(n)'
  BY <1>1, <1>2, <1>3, <1>4, <1>5 DEF CliReceives
<1> QED BY <1>6, <1>7

\* Connect gets a socket: for an empty client, or between the two steps of CloseConnect.
LEMMA CliConnects == ASSUME CliInv, BeginConnect PROVE CliInv'
<1> DEFINE c == used + 1
<1>1. CliTypes /\ CliLife /\ \A n \in Conns : CliOne(n)
  BY DEF CliInv
<1>2. /\ socket = 0 /\ used < MaxConnects /\ used' = c /\ socket' = c /\ connecting' = TRUE
      /\ net' = [net EXCEPT ![c] = "fresh"] /\ owner = "none"
      /\ UNCHANGED <<isConnected, queue, reader, received, pc, fds, wouldBlock, owner, accepted,
                     wire, inbox, peerSent, delivered>>
  BY DEF BeginConnect, GetSockets, NoSocket, buffers, peer
<1>3. /\ MaxConnects \in Nat /\ used \in Nat /\ c \in Conns /\ c \in Nat /\ c # 0
      /\ c \in 0..MaxConnects /\ c > used
  BY <1>1, <1>2, BoundsAssumption DEF CliTypes, Conns
<1>4. CliTypes'
  BY <1>1, <1>2, <1>3 DEF CliTypes
<1>5. CliLife'
  BY <1>1, <1>2, <1>3 DEF CliLife, NoSocket
<1>6. ASSUME NEW n \in Conns PROVE CliOne(n)'
  <2>1. CliTraffic(n) /\ CliOne(n) /\ n \in Nat
    BY <1>1, <1>2 DEF CliTraffic, Conns
  <2>2. n = c => CliFresh(n)'
    <3> SUFFICES ASSUME n = c PROVE CliFresh(n)'
      OBVIOUS
    <3>1. /\ accepted[n] = 0 /\ wire[n] = <<>> /\ inbox[n] = <<>> /\ peerSent[n] = 0
          /\ delivered[n] = <<>>
      BY <1>3, <2>1 DEF CliOne, CliBlank
    <3>2. Stretch(n, 0, TextEnd(0)) = <<>>
      BY StretchEmpty, TextEnds
    <3> QED BY <1>2, <3>1, <3>2 DEF CliFresh
  <2>3. socket' = n /\ pc' \notin {"clear", "exited"} => CliSends(n)' /\ CliReceives(n)'
    <3> SUFFICES ASSUME n = c, pc \notin {"clear", "exited"} PROVE CliSends(n)' /\ CliReceives(n)'
      BY <1>2
    <3>1. queue' = <<>> /\ reader' = NoReader /\ received' = <<>>
      BY <1>1, <1>2 DEF CliLife, NoSocket
    <3>2. peerSent'[n] \in Nat
      BY <1>1, <1>2 DEF CliTypes
    <3> QED BY <2>2, <3>1, <3>2, CliBegins
  <2>4. n > used' => n > used /\ net'[n] = net[n]
    BY <1>1, <1>2, <1>3, <2>1 DEF CliTypes
  <2>5. socket' = n /\ pc' = "clear" => CliFresh(n)'
    BY <1>2, <2>2
  <2> QED BY <2>1, <2>3, <2>4, <2>5, CliOneStays
<1> QED BY <1>4, <1>5, <1>6 DEF CliInv

\* closesocket: the connection is no longer the client's.
LEMMA CliCloses == ASSUME CliInv, CloseSocket PROVE CliInv'
<1>1. CliTypes /\ CliLife /\ \A n \in Conns : CliOne(n)
  BY DEF CliInv
<1>2. /\ pc = "close" /\ pc' = "clear" /\ socket' = 0 /\ net' = [net EXCEPT ![socket] = "gone"]
      /\ UNCHANGED <<isConnected, queue, reader, received, fds, wouldBlock, connecting, used, owner,
                     accepted, wire, inbox, peerSent, delivered>>
  BY DEF CloseSocket, At, NoSocket, buffers, application, peer
<1>3. MaxConnects \in Nat /\ used \in Nat /\ socket \in Nat /\ socket <= used
  BY <1>1, BoundsAssumption DEF CliTypes, CliLife
<1>4. CliTypes'
  <2>1. socket' \in 0..MaxConnects
    BY <1>2, <1>3
  <2> QED BY <1>1, <1>2, <2>1 DEF CliTypes
<1>5. CliLife'
  BY <1>1, <1>2, <1>3 DEF CliLife, NoSocket
<1>6. ASSUME NEW n \in Conns PROVE CliOne(n)'
  <2>1. CliTraffic(n) /\ CliOne(n) /\ n \in Nat /\ socket' # n
    BY <1>1, <1>2, BoundsAssumption DEF CliTraffic, Conns
  <2>2. n > used' => n > used /\ net'[n] = net[n]
    BY <1>1, <1>2, <1>3, <2>1 DEF CliTypes
  <2> QED BY <2>1, <2>2, CliOneStays
<1> QED BY <1>4, <1>5, <1>6 DEF CliInv

\* The buffers are cleared, for no connection or for one that has used none of them.
LEMMA CliClears == ASSUME CliInv, ClearBuffers PROVE CliInv'
<1>1. CliTypes /\ CliLife /\ \A n \in Conns : CliOne(n)
  BY DEF CliInv
<1>2. /\ pc = "clear" /\ pc' = "read" /\ queue' = <<>> /\ reader' = NoReader /\ received' = <<>>
      /\ UNCHANGED <<socket, isConnected, fds, wouldBlock, connecting, used, owner, net,
                     accepted, wire, inbox, peerSent, delivered>>
  BY DEF ClearBuffers, At, link, application, peer
<1>3. CliTypes'
  <2>1. reader' \in [of : Nat, text : Nat, position : 0..(TextLength - 1)]
    <3>1. 0 \in 0..(TextLength - 1)
      BY TextEnds
    <3> QED BY <1>2, <3>1 DEF NoReader
  <2>2. queue' \in Seq(Conns \X Nat) /\ received' \in Seq(Bytes)
    BY <1>2
  <2> QED BY <1>1, <1>2, <2>1, <2>2 DEF CliTypes
<1>4. CliLife'
  BY <1>1, <1>2 DEF CliLife
<1>5. ASSUME NEW n \in Conns PROVE CliOne(n)'
  <2>1. CliTraffic(n) /\ CliOne(n)
    BY <1>1, <1>2 DEF CliTraffic
  <2>2. socket' = n => CliSends(n)' /\ CliReceives(n)'
    <3> SUFFICES ASSUME socket = n PROVE CliSends(n)' /\ CliReceives(n)'
      BY <1>2
    <3>1. CliFresh(n)'
      BY <1>2, <2>1, CliBuffersStay DEF CliOne
    <3>2. peerSent'[n] \in Nat
      BY <1>1, <1>2 DEF CliTypes
    <3> QED BY <1>2, <3>1, <3>2, CliBegins
  <2>3. n > used' => n > used /\ net'[n] = net[n]
    BY <1>2
  <2> QED BY <1>2, <2>1, <2>2, <2>3, CliOneStays
<1> QED BY <1>3, <1>4, <1>5 DEF CliInv

\* The destructor closes what is left, when the thread has ended.
LEMMA CliEnds == ASSUME CliInv, CloseAtEnd, isConnected PROVE CliInv'
<1>1. CliTypes /\ CliLife /\ \A n \in Conns : CliOne(n)
  BY DEF CliInv
<1>2. /\ owner = "waited" /\ owner' = "gone" /\ socket' = 0
      /\ net' = (IF socket = 0 THEN net ELSE [net EXCEPT ![socket] = "gone"])
      /\ queue' = <<>> /\ reader' = NoReader /\ received' = <<>>
      /\ UNCHANGED <<isConnected, pc, fds, wouldBlock, connecting, used,
                     accepted, wire, inbox, peerSent, delivered>>
  BY DEF CloseAtEnd, NoSocket, peer
<1>3. MaxConnects \in Nat /\ used \in Nat /\ socket \in Nat /\ socket <= used
  BY <1>1, BoundsAssumption DEF CliTypes, CliLife
<1>4. CliTypes'
  <2>1. reader' \in [of : Nat, text : Nat, position : 0..(TextLength - 1)]
    <3>1. 0 \in 0..(TextLength - 1)
      BY TextEnds
    <3> QED BY <1>2, <3>1 DEF NoReader
  <2>2. queue' \in Seq(Conns \X Nat) /\ received' \in Seq(Bytes) /\ socket' \in 0..MaxConnects
    BY <1>2, <1>3
  <2>3. net' \in [Conns -> {"none", "fresh", "connecting", "refused", "up", "closed", "reset",
                            "gone"}]
    BY <1>1, <1>2 DEF CliTypes
  <2> QED BY <1>1, <1>2, <2>1, <2>2, <2>3 DEF CliTypes
<1>5. CliLife'
  BY <1>1, <1>2, <1>3 DEF CliLife, NoSocket
<1>6. ASSUME NEW n \in Conns PROVE CliOne(n)'
  <2>1. CliTraffic(n) /\ CliOne(n) /\ n \in Nat /\ socket' # n
    BY <1>1, <1>2, BoundsAssumption DEF CliTraffic, Conns
  <2>2. n > used' => n > used /\ net'[n] = net[n]
    BY <1>1, <1>2, <1>3, <2>1 DEF CliTypes
  <2> QED BY <2>1, <2>2, CliOneStays
<1> QED BY <1>4, <1>5, <1>6 DEF CliInv

\* What was sent of a list of texts is a prefix of it.
LEMMA CliPrefix ==
    ASSUME NEW n \in Nat, NEW a \in Nat, NEW l \in Nat, l <= a, NEW w, NEW s,
           \/ s = NoReader /\ w = CliOut(n, a - l)
           \/ /\ a - l # 0 /\ s.position \in 0..TextLength
              /\ w = CliOut(n, (a - l) - 1) \o SubSeq(CliPart(n, a - l), 1, s.position)
    PROVE  IsPrefix(w, CliOut(n, a))
<1> DEFINE p == TextLength
           t == a - l
<1>1. p \in Nat /\ t \in Nat /\ t <= a
  <2>1. p \in Nat
    BY TextEnds
  <2> QED BY <2>1
<1>2. CASE s = NoReader /\ w = CliOut(n, t)
  <2> HIDE DEF p, t
  <2>1. IsPrefix(Out(n, p, t), Out(n, p, a))
    BY <1>1, OutPrefix
  <2> QED BY <2>1, <1>2 DEF CliOut, p
<1>3. CASE /\ t # 0 /\ s.position \in 0..p
           /\ w = CliOut(n, t - 1) \o SubSeq(CliPart(n, t), 1, s.position)
  <2> DEFINE j == t - 1
             q == s.position
  <2>1. j \in Nat /\ j <= a /\ j < a /\ j + 1 = t /\ q \in 0..p
    BY <1>1, <1>3
  <2>2. w = Out(n, p, j) \o SubSeq(Part(n, p, t), 1, q)
    BY <1>3 DEF CliOut, CliPart
  <2> HIDE DEF p, t, j, q
  <2>3. IsPrefix(Out(n, p, j) \o SubSeq(Part(n, p, j + 1), 1, q), Out(n, p, a))
    BY <1>1, <2>1, OutPrefix
  <2> QED BY <2>1, <2>2, <2>3 DEF CliOut, p
<1> QED BY <1>2, <1>3

\* A text is queued behind the others.
LEMMA CliQueues == ASSUME CliInv, Send PROVE CliInv'
<1> SUFFICES ASSUME NEW c, c = socket PROVE CliInv'
  OBVIOUS
<1> DEFINE a == accepted[c]
           x == <<c, a + 1>>
           l == Len(queue)
<1>1. CliTypes /\ CliLife /\ \A n \in Conns : CliOne(n)
  BY DEF CliInv
<1>2. /\ c # 0 /\ queue' = Append(queue, x) /\ accepted' = [accepted EXCEPT ![c] = a + 1]
      /\ owner = "none" /\ pc # "clear"
      /\ UNCHANGED <<socket, isConnected, reader, received, pc, fds, wouldBlock, connecting, used,
                     owner, net, wire, inbox, peerSent, delivered>>
  BY DEF Send, MutexTaken, Queue, NoSocket, link, peer
<1>3. /\ c \in Conns /\ c \in Nat /\ a \in Nat /\ l \in Nat /\ used \in Nat
      /\ queue \in Seq(Conns \X Nat) /\ x \in Conns \X Nat /\ c <= used
  <2>1. /\ c \in 0..MaxConnects /\ used \in 0..MaxConnects /\ MaxConnects \in Nat
        /\ c <= used /\ queue \in Seq(Conns \X Nat)
    BY <1>1, BoundsAssumption DEF CliTypes, CliLife
  <2>2. c \in Conns /\ c \in Nat /\ used \in Nat
    BY <1>2, <2>1 DEF Conns
  <2>3. a \in Nat /\ l \in Nat
    BY <1>1, <2>1, <2>2 DEF CliTypes
  <2>4. x \in Conns \X Nat
    BY <2>2, <2>3
  <2> QED BY <2>1, <2>2, <2>3, <2>4
<1>4. /\ queue' \in Seq(Conns \X Nat) /\ Len(queue') = l + 1
      /\ queue'[l + 1] = x /\ \A i \in 1..l : queue'[i] = queue[i]
  <2> DEFINE S == Conns \X Nat
  <2>1. x \in S /\ queue \in Seq(S)
    BY <1>3
  <2> HIDE DEF S, x
  <2> QED BY <1>2, <2>1, AppendProperties DEF S
<1>5. CliTypes'
  BY <1>1, <1>2, <1>3, <1>4 DEF CliTypes
<1>6. CliLife'
  BY <1>1, <1>2 DEF CliLife, NoSocket
<1>7. ASSUME NEW n \in Conns, n # c PROVE CliOne(n)'
  <2>1. CliTraffic(n) /\ CliOne(n)
    BY <1>1, <1>2, <1>7 DEF CliTraffic, CliTypes
  <2>2. socket' # n /\ used' = used /\ net' = net
    BY <1>2, <1>7
  <2> QED BY <2>1, <2>2, CliOneStays
<1>8. CliOne(c)'
  <2>1. CliOne(c) /\ CliSends(c) /\ CliReceives(c)
    BY <1>1, <1>2, <1>3 DEF CliOne, CliLife
  <2>2. l <= a /\ accepted'[c] = a + 1 /\ CliTaken(c) = a - l
    BY <1>1, <1>2, <1>3, <2>1 DEF CliSends, CliTaken, CliTypes
  <2>3. CliTaken(c)' = a - l
    <3>1. (a + 1) - (l + 1) = a - l
      BY <1>3
    <3> QED BY <3>1, <1>2, <1>4, <2>2 DEF CliTaken
  <2>4. \A i \in 1..(l + 1) : queue'[i] = <<c, (a - l) + i>>
    <3> SUFFICES ASSUME NEW i \in 1..(l + 1) PROVE queue'[i] = <<c, (a - l) + i>>
      OBVIOUS
    <3>1. i \in 1..l \/ i = l + 1
      BY <1>3
    <3>2. CASE i \in 1..l
      BY <3>2, <1>4, <2>1, <2>2 DEF CliSends
    <3>3. CASE i = l + 1
      <4>1. (a - l) + i = a + 1
        BY <3>3, <1>3
      <4> QED BY <3>3, <4>1, <1>4
    <3> QED BY <3>1, <3>2, <3>3
  <2>5. \/ reader = NoReader /\ wire[c] = CliOut(c, a - l)
        \/ /\ a - l # 0 /\ reader.of = c /\ reader.text = a - l
           /\ wire[c] = CliOut(c, (a - l) - 1) \o SubSeq(CliPart(c, a - l), 1, reader.position)
    BY <2>1, <2>2 DEF CliSends
  <2>6. CliSends(c)'
    <3>1. l + 1 <= a + 1
      BY <1>3, <2>2
    <3>2. Len(queue') <= accepted'[c]
      BY <3>1, <1>4, <2>2
    <3>3. \A i \in 1..Len(queue') : queue'[i] = <<c, CliTaken(c)' + i>>
      BY <1>4, <2>3, <2>4
    <3> HIDE DEF a, l
    <3>4. \/ reader' = NoReader /\ wire'[c] = CliOut(c, CliTaken(c)')
          \/ /\ CliTaken(c)' # 0 /\ reader'.of = c /\ reader'.text = CliTaken(c)'
             /\ wire'[c] = CliOut(c, CliTaken(c)' - 1)
                               \o SubSeq(CliPart(c, CliTaken(c)'), 1, reader'.position)
      BY <1>2, <2>3, <2>5
    <3> QED BY <1>2, <3>2, <3>3, <3>4 DEF CliSends
  <2>7. CliReceives(c)'
    BY <1>2, <2>1 DEF CliReceives, CliHere, CliDone
  <2>8. IsPrefix(wire'[c], CliOut(c, accepted'[c]))
    <3> DEFINE b == a + 1
               m == l + 1
    <3>1. b \in Nat /\ m \in Nat /\ m <= b /\ b - m = a - l
      BY <1>3, <2>2
    <3>2. reader.position \in 0..TextLength
      BY <1>1, TextEnds DEF CliTypes
    <3> HIDE DEF b, m, a, l
    <3>3. IsPrefix(wire[c], CliOut(c, b))
      BY <1>3, <2>5, <3>1, <3>2, CliPrefix
    <3> QED BY <3>3, <1>2, <2>2 DEF b
  <2>9. CliBlank(c)'
    BY <1>2, <1>3 DEF CliBlank
  <2>10. CliDone(c)' = CliDone(c)
    BY <1>2 DEF CliDone
  <2>11. CliDone(c)' <= peerSent'[c] /\ \A k \in 1..CliDone(c)' : delivered'[c][k] = BytesOf(c, k)
    BY <1>2, <2>1, <2>10 DEF CliOne
  <2> QED BY <1>2, <2>6, <2>7, <2>8, <2>9, <2>11 DEF CliOne
<1> QED BY <1>5, <1>6, <1>7, <1>8 DEF CliInv

\* A step of the thread that changes only what is sent on its connection.
LEMMA CliSendKeeps ==
    ASSUME CliInv, NEW c \in Conns, c = socket, CliTypes', CliSends(c)',
           IsPrefix(wire'[c], CliOut(c, accepted[c])),
           \A n \in Conns : n # c => wire'[n] = wire[n],
           pc = "send", pc' \in {"send", "read"},
           UNCHANGED <<socket, received, owner, used, net, accepted, inbox, peerSent, delivered>>
    PROVE  CliInv'
<1>1. CliTypes /\ CliLife /\ \A n \in Conns : CliOne(n)
  BY DEF CliInv
<1>2. c # 0 /\ c \in Nat
  BY BoundsAssumption DEF Conns
<1>3. CliLife'
  BY <1>1, <1>2 DEF CliLife, NoSocket
<1>4. ASSUME NEW n \in Conns, n # c PROVE CliOne(n)'
  <2>1. CliTraffic(n) /\ CliOne(n) /\ socket' # n
    BY <1>1, <1>4 DEF CliTraffic
  <2> QED BY <2>1, CliOneStays
<1>5. CliOne(c)'
  <2>1. CliOne(c) /\ CliReceives(c) /\ CliDone(c)' = CliDone(c) /\ CliHere(c)' = CliHere(c)
    BY <1>1 DEF CliOne, CliDone, CliHere
  <2>2. CliReceives(c)'
    BY <2>1 DEF CliReceives
  <2>3. CliBlank(c)'
    <3>1. c <= used /\ used \in Nat
      BY <1>1 DEF CliTypes, CliLife
    <3>2. ~(c > used')
      BY <1>2, <3>1
    <3> QED BY <3>2 DEF CliBlank
  <2>4. CliDone(c)' <= peerSent'[c] /\ \A k \in 1..CliDone(c)' : delivered'[c][k] = BytesOf(c, k)
    BY <2>1 DEF CliOne
  <2> QED BY <2>2, <2>3, <2>4 DEF CliOne
<1> QED BY <1>3, <1>4, <1>5 DEF CliInv

\* The thread takes the next text from the queue.
LEMMA CliTakes == ASSUME CliInv, TakeNext PROVE CliInv'
<1> SUFFICES ASSUME NEW c, c = socket PROVE CliInv'
  OBVIOUS
<1> DEFINE a == accepted[c]
           l == Len(queue)
           t == a - l
           h == Tail(queue)
           Pair == Conns \X Nat
<1>1. CliTypes /\ CliLife /\ \A n \in Conns : CliOne(n)
  BY DEF CliInv
<1>2. /\ pc = "send" /\ reader = NoReader /\ queue # <<>> /\ queue' = h
      /\ reader' = [of |-> Head(queue)[1], text |-> Head(queue)[2], position |-> 0]
      /\ UNCHANGED <<socket, isConnected, received, pc, fds, wouldBlock, connecting, used, owner,
                     accepted, net, wire, inbox, peerSent, delivered>>
  BY DEF TakeNext, At, link, application, peer
<1>3. c \in Conns /\ c \in Nat \ {0}
  <2>1. c \in 0..MaxConnects /\ c # 0 /\ MaxConnects \in Nat
    BY <1>1, <1>2, BoundsAssumption DEF CliTypes, CliLife, NoSocket
  <2> QED BY <2>1 DEF Conns
<1>4. queue \in Seq(Pair) /\ a \in Nat /\ l \in Nat
  <2>1. queue \in Seq(Pair) /\ accepted \in [Conns -> Nat]
    BY <1>1 DEF CliTypes
  <2>2. l \in Nat
    <3> HIDE DEF Pair
    <3> QED BY <2>1
  <2> QED BY <2>1, <2>2, <1>3
<1>5. CliSends(c)
  BY <1>1, <1>2, <1>3 DEF CliOne
<1>6. /\ l <= a /\ t \in Nat /\ CliTaken(c) = t /\ \A i \in 1..l : queue[i] = <<c, t + i>>
  BY <1>4, <1>5 DEF CliSends, CliTaken
<1>7. wire[c] = CliOut(c, t)
  <2>1. NoReader.of = 0
    BY DEF NoReader
  <2> QED BY <1>2, <1>3, <1>5, <1>6, <2>1 DEF CliSends
<1>8. h \in Seq(Pair) /\ Len(h) = l - 1 /\ \A i \in 1..Len(h) : h[i] = queue[i + 1]
  <2> HIDE DEF Pair
  <2> QED BY <1>2, <1>4, HeadTailProperties
<1>9. l >= 1 /\ Head(queue) = <<c, t + 1>>
  <2>1. l >= 1
    BY <1>2, <1>4
  <2>2. Head(queue) = queue[1]
    BY <1>4
  <2>3. 1 \in 1..l
    BY <1>4, <2>1
  <2> QED BY <2>1, <2>2, <2>3, <1>6
<1>10. reader' = [of |-> c, text |-> t + 1, position |-> 0]
  BY <1>2, <1>9
<1>11. Len(h) <= a /\ t + 1 = a - Len(h) /\ t + 1 \in Nat \ {0} /\ (t + 1) - 1 = t
  <2> DEFINE m == Len(h)
  <2>1. m = l - 1 /\ l >= 1 /\ l <= a
    BY <1>6, <1>8, <1>9
  <2>2. t = a - l
    OBVIOUS
  <2> HIDE DEF h, t, l, a, m
  <2>3. m <= a /\ t + 1 = a - m /\ t + 1 \in Nat \ {0} /\ (t + 1) - 1 = t
    BY <1>4, <1>6, <2>1, <2>2
  <2> QED BY <2>3 DEF m
<1>12. \A i \in 1..Len(h) : h[i] = <<c, (t + 1) + i>>
  <2> SUFFICES ASSUME NEW i \in 1..Len(h) PROVE h[i] = <<c, (t + 1) + i>>
    OBVIOUS
  <2>1. i + 1 \in 1..l /\ t + (i + 1) = (t + 1) + i
    <3> DEFINE m == Len(h)
    <3>1. m = l - 1 /\ i \in 1..m
      BY <1>8
    <3>2. l \in Nat /\ t \in Nat
      BY <1>4, <1>6
    <3> HIDE DEF m, t, l
    <3> QED BY <3>1, <3>2
  <2>2. h[i] = queue[i + 1] /\ queue[i + 1] = <<c, t + (i + 1)>>
    BY <1>6, <1>8, <2>1
  <2> QED BY <2>1, <2>2
<1> DEFINE k == t + 1
<1>13. wire[c] = CliOut(c, k - 1) \o SubSeq(CliPart(c, k), 1, 0)
  <2> DEFINE p == TextLength
             o == Out(c, p, t)
             x == Part(c, p, k)
  <2>1. p \in Nat /\ k \in Nat /\ t \in Nat /\ c \in Nat /\ k - 1 = t
    <3>1. p \in Nat
      BY TextEnds
    <3> QED BY <3>1, <1>3, <1>6, <1>11
  <2> HIDE DEF p, k, t
  <2>2. o \in Seq(Spot)
    BY <2>1, OutGrows
  <2>3. x \in Seq(Spot) /\ Len(x) = p
    BY <2>1, PartFacts
  <2> HIDE DEF o, x
  <2>4. SubSeq(x, 1, 0) = <<>>
    <3>1. 1 \in Int /\ 0 \in Int /\ 0 < 1
      OBVIOUS
    <3> QED BY <3>1, SubSeqEmpty
  <2>5. o \o <<>> = o
    BY <2>2, ConcatEmptySeq
  <2>6. wire[c] = o \o SubSeq(x, 1, 0)
    BY <1>7, <2>4, <2>5 DEF CliOut, o, p
  <2> QED BY <2>1, <2>6 DEF CliOut, CliPart, o, x, p
<1>14. CliTypes'
  <2>1. reader' \in [of : Nat, text : Nat, position : 0..(TextLength - 1)]
    <3>1. 0 \in 0..(TextLength - 1)
      BY TextEnds
    <3> HIDE DEF t
    <3> QED BY <3>1, <1>3, <1>10, <1>11
  <2>2. queue' \in Seq(Conns \X Nat)
    BY <1>2, <1>8
  <2> QED BY <1>1, <1>2, <2>1, <2>2 DEF CliTypes
<1>15. CliSends(c)'
  <2>1. CliTaken(c)' = k /\ Len(queue') <= accepted'[c]
    BY <1>2, <1>11 DEF CliTaken
  <2>2. \A i \in 1..Len(queue') : queue'[i] = <<c, CliTaken(c)' + i>>
    BY <1>2, <1>12, <2>1
  <2>3. k # 0 /\ reader'.of = c /\ reader'.text = k /\ reader'.position = 0
    <3>1. k # 0
      BY <1>11
    <3> HIDE DEF t
    <3> QED BY <3>1, <1>10
  <2>4. wire'[c] = CliOut(c, k - 1) \o SubSeq(CliPart(c, k), 1, reader'.position)
    BY <1>2, <1>13, <2>3
  <2> HIDE DEF k
  <2> QED BY <2>1, <2>2, <2>3, <2>4 DEF CliSends
<1>16. IsPrefix(wire'[c], CliOut(c, accepted[c])) /\ \A n \in Conns : n # c => wire'[n] = wire[n]
  BY <1>1, <1>2, <1>3 DEF CliOne
<1> QED BY <1>2, <1>3, <1>14, <1>15, <1>16, CliSendKeeps

\* The network takes bytes of the text that is being sent.
LEMMA CliSome == ASSUME CliInv, NEW p \in 1..TextLength, SendBytes(p) PROVE CliInv'
<1> SUFFICES ASSUME NEW c, c = socket PROVE CliInv'
  OBVIOUS
<1> DEFINE P == TextLength
           k == accepted[c] - Len(queue)
           q == reader.position
           x == CliPart(c, k)
           o == CliOut(c, k - 1)
           w == wire'[c]
           l == Len(queue)
<1>1. CliTypes /\ CliLife /\ \A n \in Conns : CliOne(n)
  BY DEF CliInv
<1>2. /\ pc = "send" /\ pc' = "read" /\ reader # NoReader /\ p > q /\ reader' = ReaderAt(p)
      /\ wire' = [wire EXCEPT ![c] =
             @ \o SubSeq(BytesOf(reader.of, reader.text), q + 1, p)]
      /\ UNCHANGED <<socket, isConnected, queue, received, fds, wouldBlock, connecting, used, owner,
                     accepted, net, inbox, peerSent, delivered>>
  BY DEF SendBytes, At, link, application, peer
<1>3. c \in Conns /\ c \in Nat \ {0}
  <2>1. c \in 0..MaxConnects /\ c # 0 /\ MaxConnects \in Nat
    BY <1>1, <1>2, BoundsAssumption DEF CliTypes, CliLife, NoSocket
  <2> QED BY <2>1 DEF Conns
<1>4. CliSends(c)
  BY <1>1, <1>2, <1>3 DEF CliOne
<1>5. /\ P \in Nat /\ l \in Nat /\ accepted[c] \in Nat /\ q \in 0..(P - 1)
      /\ reader \in [of : Nat, text : Nat, position : 0..(TextLength - 1)]
  <2>1. P \in Nat
    BY TextEnds
  <2>2. accepted[c] \in Nat /\ reader \in [of : Nat, text : Nat, position : 0..(TextLength - 1)]
    BY <1>1, <1>3 DEF CliTypes
  <2>3. l \in Nat
    <3> DEFINE Pair == Conns \X Nat
    <3>1. queue \in Seq(Pair)
      BY <1>1 DEF CliTypes
    <3> HIDE DEF Pair
    <3> QED BY <3>1
  <2> QED BY <2>1, <2>2, <2>3
<1>6. /\ l <= accepted[c] /\ k \in Nat \ {0} /\ reader.of = c /\ reader.text = k
      /\ wire[c] = o \o SubSeq(x, 1, q) /\ \A i \in 1..l : queue[i] = <<c, k + i>>
  <2>1. l <= accepted[c] /\ CliTaken(c) = k /\ \A i \in 1..l : queue[i] = <<c, CliTaken(c) + i>>
    BY <1>4 DEF CliSends, CliTaken
  <2>2. k \in Nat
    BY <1>5, <2>1
  <2>3. /\ k # 0 /\ reader.of = c /\ reader.text = k
        /\ wire[c] = CliOut(c, k - 1) \o SubSeq(CliPart(c, k), 1, q)
    BY <1>2, <1>4, <2>1 DEF CliSends
  <2> HIDE DEF k
  <2> QED BY <2>1, <2>2, <2>3
<1> HIDE DEF k
<1>7. /\ k - 1 \in Nat /\ (k - 1) + 1 = k /\ q \in Nat /\ p \in Nat /\ q <= p /\ p <= P /\ k \in Nat
  BY <1>2, <1>5, <1>6
<1>8. o \in Seq(Spot) /\ x \in Seq(Spot) /\ Len(x) = P
  <2> HIDE DEF P
  <2>1. Out(c, P, k - 1) \in Seq(Spot)
    BY <1>3, <1>5, <1>7, OutGrows
  <2>2. Part(c, P, k) \in Seq(Spot) /\ Len(Part(c, P, k)) = P
    BY <1>3, <1>5, <1>7, PartFacts
  <2> QED BY <2>1, <2>2 DEF CliOut, CliPart, P
<1>9. BytesOf(c, k) = x /\ x \in Seq(Bytes)
  <2>1. BytesOf(c, k) = x /\ BytesOf(c, k) \in Seq(Bytes)
    BY <1>3, <1>7, TextFacts
  <2> HIDE DEF x
  <2> QED BY <2>1
<1>10. wire' = [wire EXCEPT ![c] = @ \o SubSeq(x, q + 1, p)]
  <2> HIDE DEF x, q
  <2> QED BY <1>2, <1>6, <1>9
<1>11. /\ SubSeq(x, 1, q) \o SubSeq(x, q + 1, p) = SubSeq(x, 1, p)
       /\ SubSeq(x, 1, q) \in Seq(Spot) /\ SubSeq(x, q + 1, p) \in Seq(Spot)
       /\ SubSeq(x, 1, Len(x)) = x
  <2> HIDE DEF x, P, q
  <2> QED BY <1>7, <1>8, CutJoins
<1>12. SubSeq(x, q + 1, p) \in Seq(Bytes)
  <2> HIDE DEF x, P, q
  <2>1. p <= Len(x)
    BY <1>7, <1>8
  <2> QED BY <2>1, <1>7, <1>9, CutJoins
<1>13. wire \in [Conns -> Seq(Bytes)]
  BY <1>1 DEF CliTypes
<1>14. wire' \in [Conns -> Seq(Bytes)] /\ w = wire[c] \o SubSeq(x, q + 1, p)
       /\ \A n \in Conns : n # c => wire'[n] = wire[n]
  <2> DEFINE y == SubSeq(x, q + 1, p)
             v == wire[c] \o y
  <2>1. v \in Seq(Bytes)
    <3> DEFINE u == wire[c]
               B == Bytes
    <3>1. u \in Seq(B) /\ y \in Seq(B)
      BY <1>3, <1>12, <1>13
    <3> HIDE DEF u, y, B
    <3>2. u \o y \in Seq(B)
      BY <3>1, ConcatProperties
    <3> QED BY <3>2 DEF u, B
  <2>2. wire' = [wire EXCEPT ![c] = v]
    BY <1>10
  <2> HIDE DEF v
  <2>3. wire' \in [Conns -> Seq(Bytes)] /\ w = v /\ \A n \in Conns : n # c => wire'[n] = wire[n]
    BY <2>1, <2>2, <1>3, <1>13
  <2> QED BY <2>3 DEF v
<1>15. w = o \o SubSeq(x, 1, p)
  <2> DEFINE y == SubSeq(x, 1, q)
             z == SubSeq(x, q + 1, p)
  <2>1. w = (o \o y) \o z
    BY <1>6, <1>14
  <2>2. y \in Seq(Spot) /\ z \in Seq(Spot) /\ y \o z = SubSeq(x, 1, p)
    BY <1>11
  <2> HIDE DEF y, z, o, w
  <2>3. (o \o y) \o z = o \o (y \o z)
    BY <1>8, <2>2, JoinsAgain
  <2> QED BY <2>1, <2>2, <2>3
<1>16. p = P => w = CliOut(c, k)
  <2> SUFFICES ASSUME p = P PROVE w = CliOut(c, k)
    OBVIOUS
  <2>1. w = o \o x
    BY <1>8, <1>11, <1>15
  <2> DEFINE j == k - 1
  <2>2. j \in Nat /\ j + 1 = k
    BY <1>7
  <2> HIDE DEF P, j
  <2>3. Out(c, P, j + 1) = Out(c, P, j) \o Part(c, P, j + 1)
    BY <1>3, <1>5, <2>2, OutGrows, ZenonT(40)
  <2>4. Out(c, P, k) = Out(c, P, k - 1) \o Part(c, P, k)
    BY <2>2, <2>3 DEF j
  <2> QED BY <2>1, <2>4 DEF CliOut, CliPart, P
<1>17. reader' = IF p = P THEN NoReader ELSE [of |-> c, text |-> k, position |-> p]
  <2>1. [reader EXCEPT !.position = p] = [of |-> c, text |-> k, position |-> p]
    <3>1. reader = [of |-> c, text |-> k, position |-> reader.position]
      <4> HIDE DEF P
      <4> QED BY <1>5, <1>6
    <3> HIDE DEF q, P
    <3> QED BY <3>1
  <2> QED BY <1>2, <2>1 DEF ReaderAt
<1>18. reader' \in [of : Nat, text : Nat, position : 0..(TextLength - 1)]
  <2> DEFINE R == [of : Nat, text : Nat, position : 0..(P - 1)]
  <2>1. NoReader \in R
    <3>1. 0 \in 0..(P - 1)
      BY TextEnds
    <3> QED BY <3>1 DEF NoReader
  <2>2. p # P => [of |-> c, text |-> k, position |-> p] \in R
    <3>1. p # P => p \in 0..(P - 1)
      BY <1>5, <1>7
    <3> QED BY <1>3, <1>7, <3>1
  <2>3. reader' \in R
    <3> HIDE DEF R
    <3> QED BY <1>17, <2>1, <2>2
  <2> QED BY <2>3
<1>19. CliTypes'
  BY <1>1, <1>2, <1>14, <1>18 DEF CliTypes
<1>20. \/ reader' = NoReader /\ w = CliOut(c, k)
       \/ /\ k # 0 /\ reader'.of = c /\ reader'.text = k /\ reader'.position \in 0..P
          /\ w = CliOut(c, k - 1) \o SubSeq(CliPart(c, k), 1, reader'.position)
  <2>1. CASE p = P
    BY <2>1, <1>16, <1>17
  <2>2. CASE p # P
    <3>1. reader' = [of |-> c, text |-> k, position |-> p] /\ p \in 0..P
      BY <2>2, <1>5, <1>7, <1>17
    <3> HIDE DEF P
    <3> QED BY <3>1, <1>6, <1>15
  <2> QED BY <2>1, <2>2
<1>21. CliSends(c)'
  <2>1. CliTaken(c)' = k /\ Len(queue') <= accepted'[c]
    BY <1>2, <1>6 DEF CliTaken, k
  <2>2. \A i \in 1..Len(queue') : queue'[i] = <<c, CliTaken(c)' + i>>
    BY <1>2, <1>6, <2>1
  <2> QED BY <1>20, <2>1, <2>2 DEF CliSends
<1>22. IsPrefix(w, CliOut(c, accepted[c]))
  <2> DEFINE a == accepted[c]
             s == reader'
  <2>1. a \in Nat /\ l \in Nat /\ l <= a /\ a - l = k /\ c \in Nat
    BY <1>3, <1>5, <1>6 DEF k
  <2>2. \/ s = NoReader /\ w = CliOut(c, a - l)
        \/ /\ a - l # 0 /\ s.position \in 0..TextLength
           /\ w = CliOut(c, (a - l) - 1) \o SubSeq(CliPart(c, a - l), 1, s.position)
    BY <1>20, <2>1
  <2> HIDE DEF a, l, w, s
  <2>3. IsPrefix(w, CliOut(c, a))
    BY <2>1, <2>2, CliPrefix
  <2> QED BY <2>3 DEF a
<1> QED BY <1>2, <1>3, <1>14, <1>19, <1>21, <1>22, CliSendKeeps

\* The peer sends a text more.
LEMMA CliPeerSends == ASSUME CliInv, NEW c \in Conns, PeerSends(c) PROVE CliInv'
<1> DEFINE s == peerSent[c]
           e == TextEnd(s)
           f == TextEnd(s + 1)
           x == BytesOf(c, s + 1)
<1>1. CliTypes /\ CliLife /\ \A n \in Conns : CliOne(n)
  BY DEF CliInv
<1>2. /\ net[c] = "up" /\ inbox' = [inbox EXCEPT ![c] = @ \o x]
      /\ peerSent' = [peerSent EXCEPT ![c] = s + 1]
      /\ UNCHANGED <<socket, isConnected, queue, reader, received, pc, fds, wouldBlock, connecting,
                     used, owner, accepted, net, wire, delivered>>
  BY DEF PeerSends, link, buffers, application
<1>3. /\ inbox \in [Conns -> Seq(Bytes)] /\ peerSent \in [Conns -> Nat] /\ s \in Nat
      /\ s + 1 \in Nat
  BY <1>1 DEF CliTypes
<1>4. e \in Nat /\ f \in Nat /\ f = e + TextLength /\ e <= f /\ TextLength \in Nat
  <2>1. e \in Nat /\ f = e + TextLength /\ TextLength \in Nat
    BY <1>3, TextEnds
  <2> HIDE DEF e, f
  <2> QED BY <2>1
<1>5. x \in Seq(Bytes) /\ x = Stretch(c, e, f)
  <2>1. x \in Seq(Bytes)
    <3> DEFINE k == s + 1
    <3>1. k \in Nat
      BY <1>3
    <3> HIDE DEF k
    <3>2. BytesOf(c, k) \in Seq(Bytes)
      BY <3>1, TextFacts
    <3> QED BY <3>2 DEF k
  <2>2. Stretch(c, e, e + TextLength) = x
    BY <1>3, FlowText
  <2> HIDE DEF e, f, x
  <2> QED BY <2>1, <2>2, <1>4
<1>6. inbox'[c] = inbox[c] \o x /\ peerSent'[c] = s + 1
      /\ \A n \in Conns : n # c => inbox'[n] = inbox[n] /\ peerSent'[n] = peerSent[n]
  <2> HIDE DEF x, s
  <2> QED BY <1>2, <1>3
<1>7. CliTypes'
  <2>1. inbox' \in [Conns -> Seq(Bytes)]
    <3> DEFINE u == inbox[c]
               v == u \o x
               B == Bytes
    <3>1. u \in Seq(B) /\ x \in Seq(B)
      BY <1>3, <1>5
    <3>2. inbox' = [inbox EXCEPT ![c] = v] /\ inbox \in [Conns -> Seq(B)]
      BY <1>2, <1>3
    <3> HIDE DEF u, x, B
    <3>3. v \in Seq(B)
      BY <3>1, ConcatProperties
    <3> HIDE DEF v
    <3>4. inbox' \in [Conns -> Seq(B)]
      BY <3>2, <3>3
    <3> QED BY <3>4 DEF B
  <2>2. peerSent' \in [Conns -> Nat]
    <3> HIDE DEF s
    <3> QED BY <1>2, <1>3
  <2> QED BY <1>1, <1>2, <2>1, <2>2 DEF CliTypes
<1>8. CliLife'
  BY <1>1, <1>2 DEF CliLife, NoSocket
<1>9. ASSUME NEW n \in Conns, n # c PROVE CliOne(n)'
  <2>1. CliTraffic(n) /\ CliOne(n)
    BY <1>1, <1>2, <1>6, <1>9 DEF CliTraffic
  <2>2. socket' = n /\ pc' = "clear" => CliFresh(n)'
    BY <1>2, <2>1, CliBuffersStay DEF CliOne
  <2>3. socket' = n /\ pc' \notin {"clear", "exited"} => CliSends(n)' /\ CliReceives(n)'
    BY <1>2, <2>1, CliBuffersStay DEF CliOne
  <2> QED BY <1>2, <2>1, <2>2, <2>3, CliOneStays
<1>10. ASSUME NEW a \in Nat, a <= e, inbox[c] = Stretch(c, a, e) PROVE inbox'[c] = Stretch(c, a, f)
  <2>1. inbox'[c] = Stretch(c, a, e) \o Stretch(c, e, f)
    BY <1>5, <1>6, <1>10
  <2> HIDE DEF e, f
  <2>2. Stretch(c, a, e) \o Stretch(c, e, f) = Stretch(c, a, f)
    BY <1>4, <1>10, StretchJoins
  <2> QED BY <2>1, <2>2
<1>11. CliOne(c)'
  <2>1. CliOne(c) /\ CliDone(c)' = CliDone(c) /\ CliHere(c)' = CliHere(c)
    BY <1>1, <1>2 DEF CliDone, CliHere
  <2>2. CliBlank(c)'
    BY <1>2, <2>1 DEF CliOne, CliBlank
  <2>3. IsPrefix(wire'[c], CliOut(c, accepted'[c]))
    BY <1>2, <2>1 DEF CliOne
  <2>4. CliDone(c)' <= peerSent'[c] /\ \A k \in 1..CliDone(c)' : delivered'[c][k] = BytesOf(c, k)
    <3>1. CliDone(c) <= s /\ \A k \in 1..CliDone(c) : delivered[c][k] = BytesOf(c, k)
      BY <2>1 DEF CliOne
    <3>2. CliDone(c) \in Nat
      <4>1. delivered[c] \in Seq(Seq(Bytes))
        BY <1>1 DEF CliTypes
      <4> QED BY <4>1 DEF CliDone
    <3>3. CliDone(c) <= s + 1
      BY <1>3, <3>1, <3>2
    <3> QED BY <1>2, <1>6, <2>1, <3>1, <3>3
  <2>5. CliSends(c) => CliSends(c)'
    BY <1>2 DEF CliSends, CliTaken
  <2>6. CliFresh(c) => CliFresh(c)'
    <3> SUFFICES ASSUME CliFresh(c) PROVE CliFresh(c)'
      OBVIOUS
    <3>1. 0 \in Nat /\ 0 <= e /\ inbox[c] = Stretch(c, 0, e)
      BY <1>4 DEF CliFresh
    <3>2. inbox'[c] = Stretch(c, 0, f)
      BY <3>1, <1>10
    <3> QED BY <3>2, <1>2, <1>6 DEF CliFresh
  <2>7. CliReceives(c) => CliReceives(c)'
    <3> SUFFICES ASSUME CliReceives(c) PROVE CliReceives(c)'
      OBVIOUS
    <3> DEFINE a == CliHere(c)
    <3>1. a <= e /\ received = Stretch(c, TextEnd(CliDone(c)), a) /\ inbox[c] = Stretch(c, a, e)
      BY DEF CliReceives
    <3>2. a \in Nat
      <4> DEFINE B == Bytes
                 D == Seq(B)
      <4>1. received \in Seq(B) /\ delivered[c] \in Seq(D)
        BY <1>1 DEF CliTypes
      <4> HIDE DEF B, D
      <4>2. Len(received) \in Nat /\ CliDone(c) \in Nat
        BY <4>1 DEF CliDone
      <4>3. TextEnd(CliDone(c)) \in Nat
        BY <4>2, TextEnds
      <4> QED BY <4>2, <4>3 DEF CliHere
    <3> HIDE DEF a
    <3>3. inbox'[c] = Stretch(c, a, f)
      BY <3>1, <3>2, <1>10
    <3>4. a <= f
      <4> HIDE DEF e, f
      <4> QED BY <3>1, <3>2, <1>4
    <3>5. CliHere(c)' = a /\ received' = received
      BY <1>2, <2>1 DEF a
    <3> QED BY <3>1, <3>3, <3>4, <3>5, <1>6, <2>1 DEF CliReceives
  <2> QED BY <1>2, <2>1, <2>2, <2>3, <2>4, <2>5, <2>6, <2>7 DEF CliOne
<1> QED BY <1>7, <1>8, <1>9, <1>11 DEF CliInv

\* With k more bytes read, b in front of the client is the stretch from the last
\* text notified up to t, and what stays in the socket goes on from there.
CliArrived(c, k, b, t) ==
    /\ CliDone(c) \in Nat /\ TextEnd(CliDone(c)) \in Nat /\ t \in Nat
    /\ TextEnd(CliDone(c)) <= t /\ t <= TextEnd(peerSent[c])
    /\ b = Stretch(c, TextEnd(CliDone(c)), t) /\ b \in Seq(Bytes)
    /\ Len(b) = t - TextEnd(CliDone(c))
    /\ SubSeq(inbox[c], k + 1, Len(inbox[c])) = Stretch(c, t, TextEnd(peerSent[c]))
    /\ SubSeq(inbox[c], k + 1, Len(inbox[c])) \in Seq(Bytes)

\* What is in the buffer when recv gave k bytes, and what recv did not return yet.
LEMMA CliArrives ==
    ASSUME CliInv, NEW c \in Conns, c = socket, pc = "read", NEW k \in Nat, k <= Len(inbox[c]),
           NEW b, b = received \o SubSeq(inbox[c], 1, k), NEW t, t = CliHere(c) + k
    PROVE  CliArrived(c, k, b, t)
<1> DEFINE d == CliDone(c)
           a == TextEnd(d)
           h == CliHere(c)
           s == peerSent[c]
           e == TextEnd(s)
           i == inbox[c]
           B == Bytes
           D == Seq(B)
           x == SubSeq(i, 1, k)
           y == SubSeq(i, k + 1, Len(i))
<1>1. CliTypes /\ CliReceives(c)
  BY DEF CliInv, CliOne
<1>2. received \in Seq(B) /\ i \in Seq(B) /\ delivered[c] \in Seq(D) /\ s \in Nat
  BY <1>1 DEF CliTypes
<1>3. d \in Nat /\ Len(received) \in Nat /\ Len(i) \in Nat
  <2> HIDE DEF B, D, i, d
  <2> QED BY <1>2 DEF CliDone, d
<1>4. a \in Nat /\ e \in Nat
  <2> HIDE DEF d, s
  <2> QED BY <1>2, <1>3, TextEnds
<1>5. h = a + Len(received) /\ h \in Nat /\ a <= h
  <2>1. h = a + Len(received)
    BY DEF CliHere
  <2> HIDE DEF h, a
  <2> QED BY <2>1, <1>3, <1>4
<1>6. h <= e /\ received = Stretch(c, a, h) /\ i = Stretch(c, h, e)
  BY <1>1 DEF CliReceives
<1>7. Len(i) = e - h
  <2> HIDE DEF h, e, i
  <2>1. Len(Stretch(c, h, e)) = e - h
    BY <1>4, <1>5, <1>6, StretchFacts
  <2> QED BY <2>1, <1>6
<1>8. t = h + k /\ t \in Nat /\ a <= t /\ h <= t /\ t <= e
  <2>1. t = h + k /\ k <= Len(i)
    OBVIOUS
  <2> HIDE DEF h, e, a, i
  <2> QED BY <2>1, <1>4, <1>5, <1>6, <1>7
<1>9. x = Stretch(c, h, t)
  <2>0. k <= Len(i)
    OBVIOUS
  <2> HIDE DEF h, e, i
  <2>1. 0 \in Nat /\ 0 <= k /\ h + k <= e /\ 0 + 1 = 1 /\ h + 0 = h
    BY <1>4, <1>5, <1>7, <2>0
  <2>2. Between(Stretch(c, h, e), 0, k) = Stretch(c, h + 0, h + k)
    BY <1>4, <1>5, <2>1, StretchPiece
  <2> QED BY <1>6, <1>8, <2>1, <2>2 DEF Between
<1>10. y = Stretch(c, t, e)
  <2>0. k <= Len(i)
    OBVIOUS
  <2> DEFINE l == Len(i)
  <2> HIDE DEF h, e, i, l
  <2>1. l \in Nat /\ k <= l /\ h + l <= e /\ h + l = e
    BY <1>3, <1>4, <1>5, <1>7, <2>0 DEF l
  <2>2. Between(Stretch(c, h, e), k, l) = Stretch(c, h + k, h + l)
    BY <1>4, <1>5, <2>1, StretchPiece
  <2> QED BY <1>6, <1>8, <2>1, <2>2 DEF Between, l
<1>11. b = Stretch(c, a, t) /\ Len(b) = t - a
  <2>1. b = received \o x
    OBVIOUS
  <2> HIDE DEF a, h, x
  <2>2. Stretch(c, a, h) \o Stretch(c, h, t) = Stretch(c, a, t)
    <3> DEFINE w == t
    <3>1. /\ a \in Nat /\ h \in Nat /\ w \in Nat /\ c \in Conns
          /\ a <= h /\ h <= w
      BY <1>4, <1>5, <1>8
    <3> HIDE DEF w
    <3>2. Stretch(c, a, h) \o Stretch(c, h, w) = Stretch(c, a, w)
      BY ONLY <3>1, StretchJoins
    <3> QED BY <3>2 DEF w
  <2>3. b = Stretch(c, a, t)
    BY <2>1, <2>2, <1>6, <1>9
  <2>4. Len(Stretch(c, a, t)) = t - a
    BY <1>4, <1>8, StretchFacts
  <2> QED BY <2>3, <2>4
<1>12. x \in Seq(B) /\ y \in Seq(B)
  <2>0. k <= Len(i) /\ Len(i) <= Len(i)
    BY <1>3
  <2> HIDE DEF B, i
  <2>1. SubSeq(i, 1, k) \in Seq(B) /\ SubSeq(i, k + 1, Len(i)) \in Seq(B)
    BY <1>2, <1>3, <2>0, CutJoins
  <2> QED BY <2>1
<1>13. b \in Seq(B)
  <2>1. b = received \o x
    OBVIOUS
  <2> HIDE DEF B, x
  <2>2. received \o x \in Seq(B)
    BY <1>2, <1>12, ConcatProperties
  <2> QED BY <2>1, <2>2
<1> QED BY <1>3, <1>4, <1>8, <1>10, <1>11, <1>12, <1>13 DEF CliArrived

\* A receive: the complete texts are notified, the rest stays in the buffer.
LEMMA CliGets == ASSUME CliInv, NEW k \in Nat, ReceiveBytes(k) PROVE CliInv'
<1> SUFFICES ASSUME NEW c, c = socket PROVE CliInv'
  OBVIOUS
<1> SUFFICES ASSUME NEW b, b = received \o SubSeq(inbox[c], 1, k) PROVE CliInv'
  OBVIOUS
<1> SUFFICES ASSUME NEW t, t = CliHere(c) + k PROVE CliInv'
  OBVIOUS
<1> DEFINE d == CliDone(c)
           a == TextEnd(d)
           s == peerSent[c]
           e == TextEnd(s)
           r == GetStringLen(b)
           y == SubSeq(inbox[c], k + 1, Len(inbox[c]))
           S == Seq(Bytes)
<1>1. CliTypes /\ CliLife /\ \A n \in Conns : CliOne(n)
  BY DEF CliInv
<1>2. /\ pc = "read" /\ pc' = "select" /\ c # 0 /\ k <= Len(inbox[c])
      /\ delivered' = [delivered EXCEPT ![c] = @ \o r.texts]
      /\ received' = SubSeq(b, r.end + 1, Len(b))
      /\ inbox' = [inbox EXCEPT ![c] = SubSeq(@, k + 1, Len(@))]
      /\ UNCHANGED <<socket, isConnected, queue, reader, fds, wouldBlock, connecting, used, owner,
                     accepted, net, wire, peerSent>>
  BY DEF ReceiveBytes, At, Readable, NoSocket, link, application
<1>3. c \in Conns /\ c \in Nat
  <2>1. c \in 0..MaxConnects /\ MaxConnects \in Nat
    BY <1>1, BoundsAssumption DEF CliTypes
  <2> QED BY <1>2, <2>1 DEF Conns
<1>4. /\ d \in Nat /\ a \in Nat /\ t \in Nat /\ a <= t /\ t <= e
      /\ b = Stretch(c, a, t) /\ b \in Seq(Bytes) /\ Len(b) = t - a
      /\ y = Stretch(c, t, e) /\ y \in Seq(Bytes)
  <2>1. /\ CliInv /\ c \in Conns /\ c = socket /\ pc = "read" /\ k \in Nat
        /\ k <= Len(inbox[c]) /\ b = received \o SubSeq(inbox[c], 1, k)
        /\ t = CliHere(c) + k
    BY <1>2, <1>3
  <2>2. CliArrived(c, k, b, t)
    BY ONLY <2>1, CliArrives
  <2> QED BY ONLY <2>2 DEF CliArrived
<1>5. PICK m \in Nat : CliCut(c, d, t - a, r, m)
  <2> HIDE DEF d, r
  <2>1. \E m \in Nat : CliCut(c, d, t - TextEnd(d), GetStringLen(b), m)
    BY <1>3, <1>4, CliCuts
  <2> QED BY <2>1 DEF r
<1> DEFINE f == TextEnd(m)
           j == d + m
           g == TextEnd(j)
           z == SubSeq(b, f + 1, t - a)
<1>6. r.texts = CliTexts(c, d, m) /\ r.end = f /\ f <= t - a
  BY <1>5 DEF CliCut
<1>7. j \in Nat /\ f \in Nat /\ g = a + f /\ s \in Nat /\ e \in Nat
  <2>1. j \in Nat /\ f \in Nat
    <3>1. f \in Nat
      BY TextEnds
    <3> HIDE DEF d
    <3>2. j \in Nat
      BY <1>4
    <3> QED BY <3>1, <3>2
  <2>2. g = a + f
    BY <1>4, TextEnds
  <2>3. s \in Nat
    BY <1>1, <1>3 DEF CliTypes
  <2>4. e \in Nat
    BY <2>3, TextEnds
  <2> QED BY <2>1, <2>2, <2>3, <2>4
<1>8. g \in Nat /\ g <= t /\ g <= e /\ t = a + (t - a) /\ t - a \in Nat
  <2> HIDE DEF g, a, f, e
  <2> QED BY <1>4, <1>6, <1>7
<1>9. j <= s
  <2> HIDE DEF j, s
  <2> QED BY <1>7, <1>8, TextEnds
<1>10. received' = z /\ z = Stretch(c, g, t) /\ Len(z) = t - g
  <2>1. received' = z
    BY <1>2, <1>4, <1>6
  <2> DEFINE l == t - a
  <2> HIDE DEF a, f, g, l
  <2>2. l \in Nat /\ f <= l /\ a + l <= t /\ a + l = t
    BY <1>4, <1>6, <1>8 DEF l
  <2>3. Between(Stretch(c, a, t), f, l) = Stretch(c, a + f, a + l)
    BY <1>3, <1>4, <1>7, <2>2, StretchPiece
  <2>4. z = Stretch(c, g, t)
    BY <1>4, <1>7, <2>2, <2>3 DEF Between, l
  <2>5. Len(Stretch(c, g, t)) = t - g
    BY <1>3, <1>4, <1>8, StretchFacts, ZenonT(40)
  <2> QED BY <2>1, <2>4, <2>5
<1>11. z \in Seq(Bytes)
  <2> DEFINE B == Bytes
             l == t - a
  <2>1. l \in Nat /\ f <= l /\ l <= Len(b) /\ b \in Seq(B)
    BY <1>4, <1>6, <1>8
  <2> HIDE DEF B, l, f
  <2>2. SubSeq(b, f + 1, l) \in Seq(B)
    BY <1>7, <2>1, CutJoins
  <2> QED BY <2>2 DEF B, l
<1>12. /\ delivered \in [Conns -> Seq(S)] /\ inbox \in [Conns -> Seq(Bytes)]
       /\ delivered[c] \in Seq(S)
  BY <1>1, <1>3 DEF CliTypes
<1>13. delivered[c] = CliTexts(c, 0, d)
  <2> DEFINE u == delivered[c]
             v == CliTexts(c, 0, d)
  <2>1. Len(u) = d /\ \A i \in 1..d : u[i] = BytesOf(c, i)
    BY <1>1, <1>3 DEF CliOne, CliDone
  <2>2. v \in Seq(S) /\ Len(v) = d /\ \A i \in 1..d : v[i] = BytesOf(c, 0 + i)
    <3> HIDE DEF d
    <3>1. 0 \in Nat
      OBVIOUS
    <3> QED BY <1>3, <1>4, <3>1, CliTextsFacts, ZenonT(40)
  <2>3. \A i \in 1..d : 0 + i = i
    BY <1>4
  <2> HIDE DEF u, v, S, d
  <2>4. u = v
    BY <1>12, <2>1, <2>2, <2>3, SeqEqual DEF u
  <2> QED BY <2>4 DEF u, v
<1>14. delivered[c] \o r.texts = CliTexts(c, 0, j)
  <2> HIDE DEF d
  <2>1. CliTexts(c, 0, d) \o CliTexts(c, d, m) = CliTexts(c, 0, d + m)
    BY <1>3, <1>4, CliTextsJoin
  <2> QED BY <2>1, <1>6, <1>13
<1>15. /\ CliTexts(c, 0, j) \in Seq(S) /\ Len(CliTexts(c, 0, j)) = j
       /\ \A i \in 1..j : CliTexts(c, 0, j)[i] = BytesOf(c, i)
  <2> HIDE DEF j
  <2>1. 0 \in Nat /\ \A i \in 1..j : 0 + i = i
    BY <1>7
  <2>2. CliTexts(c, 0, j) \in Seq(S) /\ Len(CliTexts(c, 0, j)) = j
    BY <1>3, <1>7, <2>1, CliTextsFacts
  <2>3. \A i \in 1..j : CliTexts(c, 0, j)[i] = BytesOf(c, 0 + i)
    BY <1>3, <1>7, <2>1, CliTextsFacts, ZenonT(40)
  <2> QED BY <2>1, <2>2, <2>3
<1>16. /\ delivered' \in [Conns -> Seq(S)] /\ delivered'[c] = CliTexts(c, 0, j)
       /\ \A n \in Conns : n # c => delivered'[n] = delivered[n]
  <2> DEFINE v == CliTexts(c, 0, j)
  <2>1. delivered' = [delivered EXCEPT ![c] = v]
    BY <1>2, <1>14
  <2>2. v \in Seq(S)
    BY <1>15
  <2> HIDE DEF v, S
  <2> QED BY <2>1, <2>2, <1>3, <1>12 DEF v
<1>17. /\ inbox' \in [Conns -> Seq(Bytes)] /\ inbox'[c] = y
       /\ \A n \in Conns : n # c => inbox'[n] = inbox[n]
  <2>1. inbox' = [inbox EXCEPT ![c] = y]
    BY <1>2
  <2> HIDE DEF y
  <2> QED BY <2>1, <1>3, <1>4, <1>12
<1>18. CliTypes'
  <2>1. received' \in Seq(Bytes)
    BY <1>10, <1>11
  <2> QED BY <1>1, <1>2, <1>16, <1>17, <2>1 DEF CliTypes
<1>19. CliLife'
  BY <1>1, <1>2 DEF CliLife, NoSocket
<1>20. ASSUME NEW n \in Conns, n # c PROVE CliOne(n)'
  <2>1. CliTraffic(n) /\ CliOne(n) /\ socket' # n
    BY <1>1, <1>2, <1>16, <1>17, <1>20 DEF CliTraffic
  <2> QED BY <1>2, <2>1, CliOneStays
<1>21. CliOne(c)'
  <2>1. CliOne(c) /\ CliSends(c)
    BY <1>1, <1>2, <1>3 DEF CliOne
  <2>2. CliBlank(c)'
    <3>1. c <= used /\ used \in Nat
      BY <1>1 DEF CliTypes, CliLife
    <3>2. ~(c > used')
      BY <1>2, <1>3, <3>1
    <3> QED BY <3>2 DEF CliBlank
  <2>3. CliSends(c)'
    BY <1>2, <2>1 DEF CliSends, CliTaken
  <2>4. IsPrefix(wire'[c], CliOut(c, accepted'[c]))
    BY <1>2, <2>1 DEF CliOne
  <2>5. CliDone(c)' = j
    BY <1>15, <1>16 DEF CliDone
  <2>6. CliDone(c)' <= peerSent'[c] /\ \A i \in 1..CliDone(c)' : delivered'[c][i] = BytesOf(c, i)
    <3> HIDE DEF j
    <3> QED BY <1>2, <1>9, <1>15, <1>16, <2>5
  <2>7. CliHere(c)' = t
    <3>1. CliHere(c)' = TextEnd(j) + Len(z)
      <4> HIDE DEF j, z
      <4> QED BY <1>10, <2>5 DEF CliHere
    <3>2. g + (t - g) = t
      <4> HIDE DEF g
      <4> QED BY <1>4, <1>8
    <3> HIDE DEF j, z
    <3> QED BY <1>10, <3>1, <3>2
  <2>8. CliReceives(c)'
    <3>1. received' = Stretch(c, TextEnd(CliDone(c)'), CliHere(c)')
      <4> HIDE DEF j, z
      <4> QED BY <1>10, <2>5, <2>7
    <3>2. inbox'[c] = Stretch(c, CliHere(c)', TextEnd(peerSent'[c]))
      <4> HIDE DEF y
      <4> QED BY <1>2, <1>4, <1>17, <2>7
    <3>3. CliHere(c)' <= TextEnd(peerSent'[c])
      BY <1>2, <1>4, <2>7
    <3> QED BY <3>1, <3>2, <3>3 DEF CliReceives
  <2> QED BY <1>2, <2>2, <2>3, <2>4, <2>6, <2>8 DEF CliOne
<1> QED BY <1>18, <1>19, <1>20, <1>21 DEF CliInv

\* Every step keeps the invariant.
LEMMA CliStep == CliInv /\ [Next]_vars => CliInv'
<1> SUFFICES ASSUME CliInv, [Next]_vars PROVE CliInv'
  OBVIOUS
<1>1. CASE UNCHANGED vars
  BY <1>1, CliQuietKeeps DEF CliQuietStep
<1>2. CASE Thread
  <2>1. CASE SelectWrite \/ Select({"read"}) \/ Select({"except"})
    <3>1. \E r \in SUBSET {"except", "read", "write"} : Select(r)
      BY <2>1 DEF SelectWrite
    <3> QED BY <3>1, CliQuietKeeps DEF CliQuietStep
  <2>2. CASE \/ ProcessException \/ ProcessWritable \/ SendNothing \/ SendFails \/ ReadSkipped
             \/ ReceiveIgnored \/ ReceiveFails
    BY <2>2, CliQuietKeeps DEF CliQuietStep
  <2>3. CASE TakeNext
    BY <2>3, CliTakes
  <2>4. CASE SendSome
    BY <2>4, CliSome DEF SendSome
  <2>5. CASE \E k \in 1..(MaxTexts * TextLength) : ReceiveBytes(k)
    <3>1. PICK k \in 1..(MaxTexts * TextLength) : ReceiveBytes(k)
      BY <2>5
    <3>2. k \in Nat
      OBVIOUS
    <3> QED BY <3>1, <3>2, CliGets
  <2>6. CASE CloseSocket
    BY <2>6, CliCloses
  <2>7. CASE ClearBuffers
    BY <2>7, CliClears
  <2> QED BY <1>2, <2>1, <2>2, <2>3, <2>4, <2>5, <2>6, <2>7 DEF Thread
<1>3. CASE Sleep
  BY <1>3, CliQuietKeeps DEF CliQuietStep, Sleep
<1>4. CASE World
  <2>1. CASE Send
    BY <2>1, CliQueues
  <2>2. CASE EndConnect
    BY <2>2, CliQuietKeeps DEF CliQuietStep
  <2>3. CASE \E n \in Conns : Network(n) \/ PeerSends(n)
    <3>1. PICK n \in Conns : Network(n) \/ PeerSends(n)
      BY <2>3
    <3>2. CASE Network(n)
      BY <3>2, CliQuietKeeps DEF CliQuietStep
    <3>3. CASE PeerSends(n)
      BY <3>3, CliPeerSends
    <3> QED BY <3>1, <3>2, <3>3
  <2> QED BY <1>4, <2>1, <2>2, <2>3 DEF World
<1>5. CASE BeginConnect
  BY <1>5, CliConnects
<1>6. CASE RaiseShutdown \/ EndThread
  BY <1>6, CliQuietKeeps DEF CliQuietStep
<1>7. CASE CloseAtEnd
  <2>1. CASE isConnected
    BY <1>7, <2>1, CliEnds
  <2>2. CASE ~isConnected
    BY <1>7, <2>2, CliQuietKeeps DEF CliQuietStep
  <2> QED BY <2>1, <2>2
<1> QED BY <1>1, <1>2, <1>3, <1>4, <1>5, <1>6, <1>7 DEF Next

\* And it says what TextClient promises.
LEMMA CliSound == CliInv => ClientIsSound
<1> SUFFICES ASSUME CliInv PROVE ClientIsSound
  OBVIOUS
<1>1. CliTypes /\ CliLife /\ \A n \in Conns : CliOne(n)
  BY DEF CliInv
<1>2. TypeOK
  <2>1. reader.position < TextLength
    <3>1. reader.position \in 0..(TextLength - 1) /\ TextLength \in Nat
      BY <1>1, TextEnds DEF CliTypes
    <3> QED BY <3>1
  <2>2. socket \in Conns \cup {NoSocket}
    BY <1>1, BoundsAssumption DEF CliTypes, Conns, NoSocket
  <2> QED BY <1>1, <2>1, <2>2 DEF CliTypes, CliLife, TypeOK
<1>3. WireInOrder
  <2> SUFFICES ASSUME NEW n \in Conns
               PROVE IsPrefix(wire[n], FlattenSeq([k \in 1..accepted[n] |-> BytesOf(n, k)]))
    BY DEF WireInOrder
  <2> DEFINE a == accepted[n]
             s == [k \in 1..a |-> BytesOf(n, k)]
  <2>1. s = [k \in 1..a |-> CliPart(n, k)]
    BY DEF BytesOf, CliPart, Part
  <2>2. CliOut(n, a) = FlattenSeq(s)
    BY <2>1 DEF CliOut, Out, CliPart
  <2>3. IsPrefix(wire[n], CliOut(n, a))
    BY <1>1 DEF CliOne
  <2> HIDE DEF s, a
  <2>4. IsPrefix(wire[n], FlattenSeq(s))
    BY <2>2, <2>3
  <2> QED BY <2>4 DEF s, a
<1>4. TextsAreWhole
  <2> SUFFICES ASSUME NEW n \in Conns
               PROVE /\ Len(delivered[n]) <= peerSent[n]
                     /\ delivered[n] = [k \in DOMAIN delivered[n] |-> BytesOf(n, k)]
    BY DEF TextsAreWhole
  <2> DEFINE u == delivered[n]
             S == Seq(Bytes)
  <2>1. u \in Seq(S)
    BY <1>1 DEF CliTypes
  <2>2. Len(u) <= peerSent[n] /\ \A k \in 1..Len(u) : u[k] = BytesOf(n, k)
    BY <1>1 DEF CliOne, CliDone
  <2> HIDE DEF u, S
  <2>3. u = [k \in DOMAIN u |-> BytesOf(n, k)]
    BY <2>1, <2>2
  <2> QED BY <2>2, <2>3 DEF u
<1> QED BY <1>2, <1>3, <1>4 DEF ClientIsSound

\* The text client is sound, for any number of connections and any length of a text,
\* however sends and receives are divided: TextIOCPClient.cpp.
THEOREM ClientHolds == Spec => []ClientIsSound
<1>1. Init => CliInv
  BY CliInit
<1>2. CliInv /\ [Next]_vars => CliInv'
  BY CliStep
<1>3. CliInv => ClientIsSound
  BY CliSound
<1> QED BY <1>1, <1>2, <1>3, PTL DEF Spec

-----------------------------------------------------------------------------
(* The specification of the run.                                            *)

\* A step of it is a step of each module, or leaves that module alone.
LEMMA ProtocolSteps ==
    ASSUME [MCNext]_MCVars
    PROVE  /\ [Next]_vars /\ [Server!Next]_(Server!vars)
           /\ [Packages!Next]_(Packages!vars) /\ [Packer!Next]_(Packer!vars)
<1>1. UNCHANGED serverVars => UNCHANGED Server!vars
  BY DEF serverVars, Server!vars, Server!peer, Server!lifetime, Server!data, Server!history
<1>2. UNCHANGED packagesVars => UNCHANGED Packages!vars
  BY DEF packagesVars, Packages!vars, Packages!peer, Packages!lifetime, Packages!history
<1>3. UNCHANGED packerVars => UNCHANGED Packer!vars
  BY DEF packerVars, Packer!vars, Packer!link, Packer!buffers, Packer!traffic
<1>4. Next \/ UNCHANGED vars
  BY Zenon DEF MCNext, MCVars
<1>5. Server!Next \/ UNCHANGED serverVars
  BY Zenon DEF MCNext, MCVars
<1>6. Packages!Next \/ UNCHANGED packagesVars
  BY Zenon DEF MCNext, MCVars
<1>7. Packer!Next \/ UNCHANGED packerVars
  BY Zenon DEF MCNext, MCVars
<1> QED BY <1>1, <1>2, <1>3, <1>4, <1>5, <1>6, <1>7

\* What the run checks of the servers and the clients, for every value of the
\* constants and whichever of them a behaviour is about.
THEOREM ProtocolsHold ==
    MCSpec => /\ [](/\ ClientIsSound /\ TextServerIsSound
                    /\ PackageServerIsSound /\ PackageClientIsSound)
              /\ JamIsPermanent
<1> DEFINE I == CliInv /\ TxtInv /\ PkgInv /\ PckInv
           J == /\ ClientIsSound /\ TextServerIsSound
                /\ PackageServerIsSound /\ PackageClientIsSound
           A == \A c \in Connections : pkgBuffer[c] # <<>> /\ Packages!FirstSize(c) < Len(pkgBuffer[c])
                    => pkgDelivered'[c] = pkgDelivered[c] /\ Len(pkgBuffer'[c]) >= Len(pkgBuffer[c])
<1>1. MCInit => I
  BY CliInit, TxtInit, PkgInit, PckInit, Zenon DEF MCInit
<1>2. I /\ [MCNext]_MCVars => I'
  BY ProtocolSteps, CliStep, TxtStep, PkgStep, PckStep
<1>3. I => J
  BY CliSound, TxtSound, PkgSound, PckSound
<1>4. I /\ [MCNext]_MCVars => [A]_(Packages!vars)
  BY ProtocolSteps, PkgJam
<1>5. MCSpec => []J /\ [][A]_(Packages!vars)
  <2> HIDE DEF A, I, J
  <2> QED BY <1>1, <1>2, <1>3, <1>4, PTL DEF MCSpec
<1> QED BY <1>5 DEF JamIsPermanent, Packages!JamIsPermanent

===============================================================================
