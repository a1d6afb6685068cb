---------------------------- MODULE SequenceLemmas ----------------------------
(***************************************************************************)
(* Lemmas about sequences that are put together: induction over Nat stated *)
(* with a set, FlattenSeq, Append, and functions that are defined          *)
(* recursively from 0 on.                                                  *)
(***************************************************************************)
EXTENDS Integers, FiniteSets, FiniteSetTheorems, WellFoundedInduction,
        SequencesExt, SequenceTheorems, TLAPS

-----------------------------------------------------------------------------
(* Induction.                                                              *)

\* A non-empty set of naturals has a smallest element: among the intervals that end
\* in an element below a given one there is one with no other inside it.
LEMMA LeastNatural ==
    ASSUME NEW N \in SUBSET Nat, N # {}
    PROVE  \E m \in N : \A k \in N : m <= k
<1>1. PICK n \in N : TRUE
  OBVIOUS
<1> DEFINE T == {0..m : m \in {k \in N : k <= n}}
           R == StrictSubsetOrdering(0..n)
<1>2. IsFiniteSet(0..n)
  BY FS_Interval
<1>3. IsWellFoundedOn(R, SUBSET (0..n))
  BY <1>2, FS_StrictSubsetOrderingWellFounded, FS_FiniteSubsetsOfFinite
<1>4. T \subseteq SUBSET (0..n) /\ T # {}
  BY <1>1
<1>5. PICK t \in T : \A u \in T : ~(<<u, t>> \in R)
  <2> HIDE DEF T, R
  <2> QED  BY <1>3, <1>4, WFMin
<1>6. PICK m \in N : m <= n /\ t = 0..m
  BY <1>5
<1>7. ASSUME NEW k \in N, k < m PROVE FALSE
  <2>1. 0..k \in T /\ 0..k \subseteq t /\ 0..k # t
    BY <1>6, <1>7
  <2>2. <<0..k, t>> \in R
    BY <2>1, <1>4, <1>5 DEF StrictSubsetOrdering
  <2> QED  BY <2>1, <2>2, <1>5
<1> QED  BY <1>6, <1>7

\* A set that has 0 and with each number the next one has all naturals.
LEMMA Induction ==
    ASSUME NEW N, 0 \in N, \A n \in Nat : n \in N => n + 1 \in N
    PROVE  Nat \subseteq N
<1> SUFFICES ASSUME Nat \ N # {} PROVE FALSE
  OBVIOUS
<1>1. PICK m \in Nat \ N : \A k \in Nat \ N : m <= k
  BY LeastNatural
<1>2. m - 1 \in Nat /\ m - 1 \in N
  BY <1>1
<1> QED  BY <1>1, <1>2

-----------------------------------------------------------------------------
(* FlattenSeq. Its recursive function exists and is unique.                *)

\* f is the function of FlattenSeq for the first n sequences of s.
Flattens(f, s, n) == f = [i \in 1..n |-> IF i = 1 THEN s[i] ELSE f[i-1] \o s[i]]

\* There is such a function for every n.
LEMMA FlattensExists ==
    ASSUME NEW s
    PROVE  \A n \in Nat : \E f : Flattens(f, s, n)
<1> DEFINE N == {n \in Nat : \E f : Flattens(f, s, n)}
<1>1. 0 \in N
  <2>1. Flattens([i \in 1..0 |-> 0], s, 0)
    BY DEF Flattens
  <2> QED  BY <2>1
<1>2. ASSUME NEW n \in Nat, n \in N PROVE n + 1 \in N
  <2>1. PICK f : f = [i \in 1..n |-> IF i = 1 THEN s[i] ELSE f[i-1] \o s[i]]
    BY <1>2 DEF Flattens
  <2> DEFINE g == [i \in 1..(n+1) |-> IF i <= n THEN f[i]
                                      ELSE IF i = 1 THEN s[i] ELSE f[n] \o s[i]]
  <2>2. \A i \in 1..(n+1) : g[i] = IF i = 1 THEN s[i] ELSE g[i-1] \o s[i]
    <3> SUFFICES ASSUME NEW i \in 1..(n+1)
                 PROVE  g[i] = IF i = 1 THEN s[i] ELSE g[i-1] \o s[i]
      OBVIOUS
    <3>1. CASE i <= n
      <4>1. f[i] = IF i = 1 THEN s[i] ELSE f[i-1] \o s[i]
        <5> HIDE DEF g
        <5>1. i \in 1..n
          BY <3>1
        <5>2. \A j \in 1..n : f[j] = IF j = 1 THEN s[j] ELSE f[j-1] \o s[j]
          BY <2>1
        <5> QED  BY <5>1, <5>2
      <4>2. i # 1 => g[i-1] = f[i-1]
        BY <3>1
      <4>3. g[i] = f[i]
        BY <3>1
      <4> HIDE DEF g
      <4> QED  BY <4>1, <4>2, <4>3
    <3>2. CASE i = n + 1
      <4>1. i # 1 => g[i-1] = f[n]
        BY <3>2
      <4>2. g[i] = IF i = 1 THEN s[i] ELSE f[n] \o s[i]
        BY <3>2
      <4> HIDE DEF g
      <4> QED  BY <4>1, <4>2
    <3> QED  BY <3>1, <3>2
  <2>3. g = [i \in 1..(n+1) |-> IF i = 1 THEN s[i] ELSE g[i-1] \o s[i]]
    <3>1. g = [i \in 1..(n+1) |-> g[i]]
      OBVIOUS
    <3> HIDE DEF g
    <3> QED  BY <2>2, <3>1
  <2>4. Flattens(g, s, n + 1)
    <3> HIDE DEF g
    <3> QED  BY <2>3 DEF Flattens
  <2> HIDE DEF g
  <2> QED  BY <2>4
<1> HIDE DEF N
<1>3. Nat \subseteq N
  BY <1>1, <1>2, Induction
<1> QED  BY <1>3 DEF N

\* It depends on the sequences before n only.
LEMMA FlattensUnique ==
    ASSUME NEW s, NEW t, NEW f, NEW g, NEW m \in Nat, NEW n \in Nat,
           Flattens(f, s, m), Flattens(g, t, n), m <= n,
           \A i \in 1..m : s[i] = t[i]
    PROVE  \A i \in 1..m : f[i] = g[i]
<1> DEFINE N == {k \in Nat : k \in 1..m => f[k] = g[k]}
<1>1. \A i \in 1..m : f[i] = IF i = 1 THEN s[i] ELSE f[i-1] \o s[i]
  BY DEF Flattens
<1>2. \A i \in 1..n : g[i] = IF i = 1 THEN t[i] ELSE g[i-1] \o t[i]
  BY DEF Flattens
<1>3. 0 \in N
  OBVIOUS
<1>4. ASSUME NEW k \in Nat, k \in N PROVE k + 1 \in N
  <2> SUFFICES ASSUME k + 1 \in 1..m PROVE f[k+1] = g[k+1]
    OBVIOUS
  <2>1. f[k+1] = IF k + 1 = 1 THEN s[k+1] ELSE f[k] \o s[k+1]
    BY <1>1
  <2>2. k + 1 \in 1..n /\ s[k+1] = t[k+1]
    OBVIOUS
  <2>3. g[k+1] = IF k + 1 = 1 THEN t[k+1] ELSE g[k] \o t[k+1]
    BY <1>2, <2>2
  <2>4. CASE k = 0
    BY <2>1, <2>2, <2>3, <2>4
  <2>5. CASE k # 0
    <3>1. f[k] = g[k]
      BY <1>4, <2>5
    <3> QED  BY <2>1, <2>2, <2>3, <2>5, <3>1
  <2> QED  BY <2>4, <2>5
<1> HIDE DEF N
<1>5. Nat \subseteq N
  BY <1>3, <1>4, Induction
<1> QED  BY <1>5 DEF N

\* FlattenSeq is the last value of that function.
LEMMA FlattenIsLast ==
    ASSUME NEW s, Len(s) \in Nat, Len(s) # 0
    PROVE  \E f : Flattens(f, s, Len(s)) /\ FlattenSeq(s) = f[Len(s)]
<1> DEFINE f == CHOOSE f : f = [i \in 1..Len(s) |-> IF i = 1 THEN s[i] ELSE f[i-1] \o s[i]]
<1>1. \E g : g = [i \in 1..Len(s) |-> IF i = 1 THEN s[i] ELSE g[i-1] \o s[i]]
  BY FlattensExists DEF Flattens
<1>2. Flattens(f, s, Len(s))
  BY <1>1 DEF Flattens
<1>3. FlattenSeq(s) = f[Len(s)]
  BY DEF FlattenSeq
<1> QED  BY <1>2, <1>3

\* Nothing to flatten.
LEMMA FlattenEmpty == FlattenSeq(<<>>) = <<>>
BY DEF FlattenSeq

\* One more sequence at the end.
LEMMA FlattenAppend ==
    ASSUME NEW T, NEW s \in Seq(Seq(T)), NEW x \in Seq(T)
    PROVE  FlattenSeq(Append(s, x)) = FlattenSeq(s) \o x
<1> DEFINE n == Len(s)
           t == Append(s, x)
<1>1. n \in Nat /\ Len(t) = n + 1 /\ t[n+1] = x /\ \A i \in 1..n : s[i] = t[i]
  OBVIOUS
<1>2. PICK g : Flattens(g, t, n + 1) /\ FlattenSeq(t) = g[n+1]
  <2> HIDE DEF t
  <2> QED  BY <1>1, FlattenIsLast
<1>3. g[n+1] = IF n + 1 = 1 THEN x ELSE g[n] \o x
  <2>1. \A i \in 1..(n+1) : g[i] = IF i = 1 THEN t[i] ELSE g[i-1] \o t[i]
    BY <1>2 DEF Flattens
  <2> HIDE DEF t, n
  <2> QED  BY <1>1, <2>1
<1>4. CASE n = 0
  <2>1. s = <<>>
    BY <1>4
  <2>2. <<>> \o x = x
    OBVIOUS
  <2> QED  BY <1>2, <1>3, <1>4, <2>1, <2>2, FlattenEmpty
<1>5. CASE n # 0
  <2>1. PICK f : Flattens(f, s, n) /\ FlattenSeq(s) = f[n]
    BY <1>1, <1>5, FlattenIsLast
  <2>2. \A i \in 1..n : f[i] = g[i]
    <3> HIDE DEF t, n
    <3> QED  BY <1>1, <1>2, <2>1, FlattensUnique
  <2> HIDE DEF t, n
  <2>3. n + 1 # 1 /\ n \in 1..n
    BY <1>1, <1>5
  <2>4. FlattenSeq(t) = f[n] \o x
    BY <1>2, <1>3, <2>2, <2>3
  <2> QED  BY <2>1, <2>4 DEF t
<1> QED  BY <1>4, <1>5

\* A list of sequences that is not empty is a shorter list, and one sequence more.
LEMMA FrontAndLast ==
    ASSUME NEW T, NEW s \in Seq(Seq(T)), Len(s) # 0
    PROVE  \E f \in Seq(Seq(T)) : \E x \in Seq(T) : s = Append(f, x)
<1> DEFINE S == Seq(T)
<1>1. s # <<>> /\ s \in Seq(S)
  OBVIOUS
<1> HIDE DEF S
<1>2. PICK f \in Seq(S) : \E x \in S : s = Append(f, x)
  BY <1>1, SequenceEmptyOrAppend
<1> QED  BY <1>2 DEF S

\* The elements of the flattened sequence are those of the parts.
LEMMA FlattenTypes ==
    ASSUME NEW T
    PROVE  \A s \in Seq(Seq(T)) : FlattenSeq(s) \in Seq(T)
<1> DEFINE N == {n \in Nat : \A s \in Seq(Seq(T)) : Len(s) = n => FlattenSeq(s) \in Seq(T)}
<1>1. 0 \in N
  <2> SUFFICES ASSUME NEW s \in Seq(Seq(T)), Len(s) = 0 PROVE FlattenSeq(s) \in Seq(T)
    OBVIOUS
  <2>1. s = <<>>
    OBVIOUS
  <2>2. <<>> \in Seq(T)
    OBVIOUS
  <2> QED  BY <2>1, <2>2, FlattenEmpty
<1>2. ASSUME NEW n \in Nat, n \in N PROVE n + 1 \in N
  <2> SUFFICES ASSUME NEW s \in Seq(Seq(T)), Len(s) = n + 1 PROVE FlattenSeq(s) \in Seq(T)
    OBVIOUS
  <2>0. Len(s) # 0
    OBVIOUS
  <2>1. PICK f \in Seq(Seq(T)) : \E x \in Seq(T) : s = Append(f, x)
    BY <2>0, FrontAndLast
  <2>2. PICK x \in Seq(T) : s = Append(f, x)
    BY <2>1
  <2>l. Len(f) = n
    BY <2>2
  <2>3. FlattenSeq(s) = FlattenSeq(f) \o x /\ FlattenSeq(f) \in Seq(T)
    BY <1>2, <2>2, <2>l, FlattenAppend
  <2> QED  BY <2>3
<1> HIDE DEF N
<1>3. Nat \subseteq N
  BY <1>1, <1>2, Induction
<1> QED  BY <1>3 DEF N

\* What two lists of sequences flatten to, one after the other.
LEMMA FlattenJoined ==
    ASSUME NEW T, NEW s \in Seq(Seq(T))
    PROVE  \A t \in Seq(Seq(T)) : FlattenSeq(s \o t) = FlattenSeq(s) \o FlattenSeq(t)
<1> DEFINE N == {n \in Nat : \A t \in Seq(Seq(T)) :
                     Len(t) = n => FlattenSeq(s \o t) = FlattenSeq(s) \o FlattenSeq(t)}
<1>0. FlattenSeq(s) \in Seq(T)
  BY FlattenTypes
<1>1. 0 \in N
  <2> SUFFICES ASSUME NEW t \in Seq(Seq(T)), Len(t) = 0
               PROVE  FlattenSeq(s \o t) = FlattenSeq(s) \o FlattenSeq(t)
    OBVIOUS
  <2>1. t = <<>> /\ s \o <<>> = s
    OBVIOUS
  <2>2. FlattenSeq(s) \o <<>> = FlattenSeq(s)
    BY <1>0
  <2> QED  BY <2>1, <2>2, FlattenEmpty
<1>2. ASSUME NEW n \in Nat, n \in N PROVE n + 1 \in N
  <2> SUFFICES ASSUME NEW t \in Seq(Seq(T)), Len(t) = n + 1
               PROVE  FlattenSeq(s \o t) = FlattenSeq(s) \o FlattenSeq(t)
    OBVIOUS
  <2>0. Len(t) # 0
    OBVIOUS
  <2>1. PICK f \in Seq(Seq(T)) : \E x \in Seq(T) : t = Append(f, x)
    BY <2>0, FrontAndLast
  <2>2. PICK x \in Seq(T) : t = Append(f, x)
    BY <2>1
  <2>l. Len(f) = n
    BY <2>2
  <2>3. FlattenSeq(t) = FlattenSeq(f) \o x /\ FlattenSeq(f) \in Seq(T)
    BY <2>2, FlattenAppend, FlattenTypes
  <2>4. s \o t = Append(s \o f, x) /\ s \o f \in Seq(Seq(T))
    <3> DEFINE Q == Seq(T)
               y == <<x>>
    <3>1. y \in Seq(Q)
      OBVIOUS
    <3> HIDE DEF Q, y
    <3>2. s \in Seq(Q) /\ f \in Seq(Q) /\ x \in Q
      BY DEF Q
    <3>3. (s \o f) \o y = s \o (f \o y)
      BY <3>1, <3>2, ConcatAssociative
    <3>4. s \o f \in Seq(Q) /\ t = f \o y
      BY <2>2, <3>2, AppendIsConcat, ConcatProperties DEF y
    <3>5. Append(s \o f, x) = (s \o f) \o y
      BY <3>2, <3>4, AppendIsConcat DEF y
    <3> QED  BY <3>3, <3>4, <3>5 DEF Q
  <2>5. FlattenSeq(s \o f) = FlattenSeq(s) \o FlattenSeq(f)
    BY <1>2, <2>2, <2>l
  <2>6. FlattenSeq(s \o t) = FlattenSeq(s \o f) \o x
    BY <2>4, FlattenAppend
  <2> DEFINE a == FlattenSeq(s)
             b == FlattenSeq(f)
  <2> HIDE DEF a, b
  <2>7. a \in Seq(T) /\ b \in Seq(T)
    BY <1>0, <2>3 DEF a, b
  <2>8. (a \o b) \o x = a \o (b \o x)
    BY <2>7, ConcatAssociative
  <2> QED  BY <2>3, <2>5, <2>6, <2>8 DEF a, b
<1> HIDE DEF N
<1>3. Nat \subseteq N
  BY <1>1, <1>2, Induction
<1> QED  BY <1>3 DEF N

\* The first of two joined sequences is a prefix, and so is a shorter prefix.
LEMMA JoinedPrefix ==
    ASSUME NEW T, NEW s \in Seq(T), NEW t \in Seq(T)
    PROVE  IsPrefix(s, s \o t)
<1>1. SubSeq(s, 1, Len(s)) = s /\ SubSeq(s \o t, 1, Len(s)) = s /\ Len(s) <= Len(s \o t)
  OBVIOUS
<1> QED  BY <1>1 DEF IsPrefix

-----------------------------------------------------------------------------
(* Recursive functions over 0..n.                                           *)

\* f begins with z and goes on by g, from the place and the value before it.
Recurses(f, z, g, n) ==
    f = [i \in 0..n |-> IF i = 0 THEN z ELSE g[<<i, f[i-1]>>]]

\* A function defined by its first value and a step from each value to the next
\* exists, and stays in the set the step stays in.
LEMMA RecursionExists ==
    ASSUME NEW S, NEW z \in S, NEW n \in Nat, NEW g \in [(1..n) \X S -> S]
    PROVE  \E f \in [0..n -> S] : Recurses(f, z, g, n)
<1> DEFINE N == {m \in Nat : m <= n => \E f \in [0..m -> S] : Recurses(f, z, g, m)}
<1>1. 0 \in N
  <2> DEFINE f == [i \in 0..0 |-> z]
  <2>1. f \in [0..0 -> S] /\ f = [i \in 0..0 |-> IF i = 0 THEN z ELSE g[<<i, f[i-1]>>]]
    OBVIOUS
  <2> QED BY <2>1 DEF Recurses
<1>2. ASSUME NEW m \in Nat, m \in N PROVE m + 1 \in N
  <2> SUFFICES ASSUME m + 1 <= n
               PROVE  \E h \in [0..(m + 1) -> S] : Recurses(h, z, g, m + 1)
    OBVIOUS
  <2>1. PICK f \in [0..m -> S] : Recurses(f, z, g, m)
    BY <1>2
  <2>2. f = [i \in 0..m |-> IF i = 0 THEN z ELSE g[<<i, f[i-1]>>]]
    BY <2>1 DEF Recurses
  <2> DEFINE h == [i \in 0..(m + 1) |-> IF i <= m THEN f[i] ELSE g[<<m + 1, f[m]>>]]
  <2>3. h \in [0..(m + 1) -> S]
    <3>1. f[m] \in S /\ m + 1 \in 1..n
      OBVIOUS
    <3>2. <<m + 1, f[m]>> \in (1..n) \X S
      BY <3>1
    <3>3. g[<<m + 1, f[m]>>] \in S
      BY <3>2
    <3>4. \A i \in 0..(m + 1) : i <= m => f[i] \in S
      OBVIOUS
    <3> QED BY <3>3, <3>4
  <2>4. \A i \in 0..(m + 1) : h[i] = IF i = 0 THEN z ELSE g[<<i, h[i-1]>>]
    <3> SUFFICES ASSUME NEW i \in 0..(m + 1)
                 PROVE  h[i] = IF i = 0 THEN z ELSE g[<<i, h[i-1]>>]
      OBVIOUS
    <3>1. CASE i <= m
      <4>1. h[i] = f[i] /\ (i # 0 => h[i-1] = f[i-1])
        BY <3>1
      <4>2. f[i] = IF i = 0 THEN z ELSE g[<<i, f[i-1]>>]
        BY <3>1, <2>2
      <4> QED BY <4>1, <4>2
    <3>2. CASE i = m + 1
      <4>1. h[i] = g[<<m + 1, f[m]>>] /\ h[i-1] = f[m] /\ i # 0
        BY <3>2
      <4> QED BY <4>1, <3>2
    <3> QED BY <3>1, <3>2
  <2>5. h = [i \in 0..(m + 1) |-> IF i = 0 THEN z ELSE g[<<i, h[i-1]>>]]
    <3>1. h = [i \in 0..(m + 1) |-> h[i]]
      OBVIOUS
    <3> HIDE DEF h
    <3> QED BY <2>4, <3>1
  <2> QED BY <2>3, <2>5 DEF Recurses
<1>3. n \in N
  BY <1>1, <1>2, Induction
<1> QED BY <1>3

\* The running totals of s.
Totals(f, s, n) == f = [i \in 0..n |-> IF i = 0 THEN 0 ELSE f[i-1] + s[i]]

\* Running totals exist.
LEMMA TotalsExist ==
    ASSUME NEW s, NEW n \in Nat, \A i \in 1..n : s[i] \in Nat
    PROVE  \E f \in [0..n -> Nat] : Totals(f, s, n)
<1> DEFINE g == [p \in (1..n) \X Nat |-> p[2] + s[p[1]]]
<1>1. g \in [(1..n) \X Nat -> Nat]
  OBVIOUS
<1>2. PICK f \in [0..n -> Nat] : Recurses(f, 0, g, n)
  <2> HIDE DEF g
  <2> QED BY <1>1, RecursionExists
<1>3. \A i \in 0..n : f[i] = IF i = 0 THEN 0 ELSE g[<<i, f[i-1]>>]
  BY <1>2 DEF Recurses
<1>4. \A i \in 1..n : g[<<i, f[i-1]>>] = f[i-1] + s[i]
  <2> SUFFICES ASSUME NEW i \in 1..n PROVE g[<<i, f[i-1]>>] = f[i-1] + s[i]
    OBVIOUS
  <2>1. f[i-1] \in Nat
    OBVIOUS
  <2> QED BY <2>1
<1>5. \A i \in 0..n : f[i] = IF i = 0 THEN 0 ELSE f[i-1] + s[i]
  <2> SUFFICES ASSUME NEW i \in 0..n PROVE f[i] = IF i = 0 THEN 0 ELSE f[i-1] + s[i]
    OBVIOUS
  <2>1. f[i] = IF i = 0 THEN 0 ELSE g[<<i, f[i-1]>>]
    BY <1>3
  <2>2. i = 0 \/ i \in 1..n
    OBVIOUS
  <2>3. i # 0 => g[<<i, f[i-1]>>] = f[i-1] + s[i]
    BY <2>2, <1>4
  <2> HIDE DEF g
  <2> QED BY <2>1, <2>3
<1>6. f = [i \in 0..n |-> f[i]]
  OBVIOUS
<1>7. Totals(f, s, n)
  BY <1>5, <1>6 DEF Totals
<1> QED BY <1>7

\* They begin with 0 and grow by one number after the other.
LEMMA TotalsGrow ==
    ASSUME NEW s, NEW n \in Nat, \A i \in 1..n : s[i] \in Nat, NEW f, Totals(f, s, n)
    PROVE  /\ f \in [0..n -> Nat] /\ f[0] = 0
           /\ \A i \in 1..n : f[i] = f[i - 1] + s[i]
<1>1. f = [i \in 0..n |-> IF i = 0 THEN 0 ELSE f[i-1] + s[i]]
  BY DEF Totals
<1>2. f[0] = 0
  BY <1>1
<1>3. \A i \in 1..n : f[i] = f[i - 1] + s[i]
  BY <1>1
<1> DEFINE N == {i \in Nat : i <= n => f[i] \in Nat}
<1>4. 0 \in N
  BY <1>2
<1>5. ASSUME NEW i \in Nat, i \in N PROVE i + 1 \in N
  <2> SUFFICES ASSUME i + 1 <= n PROVE f[i + 1] \in Nat
    OBVIOUS
  <2>1. i + 1 \in 1..n /\ (i + 1) - 1 = i /\ f[i] \in Nat
    BY <1>5
  <2> QED BY <2>1, <1>3
<1>6. Nat \subseteq N
  <2> HIDE DEF N
  <2> QED BY <1>4, <1>5, Induction
<1>7. \A i \in 0..n : f[i] \in Nat
  BY <1>6
<1>8. f = [i \in 0..n |-> f[i]]
  BY <1>1
<1>9. f \in [0..n -> Nat]
  BY <1>7, <1>8
<1> QED BY <1>2, <1>3, <1>9

\* The running totals of positive numbers rise.
LEMMA TotalsRise ==
    ASSUME NEW n \in Nat, NEW f \in [0..n -> Nat], \A i \in 1..n : f[i-1] < f[i]
    PROVE  \A j, k \in 0..n : j < k => f[j] < f[k]
<1> SUFFICES ASSUME NEW j \in 0..n PROVE \A k \in 0..n : j < k => f[j] < f[k]
  OBVIOUS
<1> DEFINE N == {k \in Nat : k <= n /\ j < k => f[j] < f[k]}
<1>1. 0 \in N
  OBVIOUS
<1>2. ASSUME NEW k \in Nat, k \in N PROVE k + 1 \in N
  <2> SUFFICES ASSUME k + 1 <= n, j < k + 1 PROVE f[j] < f[k + 1]
    OBVIOUS
  <2>1. f[k] < f[k + 1] /\ f[k] \in Nat /\ f[k + 1] \in Nat /\ f[j] \in Nat
    <3>1. k + 1 \in 1..n /\ (k + 1) - 1 = k /\ k \in 0..n
      OBVIOUS
    <3> QED BY <3>1
  <2>2. j = k \/ j < k
    OBVIOUS
  <2>3. j < k => f[j] < f[k]
    BY <1>2
  <2> QED BY <2>1, <2>2, <2>3
<1>3. Nat \subseteq N
  BY <1>1, <1>2, Induction
<1> QED BY <1>3
================================================================================
