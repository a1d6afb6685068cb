-------------------------- MODULE SendPipeline_proofs --------------------------
(***************************************************************************)
(* Proofs about SendPipeline. Nothing is forgotten, whatever the number of *)
(* workers and sending threads. With one worker and no sending thread      *)
(* there is one send at a time, buffers are completed in the order of the  *)
(* calls, and the send path implements BytePipe.                           *)
(***************************************************************************)
EXTENDS SendPipeline, SequenceLemmas, FiniteSetTheorems, TLAPS

-----------------------------------------------------------------------------
(* The inductive invariants.                                               *)

WriteStates == {"advance", "measure", "swap", "check", "post"}

\* TypeOK without the position of the reader, which two workers can push beyond
\* the buffer.
Types ==
    /\ reader = NoReader \/ reader \in [buffer : Buffers, position : Nat]
    /\ queue \in Seq(Buffers) /\ accepted \in Seq(Buffers) /\ completed \in Seq(Buffers)
    /\ posted \in Seq(PostedRanges) /\ port \in Seq(Nat)
    /\ wire \in Seq(Buffers \X Nat) /\ used \in 0..Len(Lengths)
    /\ receiver \in Workers \cup {Nobody} /\ size \in [Workers -> Nat]
    /\ pc \in [Workers -> {"idle", "receive"} \cup WriteStates]

\* Some operation is under way.
Busy == posted # <<>> \/ port # <<>> \/ \E w \in Workers : pc[w] \in WriteStates

\* Buffers only wait behind a reader, and a reader has somebody at work for it.
SomebodyCares ==
    /\ reader = NoReader => queue = <<>>
    /\ socketOpen /\ ~undefined /\ reader # NoReader => Busy

\* With one worker w. What is under way belongs to the reader, and is inside it.
Fits(n) == reader # NoReader /\ reader.position + n <= Lengths[reader.buffer]
AtMostOne(w) ==
    /\ posted = <<>> \/ /\ posted = <<[buffer |-> reader.buffer, from |-> reader.position]>>
                        /\ Fits(0) /\ port = <<>> /\ pc[w] \notin WriteStates
    /\ port = <<>> \/ /\ port = <<port[1]>> /\ Fits(port[1])
                      /\ posted = <<>> /\ pc[w] \notin WriteStates
    /\ reader # NoReader => Fits(0)
    /\ pc[w] = "advance" => Fits(size[w])
    /\ pc[w] \in {"measure", "swap", "post"} => Fits(0)
    /\ ~undefined

\* m_nPosition does not leave the buffer.
Inside ==
    reader # NoReader =>
        reader.buffer \in Buffers /\ reader.position \in 0..Lengths[reader.buffer]

\* One worker, and no thread that sends.
Lonely == (\A v, w \in Workers : v = w) /\ Senders = {}
OneSend == \A w \in Workers : AtMostOne(w)

-----------------------------------------------------------------------------
(* The steps keep them.                                                   *)

\* The steps of the send path.
LEMMA NextCases ==
    [Next]_vars =>
        \/ SendFromThread
        \/ \E w \in Workers : SendFromCallback(w)
        \/ \E w \in Workers : Dequeue(w)
        \/ \E w \in Workers : AdvancePosition(w)
        \/ \E w \in Workers : MeasurePosition(w)
        \/ \E w \in Workers : SwapReader(w)
        \/ \E w \in Workers : CheckReader(w)
        \/ \E w \in Workers : PostRest(w)
        \/ \E w \in Workers : PostRestFailed(w)
        \/ \E w \in Workers : BeginReceive(w)
        \/ \E w \in Workers : EndReceive(w)
        \/ \E w \in Workers : UseLostReader(w)
        \/ \E b \in Buffers : \E n \in 1..Lengths[b] : Transmit(n)
        \/ Disconnect
        \/ UNCHANGED vars
BY DEF Next, Write, Kernel, AtRest

\* One more element.
LEMMA Appended ==
    ASSUME NEW S, NEW s \in Seq(S), NEW e \in S
    PROVE  Append(s, e) \in Seq(S) /\ Append(s, e) # <<>>
<1>1. Append(s, e) \in Seq(S) /\ Len(Append(s, e)) = Len(s) + 1 /\ Len(s) \in Nat
  OBVIOUS
<1>2. Len(<<>>) = 0
  OBVIOUS
<1> QED  BY <1>1, <1>2

\* The empty sequence.
LEMMA Nothing == ASSUME NEW S PROVE <<>> \in Seq(S)
OBVIOUS

\* One element less.
LEMMA HeadAndTail ==
    ASSUME NEW S, NEW s \in Seq(S), s # <<>>
    PROVE  Head(s) \in S /\ Tail(s) \in Seq(S)
OBVIOUS

\* A part of a sequence.
LEMMA Part ==
    ASSUME NEW S, NEW s \in Seq(S), NEW m \in Nat, NEW n \in Nat, m >= 1, n <= Len(s)
    PROVE  SubSeq(s, m, n) \in Seq(S)
OBVIOUS

\* Two sequences.
LEMMA Joined ==
    ASSUME NEW S, NEW s \in Seq(S), NEW t \in Seq(S)
    PROVE  s \o t \in Seq(S)
OBVIOUS

\* The bytes of a buffer.
LEMMA BytesTypes ==
    ASSUME NEW b \in Buffers, Lengths[b] \in Nat
    PROVE  BytesOf(b) \in Seq(Buffers \X Nat) /\ Len(BytesOf(b)) = Lengths[b]
<1>1. \A i \in 1..Lengths[b] : <<b, i>> \in Buffers \X Nat
  OBVIOUS
<1>2. BytesOf(b) \in [1..Lengths[b] -> Buffers \X Nat]
  BY <1>1 DEF BytesOf
<1> QED  BY <1>2

\* The lengths of the buffers.
LEMMA LengthsFact ==
    /\ Len(Lengths) \in Nat /\ Buffers = 1..Len(Lengths)
    /\ \A b \in Buffers : Lengths[b] \in Nat /\ Lengths[b] > 0
    /\ Nobody \notin Workers
<1>1. Lengths \in Seq(Nat \ {0})
  BY PipelineAssumption
<1>2. Len(Lengths) \in Nat /\ \A b \in 1..Len(Lengths) : Lengths[b] \in Nat \ {0}
  BY <1>1
<1>3. Nobody \notin Workers
  BY PipelineAssumption DEF Threads
<1> QED  BY <1>2, <1>3 DEF Buffers

\* Send keeps the types.
LEMMA SendTypes == Types /\ Send /\ UNCHANGED control => Types'
<1> SUFFICES ASSUME Types, Send, UNCHANGED control PROVE Types'
  OBVIOUS
<1> DEFINE b == used + 1
<1>1. /\ b \in Buffers /\ used' \in 0..Len(Lengths) /\ completed' = completed
      /\ UNCHANGED <<receiver, size, pc>>
  BY LengthsFact DEF Send, control, Types
<1>2. SendRefused(b) \/ SendQueued(b) \/ SendPosted(b)
  BY DEF Send
<1> HIDE DEF b
<1>3. /\ Append(queue, b) \in Seq(Buffers) /\ Append(accepted, b) \in Seq(Buffers)
      /\ Append(posted, [buffer |-> b, from |-> 0]) \in Seq(PostedRanges)
  <2>1. [buffer |-> b, from |-> 0] \in PostedRanges
    BY <1>1 DEF PostedRanges
  <2> QED  BY <1>1, <2>1, Appended DEF Types
<1>4. CASE SendRefused(b)
  BY <1>1, <1>4 DEF SendRefused, Types, lists
<1>5. CASE SendQueued(b)
  BY <1>1, <1>3, <1>5 DEF SendQueued, Push, Types, lists
<1>6. CASE SendPosted(b)
  <2>1. reader' \in [buffer : Buffers, position : Nat]
    BY <1>1, <1>6 DEF SendPosted
  <2>2. posted' \in Seq(PostedRanges)
    <3>1. posted' = Append(posted, [buffer |-> b, from |-> 0]) \/ posted' = <<>>
      BY <1>6 DEF SendPosted
    <3> QED  BY <1>3, <3>1, Nothing
  <2>3. accepted' \in Seq(Buffers) /\ UNCHANGED <<queue, port, wire>>
    BY <1>3, <1>6 DEF SendPosted, Types
  <2> QED  BY <1>1, <2>1, <2>2, <2>3 DEF Types
<1> QED  BY <1>2, <1>4, <1>5, <1>6

\* Send finds or makes a reader that somebody works for.
LEMMA SendCares == Types /\ SomebodyCares /\ Send /\ UNCHANGED control => SomebodyCares'
<1> SUFFICES ASSUME Types, SomebodyCares, Send, UNCHANGED control PROVE SomebodyCares'
  OBVIOUS
<1> DEFINE b == used + 1
<1>1. b # 0 /\ undefined' = undefined /\ pc' = pc
  BY LengthsFact DEF Send, control, Types
<1>2. SendRefused(b) \/ SendQueued(b) \/ SendPosted(b)
  BY DEF Send
<1> HIDE DEF b
<1>4. CASE SendRefused(b)
  BY <1>1, <1>4 DEF SendRefused, SomebodyCares, Busy, lists
<1>5. CASE SendQueued(b)
  BY <1>1, <1>5 DEF SendQueued, Push, SomebodyCares, Busy, lists
<1>6. CASE SendPosted(b)
  <2>1. reader' # NoReader
    BY <1>1, <1>6 DEF SendPosted, NoReader
  <2>2. socketOpen' => posted' # <<>>
    BY <1>6 DEF SendPosted, Types
  <2> QED  BY <2>1, <2>2 DEF SomebodyCares, Busy
<1> QED  BY <1>2, <1>4, <1>5, <1>6

\* Types.
LEMMA TypesStep ==
    Types /\ [Next]_vars
        => Types'
<1> SUFFICES ASSUME Types, [Next]_vars
             PROVE  Types'
  OBVIOUS
<1> USE DEF Types, WriteStates, PostedRanges, lists, history, control
<1>l. /\ \A b \in Buffers : Lengths[b] \in Nat /\ Lengths[b] > 0
      /\ Nobody \notin Workers
  BY LengthsFact
<1>1. CASE SendFromThread
  <2>1. Send /\ UNCHANGED control
    BY <1>1 DEF SendFromThread
  <2> QED  BY <2>1, SendTypes
<1>2. ASSUME NEW w \in Workers, SendFromCallback(w) PROVE Types'
  <2>1. Send /\ UNCHANGED control
    BY <1>2 DEF SendFromCallback
  <2> QED  BY <2>1, SendTypes
<1>3. ASSUME NEW w \in Workers, Dequeue(w) PROVE Types'
  BY <1>3, <1>l DEF Dequeue, At
<1>4. ASSUME NEW w \in Workers, AdvancePosition(w) PROVE Types'
  BY <1>4, <1>l DEF AdvancePosition, At, Goto
<1>5. ASSUME NEW w \in Workers, MeasurePosition(w) PROVE Types'
  <2>1. reader.buffer \in Buffers
    BY <1>5 DEF MeasurePosition
  <2>2. completed' \in Seq(Buffers)
    <3>1. completed' = Append(completed, reader.buffer) \/ completed' = completed
      BY <1>5 DEF MeasurePosition
    <3>2. completed \in Seq(Buffers)
      OBVIOUS
    <3> HIDE DEF Types, PostedRanges
    <3> QED  BY <2>1, <3>1, <3>2, Appended
  <2> QED  BY <1>5, <2>2 DEF MeasurePosition, Goto, At
<1>6. ASSUME NEW w \in Workers, SwapReader(w) PROVE Types'
  BY <1>6, <1>l DEF SwapReader, At, Goto, Empty, Pop
<1>7. ASSUME NEW w \in Workers, CheckReader(w) PROVE Types'
  BY <1>7, <1>l DEF CheckReader, At, Goto
<1>8. ASSUME NEW w \in Workers, PostRest(w) PROVE Types'
  BY <1>8, <1>l DEF PostRest, At, Goto
<1>9. ASSUME NEW w \in Workers, PostRestFailed(w) PROVE Types'
  BY <1>9, <1>l DEF PostRestFailed, At, Goto
<1>10. ASSUME NEW w \in Workers, BeginReceive(w) PROVE Types'
  BY <1>10, <1>l DEF BeginReceive, At
<1>11. ASSUME NEW w \in Workers, EndReceive(w) PROVE Types'
  BY <1>11, <1>l DEF EndReceive, At
<1>12. ASSUME NEW w \in Workers, UseLostReader(w) PROVE Types'
  BY <1>12, <1>l DEF UseLostReader
<1>13. ASSUME NEW b \in Buffers, NEW n \in 1..Lengths[b], Transmit(n) PROVE Types'
  <2>1. /\ posted # <<>> /\ posted' = Tail(posted) /\ port' = Append(port, n)
        /\ wire' = wire \o SubSeq(BytesOf(Head(posted).buffer), Head(posted).from + 1,
                                  Head(posted).from + n)
        /\ Head(posted).from + n <= Lengths[Head(posted).buffer]
    BY <1>13 DEF Transmit
  <2>2. /\ Head(posted) \in PostedRanges /\ posted' \in Seq(PostedRanges)
        /\ port' \in Seq(Nat)
    <3>1. posted \in Seq(PostedRanges) /\ port \in Seq(Nat) /\ n \in Nat
      BY <1>l
    <3> HIDE DEF PostedRanges, Types
    <3> QED  BY <2>1, <3>1, HeadAndTail, Appended
  <2>3. wire' \in Seq(Buffers \X Nat)
    <3> DEFINE p == Head(posted)
    <3>1. p.buffer \in Buffers /\ p.from \in Nat
      BY <2>2
    <3> HIDE DEF p
    <3>2. BytesOf(p.buffer) \in Seq(Buffers \X Nat) /\ Len(BytesOf(p.buffer)) = Lengths[p.buffer]
      BY <1>l, <3>1, BytesTypes
    <3>3. n \in Nat /\ p.from + n <= Lengths[p.buffer]
      BY <1>l, <2>1 DEF p
    <3>4. SubSeq(BytesOf(p.buffer), p.from + 1, p.from + n) \in Seq(Buffers \X Nat)
      <4>1. p.from + 1 \in Nat /\ p.from + n \in Nat /\ p.from + 1 >= 1
        BY <3>1, <3>3
      <4> QED  BY <3>2, <3>3, <4>1, Part
    <3> QED  BY <2>1, <3>4, Joined DEF p
  <2> QED  BY <1>13, <2>2, <2>3 DEF Transmit
<1>14. CASE Disconnect
  BY <1>14, <1>l DEF Disconnect
<1>15. CASE UNCHANGED vars
  BY <1>15, <1>l DEF vars
<1> QED  BY <1>1, <1>2, <1>3, <1>4, <1>5, <1>6, <1>7, <1>8, <1>9, <1>10, <1>11,
            <1>12, <1>13, <1>14, <1>15, NextCases

\* A reader has somebody at work for it.
LEMMA CareStep ==
    Types /\ SomebodyCares /\ [Next]_vars
        => SomebodyCares'
<1> SUFFICES ASSUME Types /\ SomebodyCares, [Next]_vars
             PROVE  SomebodyCares'
  OBVIOUS
<1> USE DEF Types, WriteStates, SomebodyCares, Busy, NoReader, lists, history,
            control
<1>l. /\ \A b \in Buffers : Lengths[b] \in Nat /\ Lengths[b] > 0
      /\ Nobody \notin Workers
  BY LengthsFact
<1>1. CASE SendFromThread
  <2>1. Send /\ UNCHANGED control
    BY <1>1 DEF SendFromThread
  <2> QED  BY <2>1, SendCares
<1>2. ASSUME NEW w \in Workers, SendFromCallback(w) PROVE SomebodyCares'
  <2>1. Send /\ UNCHANGED control
    BY <1>2 DEF SendFromCallback
  <2> QED  BY <2>1, SendCares
<1>3. ASSUME NEW w \in Workers, Dequeue(w) PROVE SomebodyCares'
  BY <1>3, <1>l DEF Dequeue, At
<1>4. ASSUME NEW w \in Workers, AdvancePosition(w) PROVE SomebodyCares'
  <2>1. pc[w] = "advance" /\ pc' = [pc EXCEPT ![w] = "measure"] /\ UNCHANGED queue
    BY <1>4 DEF AdvancePosition, Goto, At
  <2>2. pc'[w] \in WriteStates
    BY <2>1
  <2>3. reader' # NoReader
    <3>1. reader.buffer \in Buffers /\ reader'.buffer = reader.buffer
      BY <1>4 DEF AdvancePosition
    <3> QED  BY <3>1, LengthsFact
  <2> QED  BY <2>1, <2>2, <2>3
<1>5. ASSUME NEW w \in Workers, MeasurePosition(w) PROVE SomebodyCares'
  BY <1>5, <1>l DEF MeasurePosition, At, Goto
<1>6. ASSUME NEW w \in Workers, SwapReader(w) PROVE SomebodyCares'
  <2>1. pc[w] = "swap" /\ pc' = [pc EXCEPT ![w] = "check"]
    BY <1>6 DEF SwapReader, Goto, At
  <2>2. pc'[w] \in WriteStates
    BY <2>1
  <2>3. reader' = NoReader => queue' = <<>>
    <3>1. CASE queue = <<>>
      BY <1>6, <3>1 DEF SwapReader, Empty, Pop
    <3>2. CASE queue # <<>>
      <4>1. Head(queue) \in Buffers
        BY <3>2
      <4>2. Head(queue) # 0
        BY <4>1, LengthsFact
      <4> QED  BY <1>6, <3>2, <4>2 DEF SwapReader, Empty
    <3> QED  BY <3>1, <3>2
  <2> QED  BY <2>2, <2>3
<1>7. ASSUME NEW w \in Workers, CheckReader(w) PROVE SomebodyCares'
  BY <1>7, <1>l DEF CheckReader, At, Goto
<1>8. ASSUME NEW w \in Workers, PostRest(w) PROVE SomebodyCares'
  <2>1. posted' # <<>> /\ UNCHANGED <<reader, queue>>
    <3>1. /\ posted' = Append(posted, [buffer |-> reader.buffer, from |-> reader.position])
          /\ UNCHANGED <<reader, queue>> /\ reader # NoReader
      BY <1>8 DEF PostRest
    <3>2. [buffer |-> reader.buffer, from |-> reader.position] \in PostedRanges
      BY <3>1 DEF PostedRanges
    <3>3. posted \in Seq(PostedRanges)
      OBVIOUS
    <3> HIDE DEF Types
    <3> QED  BY <3>1, <3>2, <3>3, Appended
  <2> QED  BY <2>1
<1>9. ASSUME NEW w \in Workers, PostRestFailed(w) PROVE SomebodyCares'
  BY <1>9, <1>l DEF PostRestFailed, At, Goto
<1>10. ASSUME NEW w \in Workers, BeginReceive(w) PROVE SomebodyCares'
  BY <1>10, <1>l DEF BeginReceive, At
<1>11. ASSUME NEW w \in Workers, EndReceive(w) PROVE SomebodyCares'
  BY <1>11, <1>l DEF EndReceive, At
<1>12. ASSUME NEW w \in Workers, UseLostReader(w) PROVE SomebodyCares'
  BY <1>12, <1>l DEF UseLostReader
<1>13. ASSUME NEW b \in Buffers, NEW n \in 1..Lengths[b], Transmit(n) PROVE SomebodyCares'
  <2>1. port' # <<>> /\ UNCHANGED <<reader, queue>>
    <3>1. port' = Append(port, n) /\ UNCHANGED <<reader, queue>>
      BY <1>13 DEF Transmit
    <3>2. n \in Nat /\ port \in Seq(Nat)
      BY <1>l
    <3> QED  BY <3>1, <3>2, Appended
  <2> QED  BY <2>1
<1>14. CASE Disconnect
  BY <1>14, <1>l DEF Disconnect
<1>15. CASE UNCHANGED vars
  BY <1>15, <1>l DEF vars
<1> QED  BY <1>1, <1>2, <1>3, <1>4, <1>5, <1>6, <1>7, <1>8, <1>9, <1>10, <1>11,
            <1>12, <1>13, <1>14, <1>15, NextCases

-----------------------------------------------------------------------------
(* Nothing is forgotten, whatever the number of workers and senders.       *)

\* Something is under way exactly when a number says so.
LEMMA BusyCounted == Types /\ Busy => InFlight >= 1
<1> SUFFICES ASSUME Types, Busy PROVE InFlight >= 1
  OBVIOUS
<1>1. Len(posted) \in Nat /\ (posted # <<>> => Len(posted) > 0)
  BY DEF Types
<1>2. Len(port) \in Nat /\ (port # <<>> => Len(port) > 0)
  BY DEF Types
<1>3. IsFiniteSet(Writers)
  BY PipelineAssumption, FS_Subset DEF Writers
<1>4. Cardinality(Writers) \in Nat /\ (Writers # {} => Cardinality(Writers) > 0)
  BY <1>3, FS_CardinalityType, FS_EmptySet
<1>5. (\E w \in Workers : pc[w] \in WriteStates) => Writers # {}
  BY DEF Writers, WriteStates
<1> QED  BY <1>1, <1>2, <1>4, <1>5 DEF InFlight, Busy

\* The constructor.
LEMMA InitInv == Init => Types /\ SomebodyCares
<1> SUFFICES ASSUME Init PROVE Types /\ SomebodyCares
  OBVIOUS
<1>1. /\ posted \in Seq(PostedRanges) /\ port \in Seq(Nat) /\ queue \in Seq(Buffers)
      /\ wire \in Seq(Buffers \X Nat) /\ accepted \in Seq(Buffers)
      /\ completed \in Seq(Buffers)
  BY Nothing DEF Init
<1>2. used \in 0..Len(Lengths)
  BY LengthsFact DEF Init
<1>3. /\ receiver \in Workers \cup {Nobody} /\ size \in [Workers -> Nat]
      /\ pc \in [Workers -> {"idle", "receive"} \cup WriteStates] /\ reader = NoReader
      /\ queue = <<>>
  BY DEF Init
<1> QED  BY <1>1, <1>2, <1>3 DEF Types, SomebodyCares

\* Whatever the number of workers and of threads that send: on an open connection
\* with bytes to send a send is posted, completed and not handled, or a worker is
\* on its way to post one.
THEOREM NothingIsForgotten == Spec => []NothingForgotten
<1> DEFINE Inv == Types /\ SomebodyCares
<1>1. Init => Inv
  BY InitInv
<1>2. Inv /\ [Next]_vars => Inv'
  BY TypesStep, CareStep
<1>3. Inv => NothingForgotten
  <2> SUFFICES ASSUME Inv, socketOpen, ~undefined, reader # NoReader \/ queue # <<>>
               PROVE  InFlight >= 1
    BY DEF NothingForgotten
  <2>1. Busy
    BY DEF SomebodyCares
  <2> QED  BY <2>1, BusyCounted
<1> HIDE DEF Inv
<1> QED  BY <1>1, <1>2, <1>3, PTL DEF Spec

-----------------------------------------------------------------------------
(* One send at a time, with one worker and no other thread that sends.     *)

\* What is under way belongs to the reader.
LEMMA OneStep ==
    Lonely /\ Types /\ OneSend /\ [Next]_vars
        => OneSend'
<1> SUFFICES ASSUME Lonely /\ Types /\ OneSend, [Next]_vars
             PROVE  OneSend'
  OBVIOUS
<1> USE DEF Types, WriteStates, Lonely, OneSend, AtMostOne, Fits, NoReader, lists,
            history, control
<1>l. /\ \A b \in Buffers : Lengths[b] \in Nat /\ Lengths[b] > 0
      /\ Nobody \notin Workers
  BY LengthsFact
<1>1. CASE SendFromThread
  BY <1>1, <1>l DEF SendFromThread, Send, SendRefused, SendQueued, SendPosted, Push
<1>2. ASSUME NEW w \in Workers, SendFromCallback(w) PROVE OneSend'
  <2> DEFINE b == used + 1
  <2>1. /\ pc[w] \in {"receive", "swap"} /\ UNCHANGED <<pc, size>> /\ ~undefined'
        /\ b \in Buffers
    BY <1>2, LengthsFact DEF SendFromCallback, Send
  <2>2. SendRefused(b) \/ SendQueued(b) \/ SendPosted(b)
    BY <1>2 DEF SendFromCallback, Send
  <2> HIDE DEF b
  <2>3. CASE SendRefused(b)
    BY <2>1, <2>3 DEF SendRefused, Lonely
  <2>4. CASE SendQueued(b)
    BY <2>1, <2>4 DEF SendQueued, Lonely
  <2>5. CASE SendPosted(b)
    <3>1. /\ reader = NoReader /\ reader' = [buffer |-> b, position |-> 0]
          /\ posted' = Append(posted, [buffer |-> b, from |-> 0]) \/ posted' = <<>>
          /\ port' = port
      BY <2>5 DEF SendPosted
    <3>2. port = <<>> /\ posted = <<>> /\ pc[w] = "receive"
      BY <2>1, <3>1
    <3>3. /\ reader'.buffer = b /\ reader'.position = 0 /\ reader' # NoReader
          /\ 0 <= Lengths[b]
      BY <2>1, <3>1, LengthsFact
    <3>4. posted' = <<[buffer |-> b, from |-> 0]>> \/ posted' = <<>>
      <4>1. \A x : Append(<<>>, x) = <<x>>
        OBVIOUS
      <4> QED  BY <3>1, <3>2, <4>1
    <3> QED  BY <2>1, <3>1, <3>2, <3>3, <3>4 DEF Lonely
  <2> QED  BY <2>2, <2>3, <2>4, <2>5
<1>3. ASSUME NEW w \in Workers, Dequeue(w) PROVE OneSend'
  <2>1. /\ pc' = [pc EXCEPT ![w] = "advance"] /\ port # <<>> /\ port' = Tail(port)
        /\ size' = [size EXCEPT ![w] = Head(port)] /\ UNCHANGED <<reader, posted>>
        /\ ~undefined'
    BY <1>3 DEF Dequeue, At
  <2>2. /\ Head(port) = port[1] /\ posted = <<>> /\ Fits(port[1])
        /\ port = <<port[1]>>
    BY <2>1
  <2>3. port' = <<>>
    <3>1. \A n : Tail(<<n>>) = <<>>
      OBVIOUS
    <3>2. Tail(<<port[1]>>) = <<>>
      BY <3>1
    <3> QED  BY <2>1, <2>2, <3>2
  <2>4. size'[w] = port[1] /\ pc'[w] = "advance"
    BY <2>1, <2>2
  <2> QED  BY <2>1, <2>2, <2>3, <2>4 DEF Lonely
<1>4. ASSUME NEW w \in Workers, AdvancePosition(w) PROVE OneSend'
  <2>1. /\ pc[w] = "advance" /\ pc' = [pc EXCEPT ![w] = "measure"]
        /\ reader' = [reader EXCEPT !.position = @ + size[w]]
        /\ UNCHANGED <<posted, port, size>> /\ ~undefined'
    BY <1>4 DEF AdvancePosition, Goto, At
  <2>2. posted = <<>> /\ port = <<>> /\ reader # NoReader /\ size[w] \in Nat
        /\ reader.position + size[w] <= Lengths[reader.buffer]
    BY <2>1
  <2>3. /\ reader'.buffer = reader.buffer /\ reader'.position = reader.position + size[w]
        /\ reader.buffer \in Buffers /\ reader'.position \in Nat
    <3>1. reader \in [buffer : Buffers, position : Nat]
      BY <2>2
    <3> HIDE DEF Types, OneSend
    <3> QED  BY <2>1, <2>2, <3>1
  <2>4. reader' # NoReader
    BY <2>3, LengthsFact
  <2> QED  BY <2>1, <2>2, <2>3, <2>4, <1>l DEF Lonely
<1>5. ASSUME NEW w \in Workers, MeasurePosition(w) PROVE OneSend'
  BY <1>5, <1>l DEF MeasurePosition, At, Goto
<1>6. ASSUME NEW w \in Workers, SwapReader(w) PROVE OneSend'
  BY <1>6, <1>l DEF SwapReader, At, Goto, Empty, Pop
<1>7. ASSUME NEW w \in Workers, CheckReader(w) PROVE OneSend'
  BY <1>7, <1>l DEF CheckReader, At, Goto
<1>8. ASSUME NEW w \in Workers, PostRest(w) PROVE OneSend'
  <2>1. /\ pc[w] = "post" /\ pc' = [pc EXCEPT ![w] = "idle"] /\ UNCHANGED <<reader, port>>
        /\ posted' = Append(posted, [buffer |-> reader.buffer, from |-> reader.position])
        /\ ~undefined'
    BY <1>8 DEF PostRest, At, Goto
  <2>2. posted = <<>> /\ port = <<>> /\ Fits(0)
    BY <2>1
  <2>3. posted' = <<[buffer |-> reader.buffer, from |-> reader.position]>>
    <3>1. \A x : Append(<<>>, x) = <<x>>
      OBVIOUS
    <3> QED  BY <2>1, <2>2, <3>1
  <2> QED  BY <2>1, <2>2, <2>3 DEF Lonely
<1>9. ASSUME NEW w \in Workers, PostRestFailed(w) PROVE OneSend'
  BY <1>9, <1>l DEF PostRestFailed, At, Goto
<1>10. ASSUME NEW w \in Workers, BeginReceive(w) PROVE OneSend'
  BY <1>10, <1>l DEF BeginReceive, At
<1>11. ASSUME NEW w \in Workers, EndReceive(w) PROVE OneSend'
  BY <1>11, <1>l DEF EndReceive, At
<1>12. ASSUME NEW w \in Workers, UseLostReader(w) PROVE OneSend'
  BY <1>12, <1>l DEF UseLostReader
<1>13. ASSUME NEW b \in Buffers, NEW n \in 1..Lengths[b], Transmit(n) PROVE OneSend'
  <2> SUFFICES ASSUME NEW w \in Workers PROVE AtMostOne(w)'
    OBVIOUS
  <2>1. /\ posted # <<>> /\ posted' = Tail(posted) /\ port' = Append(port, n)
        /\ Head(posted).from + n <= Lengths[Head(posted).buffer]
        /\ UNCHANGED <<reader, pc, size>> /\ ~undefined' /\ n \in Nat
    BY <1>13, <1>l DEF Transmit
  <2>2. /\ posted = <<[buffer |-> reader.buffer, from |-> reader.position]>>
        /\ port = <<>> /\ pc[w] \notin WriteStates /\ reader # NoReader
    BY <2>1
  <2>3. /\ Head(posted) = [buffer |-> reader.buffer, from |-> reader.position]
        /\ posted' = <<>>
    <3>1. \A x : Head(<<x>>) = x /\ Tail(<<x>>) = <<>>
      OBVIOUS
    <3> QED  BY <2>1, <2>2, <3>1
  <2>4. port' = <<n>> /\ port'[1] = n
    <3>1. \A x : Append(<<>>, x) = <<x>> /\ <<x>>[1] = x
      OBVIOUS
    <3> QED  BY <2>1, <2>2, <3>1
  <2>5. reader.position + n <= Lengths[reader.buffer]
    BY <2>1, <2>3
  <2> QED  BY <2>1, <2>2, <2>3, <2>4, <2>5
<1>14. CASE Disconnect
  BY <1>14, <1>l DEF Disconnect
<1>15. CASE UNCHANGED vars
  BY <1>15, <1>l DEF vars
<1> QED  BY <1>1, <1>2, <1>3, <1>4, <1>5, <1>6, <1>7, <1>8, <1>9, <1>10, <1>11,
            <1>12, <1>13, <1>14, <1>15, NextCases

\* There is at most one operation, and the reader is inside its buffer.
LEMMA OneInFlight ==
    ASSUME Lonely, Types, SomebodyCares, OneSend, Workers # {}
    PROVE  Inside /\ OneSendInFlight
<1> PICK w \in Workers : TRUE
  OBVIOUS
<1>1. Workers = {w}
  BY DEF Lonely
<1>2. AtMostOne(w)
  BY DEF OneSend
<1>3. ~undefined /\ Len(posted) \in Nat /\ Len(port) \in Nat
  BY <1>2 DEF AtMostOne, Types
<1>4. ASSUME pc[w] \in WriteStates PROVE OneSendInFlight
  <2>1. Writers = {w} /\ posted = <<>> /\ port = <<>>
    BY <1>1, <1>2, <1>4 DEF Writers, WriteStates, AtMostOne
  <2>2. Cardinality(Writers) = 1
    BY <2>1, FS_Singleton
  <2>3. InFlight = 1
    <3>1. Len(<<>>) = 0
      OBVIOUS
    <3> QED  BY <2>1, <2>2, <3>1 DEF InFlight
  <2> QED  BY <1>3, <2>1, <2>3 DEF OneSendInFlight
<1>5. ASSUME pc[w] \notin WriteStates PROVE OneSendInFlight
  <2>1. Writers = {}
    BY <1>1, <1>5 DEF Writers, WriteStates, Types
  <2>2. Cardinality(Writers) = 0
    BY <2>1, FS_EmptySet
  <2>3. Busy <=> posted # <<>> \/ port # <<>>
    BY <1>1, <1>5 DEF Busy
  <2>4. Len(posted) + Len(port) = IF Busy THEN 1 ELSE 0
    <3>1. (posted = <<>> \/ port = <<>>)
      BY <1>2 DEF AtMostOne
    <3>2. Len(posted) = IF posted = <<>> THEN 0 ELSE 1
      BY <1>2 DEF AtMostOne
    <3>3. Len(port) = IF port = <<>> THEN 0 ELSE 1
      BY <1>2 DEF AtMostOne
    <3> QED  BY <2>3, <3>1, <3>2, <3>3
  <2>5. InFlight = IF Busy THEN 1 ELSE 0
    BY <2>2, <2>4, <1>3 DEF InFlight
  <2>6. reader = NoReader => posted = <<>> /\ port = <<>>
    BY <1>2 DEF AtMostOne, Fits
  <2> QED  BY <1>3, <2>5, <2>6 DEF OneSendInFlight, SomebodyCares
<1>6. Inside
  BY <1>2, LengthsFact DEF Inside, AtMostOne, Fits, Types
<1> QED  BY <1>4, <1>5, <1>6

-----------------------------------------------------------------------------
(* The bytes of a list of buffers.                                         *)

Byte == Buffers \X Nat

\* The packets of a list of buffers, before they are put together.
Packed(s) == [i \in DOMAIN s |-> BytesOf(s[i])]

\* Their types.
LEMMA PackedTypes ==
    ASSUME NEW s \in Seq(Buffers)
    PROVE  Packed(s) \in Seq(Seq(Byte)) /\ Len(Packed(s)) = Len(s)
<1> DEFINE Q == Seq(Byte)
<1>1. \A b \in Buffers : BytesOf(b) \in Q
  BY BytesTypes, LengthsFact DEF Byte
<1>2. \A i \in 1..Len(s) : BytesOf(s[i]) \in Q
  BY <1>1
<1> HIDE DEF Q
<1>3. Packed(s) \in [1..Len(s) -> Q]
  BY <1>2 DEF Packed
<1>4. Packed(s) \in Seq(Q) /\ Len(Packed(s)) = Len(s)
  BY <1>3
<1> QED  BY <1>4 DEF Q

\* Two lists one after the other.
LEMMA PackedJoined ==
    ASSUME NEW s \in Seq(Buffers), NEW t \in Seq(Buffers)
    PROVE  Packed(s \o t) = Packed(s) \o Packed(t)
<1> DEFINE Q == Seq(Byte)
           p == Packed(s)
           q == Packed(t)
           r == Packed(s \o t)
<1>1. s \o t \in Seq(Buffers) /\ Len(s \o t) = Len(s) + Len(t)
  BY ConcatProperties
<1>2. /\ p \in Seq(Q) /\ q \in Seq(Q) /\ r \in Seq(Q)
      /\ Len(p) = Len(s) /\ Len(q) = Len(t) /\ Len(r) = Len(s) + Len(t)
  BY <1>1, PackedTypes
<1>3. /\ \A i \in 1..Len(s) : p[i] = BytesOf(s[i])
      /\ \A i \in 1..Len(t) : q[i] = BytesOf(t[i])
      /\ \A i \in 1..(Len(s) + Len(t)) : r[i] = BytesOf((s \o t)[i])
  BY <1>1 DEF Packed
<1> HIDE DEF Q, p, q, r
<1>4. p \o q \in Seq(Q) /\ Len(p \o q) = Len(r)
  <2>1. p \o q \in Seq(Q) /\ Len(p \o q) = Len(p) + Len(q)
    BY <1>2, ConcatProperties
  <2> QED  BY <1>2, <2>1
<1>5. ASSUME NEW i \in 1..Len(r) PROVE r[i] = (p \o q)[i]
  <2>1. (p \o q)[i] = IF i <= Len(s) THEN p[i] ELSE q[i - Len(s)]
    BY <1>2, ConcatProperties
  <2>2. (s \o t)[i] = IF i <= Len(s) THEN s[i] ELSE t[i - Len(s)]
    BY <1>2, ConcatProperties
  <2>3. Len(s) \in Nat /\ Len(t) \in Nat
    OBVIOUS
  <2>4. CASE i <= Len(s)
    BY <1>2, <1>3, <2>1, <2>2, <2>3, <2>4
  <2>5. CASE i > Len(s)
    <3>1. i - Len(s) \in 1..Len(t) /\ i \in 1..(Len(s) + Len(t)) /\ ~(i <= Len(s))
      BY <1>2, <2>3, <2>5
    <3> QED  BY <1>3, <2>1, <2>2, <3>1
  <2> QED  BY <1>2, <2>3, <2>4, <2>5
<1>6. r = p \o q
  BY <1>2, <1>4, <1>5, SeqEqual
<1> QED  BY <1>6 DEF p, q, r

\* The bytes of two lists one after the other.
LEMMA BytesJoined ==
    ASSUME NEW s \in Seq(Buffers), NEW t \in Seq(Buffers)
    PROVE  /\ Bytes(s \o t) = Bytes(s) \o Bytes(t)
           /\ Bytes(s) \in Seq(Byte) /\ Bytes(t) \in Seq(Byte)
<1>1. \A u : Bytes(u) = FlattenSeq(Packed(u))
  BY DEF Bytes, Packed
<1>2. Packed(s) \in Seq(Seq(Byte)) /\ Packed(t) \in Seq(Seq(Byte))
  BY PackedTypes
<1>3. FlattenSeq(Packed(s) \o Packed(t)) = FlattenSeq(Packed(s)) \o FlattenSeq(Packed(t))
  BY <1>2, FlattenJoined
<1>4. FlattenSeq(Packed(s)) \in Seq(Byte) /\ FlattenSeq(Packed(t)) \in Seq(Byte)
  BY <1>2, FlattenTypes
<1> QED  BY <1>1, <1>3, <1>4, PackedJoined

\* The bytes of one buffer more.
LEMMA BytesAppend ==
    ASSUME NEW s \in Seq(Buffers), NEW b \in Buffers
    PROVE  /\ Bytes(Append(s, b)) = Bytes(s) \o BytesOf(b)
           /\ Bytes(s) \in Seq(Byte) /\ BytesOf(b) \in Seq(Byte)
           /\ Len(BytesOf(b)) = Lengths[b]
<1> DEFINE p == Packed(s)
           r == Packed(Append(s, b))
           x == BytesOf(b)
           Q == Seq(Byte)
<1>1. Append(s, b) \in Seq(Buffers) /\ Len(Append(s, b)) = Len(s) + 1 /\ Len(s) \in Nat
  OBVIOUS
<1>2. p \in Seq(Q) /\ r \in Seq(Q) /\ Len(p) = Len(s) /\ Len(r) = Len(s) + 1
  BY <1>1, PackedTypes
<1>3. x \in Q /\ Len(x) = Lengths[b]
  BY BytesTypes, LengthsFact DEF Byte
<1>4. /\ \A i \in 1..Len(s) : p[i] = BytesOf(s[i])
      /\ \A i \in 1..(Len(s) + 1) : r[i] = BytesOf(Append(s, b)[i])
  BY <1>1 DEF Packed
<1>5. /\ \A i \in 1..Len(s) : Append(s, b)[i] = s[i]
      /\ Append(s, b)[Len(s) + 1] = b
  OBVIOUS
<1>6. /\ \A i \in 1..Len(s) : r[i] = p[i]
      /\ r[Len(s) + 1] = x
  BY <1>1, <1>4, <1>5
<1> HIDE DEF Q, p, r, x
<1>7. /\ Append(p, x) \in Seq(Q) /\ Len(Append(p, x)) = Len(r)
      /\ \A i \in 1..Len(s) : Append(p, x)[i] = p[i]
      /\ Append(p, x)[Len(s) + 1] = x
  BY <1>2, <1>3, AppendProperties
<1>8. \A i \in 1..Len(r) : r[i] = Append(p, x)[i]
  BY <1>1, <1>2, <1>6, <1>7
<1>9. r = Append(p, x)
  BY <1>2, <1>7, <1>8, SeqEqual
<1>10. FlattenSeq(r) = FlattenSeq(p) \o x /\ FlattenSeq(p) \in Seq(Byte)
  BY <1>2, <1>3, <1>9, FlattenAppend, FlattenTypes DEF Q
<1>11. \A u : Bytes(u) = FlattenSeq(Packed(u))
  BY DEF Bytes, Packed
<1> QED  BY <1>3, <1>10, <1>11 DEF p, r, x, Q

\* No buffers.
LEMMA BytesOfNone == Bytes(<<>>) = <<>>
<1>1. Packed(<<>>) = <<>>
  BY DEF Packed
<1> QED  BY <1>1, FlattenEmpty DEF Bytes, Packed

-----------------------------------------------------------------------------
(* The order of the buffers and of their bytes, with one worker.           *)

\* The bytes of the reader that were sent: m_nPosition, and what a completion in the
\* port or in the hands of the worker will add to it.
Sent(w) == reader.position + (IF port = <<>> THEN 0 ELSE port[1])
                           + (IF pc[w] = "advance" THEN size[w] ELSE 0)

\* Between two buffers: what was accepted was completed, or waits in the queue.
Between(w) ==
    /\ reader = NoReader \/ pc[w] = "swap"
    /\ accepted = completed \o queue
    /\ wire = Bytes(completed)

\* In the middle of the reader's buffer.
Midway(w) ==
    /\ reader # NoReader /\ pc[w] # "swap"
    /\ accepted = Append(completed, reader.buffer) \o queue
    /\ wire = Bytes(completed) \o SubSeq(BytesOf(reader.buffer), 1, Sent(w))

\* Send failed to post the reader: it was not accepted, and nothing is under way.
Refused(w) ==
    /\ ~socketOpen /\ reader # NoReader /\ queue = <<>>
    /\ posted = <<>> /\ port = <<>> /\ pc[w] \notin WriteStates
    /\ accepted = completed /\ wire = Bytes(completed)

Ordered == \A w \in Workers : Between(w) \/ Midway(w) \/ Refused(w)

\* One more buffer behind two lists.
LEMMA AppendJoined ==
    ASSUME NEW s \in Seq(Buffers), NEW t \in Seq(Buffers), NEW b \in Buffers
    PROVE  Append(s \o t, b) = s \o Append(t, b)
<1>1. <<b>> \in Seq(Buffers)
  OBVIOUS
<1>2. Append(t, b) = t \o <<b>> /\ s \o t \in Seq(Buffers)
  BY AppendIsConcat, ConcatProperties
<1>3. Append(s \o t, b) = (s \o t) \o <<b>>
  BY <1>2, AppendIsConcat
<1>4. (s \o t) \o <<b>> = s \o (t \o <<b>>)
  BY <1>1, ConcatAssociative
<1> QED  BY <1>2, <1>3, <1>4

\* Send puts the buffer behind what was accepted.
LEMMA SendOrder ==
    ASSUME NEW w \in Workers, Types, SomebodyCares, AtMostOne(w), Send, UNCHANGED control,
           Between(w) \/ Midway(w) \/ Refused(w), pc[w] \in {"receive", "swap"}
    PROVE  Between(w)' \/ Midway(w)' \/ Refused(w)'
<1> DEFINE b == used + 1
<1>1. /\ b \in Buffers /\ completed' = completed /\ pc' = pc /\ size' = size
      /\ accepted \in Seq(Buffers) /\ completed \in Seq(Buffers) /\ queue \in Seq(Buffers)
  BY LengthsFact DEF Send, control, Types
<1>2. SendRefused(b) \/ SendQueued(b) \/ SendPosted(b)
  BY DEF Send
<1> HIDE DEF b
<1>3. CASE SendRefused(b)
  BY <1>1, <1>3 DEF SendRefused, Between, Midway, Refused, Sent, lists
<1>4. CASE SendQueued(b)
  <2>1. /\ socketOpen /\ reader # NoReader /\ reader' = reader /\ socketOpen' = socketOpen
        /\ queue' = Append(queue, b) /\ accepted' = Append(accepted, b)
        /\ port' = port /\ wire' = wire
    BY <1>4 DEF SendQueued, Push, lists
  <2>2. CASE Between(w)
    <3>1. Append(completed \o queue, b) = completed \o Append(queue, b)
      <4>1. completed \in Seq(Buffers) /\ queue \in Seq(Buffers) /\ b \in Buffers
        BY <1>1
      <4> QED  BY <4>1, AppendJoined
    <3> QED  BY <1>1, <2>1, <2>2, <3>1 DEF Between
  <2>3. CASE Midway(w)
    <3>1. reader.buffer \in Buffers
      BY <2>1 DEF Types
    <3>2. Append(completed, reader.buffer) \in Seq(Buffers)
      BY <1>1, <3>1, AppendProperties
    <3>3. Append(Append(completed, reader.buffer) \o queue, b)
            = Append(completed, reader.buffer) \o Append(queue, b)
      <4> DEFINE c == Append(completed, reader.buffer)
      <4>1. c \in Seq(Buffers) /\ queue \in Seq(Buffers) /\ b \in Buffers
        BY <1>1, <3>2
      <4> HIDE DEF c
      <4>2. Append(c \o queue, b) = c \o Append(queue, b)
        BY <4>1, AppendJoined
      <4> QED  BY <4>2 DEF c
    <3> QED  BY <1>1, <2>1, <2>3, <3>3 DEF Midway, Sent
  <2> QED  BY <2>1, <2>2, <2>3 DEF Refused
<1>5. CASE SendPosted(b)
  <2>1. /\ reader = NoReader /\ reader' = [buffer |-> b, position |-> 0]
        /\ UNCHANGED <<queue, port, wire>>
        /\ \/ accepted' = Append(accepted, b)
           \/ socketOpen' = FALSE /\ posted' = <<>> /\ accepted' = accepted
    BY <1>5 DEF SendPosted
  <2>2. /\ queue = <<>> /\ port = <<>> /\ posted = <<>> /\ pc[w] = "receive"
    BY <2>1 DEF SomebodyCares, AtMostOne, Fits
  <2>3. accepted = completed /\ wire = Bytes(completed)
    <3>1. Between(w)
      BY <2>1 DEF Midway, Refused
    <3>2. completed \o <<>> = completed
      BY <1>1, ConcatEmptySeq
    <3> QED  BY <2>2, <3>1, <3>2 DEF Between
  <2>4. reader' # NoReader /\ reader'.buffer = b /\ reader'.position = 0
    BY <1>1, <2>1, LengthsFact DEF NoReader
  <2>5. CASE accepted' = Append(accepted, b)
    <3>1. Append(completed, b) \o <<>> = Append(completed, b)
      BY <1>1, AppendProperties, ConcatEmptySeq
    <3>2. Sent(w)' = 0
      BY <1>1, <2>1, <2>2, <2>4 DEF Sent
    <3>3. SubSeq(BytesOf(b), 1, 0) = <<>>
      BY SubSeqEmpty
    <3>4. Bytes(completed) \o <<>> = Bytes(completed)
      BY <1>1, BytesAppend, ConcatEmptySeq
    <3> QED  BY <1>1, <2>1, <2>2, <2>3, <2>4, <2>5, <3>1, <3>2, <3>3, <3>4 DEF Midway
  <2>6. CASE socketOpen' = FALSE /\ posted' = <<>> /\ accepted' = accepted
    BY <1>1, <2>1, <2>2, <2>3, <2>4, <2>6 DEF Refused, WriteStates
  <2> QED  BY <2>1, <2>5, <2>6
<1> QED  BY <1>2, <1>3, <1>4, <1>5

\* The steps keep the order.
LEMMA OrderStep ==
    Lonely /\ Types /\ SomebodyCares /\ OneSend /\ Ordered /\ [Next]_vars => Ordered'
<1> SUFFICES ASSUME Lonely, Types, SomebodyCares, OneSend, Ordered, [Next]_vars,
                    NEW w \in Workers
             PROVE  Between(w)' \/ Midway(w)' \/ Refused(w)'
  BY DEF Ordered
<1>o. \A v \in Workers : v = w
  BY DEF Lonely
<1>m. AtMostOne(w) /\ (Between(w) \/ Midway(w) \/ Refused(w))
  BY DEF OneSend, Ordered
<1>t. /\ accepted \in Seq(Buffers) /\ completed \in Seq(Buffers) /\ queue \in Seq(Buffers)
      /\ pc \in [Workers -> {"idle", "receive"} \cup WriteStates]
      /\ size \in [Workers -> Nat]
      /\ reader # NoReader => reader.buffer \in Buffers /\ reader.position \in Nat
  BY DEF Types
<1> DEFINE Goal == Between(w)' \/ Midway(w)' \/ Refused(w)'
<1>1. CASE SendFromThread
  BY <1>1 DEF SendFromThread, Lonely
<1>2. ASSUME NEW v \in Workers, SendFromCallback(v) PROVE Goal
  BY <1>2, <1>o, <1>m, SendOrder DEF SendFromCallback
<1>3. ASSUME NEW v \in Workers, Dequeue(v) PROVE Goal
  <2>1. /\ pc[w] = "idle" /\ pc'[w] = "advance" /\ size'[w] = Head(port) /\ port # <<>>
        /\ port' = Tail(port) /\ UNCHANGED <<reader, queue, wire, accepted, completed>>
    BY <1>3, <1>o, <1>t DEF Dequeue, At, history
  <2>2. reader # NoReader /\ port = <<port[1]>> /\ port[1] \in Nat
    BY <1>m, <2>1 DEF AtMostOne, Fits, Types
  <2>3. Head(port) = port[1] /\ port' = <<>>
    <3>1. \A n : Head(<<n>>) = n /\ Tail(<<n>>) = <<>>
      OBVIOUS
    <3> QED  BY <2>1, <2>2, <3>1
  <2>4. Midway(w)
    BY <1>m, <2>1, <2>2 DEF Between, Refused
  <2>5. Sent(w)' = Sent(w)
    BY <1>t, <2>1, <2>2, <2>3 DEF Sent
  <2> QED  BY <2>1, <2>4, <2>5 DEF Midway
<1>4. ASSUME NEW v \in Workers, AdvancePosition(v) PROVE Goal
  <2>1. /\ pc[w] = "advance" /\ pc'[w] = "measure" /\ reader # NoReader
        /\ reader' = [reader EXCEPT !.position = @ + size[w]]
        /\ UNCHANGED <<port, queue, wire, accepted, completed>>
    BY <1>4, <1>o, <1>t DEF AdvancePosition, At, Goto, history, lists
  <2>2. Midway(w) /\ port = <<>>
    BY <1>m, <2>1 DEF Between, Refused, WriteStates, AtMostOne
  <2>3. reader'.buffer = reader.buffer /\ reader'.position = reader.position + size[w]
    BY <2>1 DEF Types
  <2>4. reader.buffer \in Buffers /\ reader.position \in Nat /\ size[w] \in Nat
    BY <1>t, <2>1
  <2>5. reader' # NoReader
    BY <2>3, <2>4, LengthsFact DEF NoReader
  <2>6. Sent(w) = reader.position + size[w] /\ Sent(w)' = reader.position + size[w]
    BY <2>1, <2>2, <2>3, <2>4 DEF Sent
  <2> QED  BY <2>1, <2>2, <2>3, <2>5, <2>6 DEF Midway
<1>5. ASSUME NEW v \in Workers, MeasurePosition(v) PROVE Goal
  <2>1. /\ pc[w] = "measure" /\ reader # NoReader
        /\ IF reader.position >= Lengths[reader.buffer]
           THEN completed' = Append(completed, reader.buffer) /\ pc'[w] = "swap"
           ELSE completed' = completed /\ pc'[w] = "check"
        /\ UNCHANGED <<port, queue, wire, accepted, reader>>
    BY <1>5, <1>o, <1>t DEF MeasurePosition, At, Goto, history, lists
  <2>2. Midway(w) /\ port = <<>> /\ reader.position <= Lengths[reader.buffer]
    BY <1>m, <1>t, <2>1, LengthsFact DEF Between, Refused, WriteStates, AtMostOne, Fits
  <2>3. Sent(w) = reader.position
    BY <1>t, <2>1, <2>2 DEF Sent
  <2>4. CASE reader.position >= Lengths[reader.buffer]
    <3>1. reader.position = Lengths[reader.buffer]
      BY <1>t, <2>1, <2>2, <2>4, LengthsFact
    <3>2. /\ Len(BytesOf(reader.buffer)) = Lengths[reader.buffer]
          /\ Bytes(Append(completed, reader.buffer)) = Bytes(completed) \o BytesOf(reader.buffer)
          /\ BytesOf(reader.buffer) \in Seq(Byte)
      BY <1>t, <2>1, BytesAppend
    <3>3. SubSeq(BytesOf(reader.buffer), 1, Sent(w)) = BytesOf(reader.buffer)
      BY <2>3, <3>1, <3>2, SubSeqFull
    <3> QED  BY <2>1, <2>2, <2>4, <3>2, <3>3 DEF Between, Midway
  <2>5. CASE ~(reader.position >= Lengths[reader.buffer])
    <3>1. Sent(w)' = Sent(w)
      BY <2>1, <2>5 DEF Sent
    <3> QED  BY <2>1, <2>2, <2>5, <3>1 DEF Midway
  <2> QED  BY <2>4, <2>5
<1>6. ASSUME NEW v \in Workers, SwapReader(v) PROVE Goal
  <2>1. /\ pc[w] = "swap" /\ pc'[w] = "check"
        /\ reader' = IF queue = <<>> THEN NoReader
                     ELSE [buffer |-> Head(queue), position |-> 0]
        /\ queue' = IF queue = <<>> THEN queue ELSE Tail(queue)
        /\ UNCHANGED <<port, wire, accepted, completed>>
    BY <1>6, <1>o, <1>t DEF SwapReader, At, Goto, history, lists, Empty, Pop
  <2>2. /\ Between(w) /\ port = <<>>
    BY <1>m, <2>1 DEF Midway, Refused, WriteStates, AtMostOne
  <2>3. CASE queue = <<>>
    BY <2>1, <2>2, <2>3 DEF Between
  <2>4. CASE queue # <<>>
    <3> DEFINE b == Head(queue)
    <3>1. b \in Buffers /\ Tail(queue) \in Seq(Buffers) /\ queue = <<b>> \o Tail(queue)
      BY <1>t, <2>4
    <3>2. reader'.buffer = b /\ reader'.position = 0 /\ reader' # NoReader
      BY <2>1, <2>4, <3>1, LengthsFact DEF NoReader
    <3> HIDE DEF b
    <3>3. completed \o queue = Append(completed, b) \o Tail(queue)
      <4>1. <<b>> \in Seq(Buffers)
        BY <3>1
      <4>2. (completed \o <<b>>) \o Tail(queue) = completed \o (<<b>> \o Tail(queue))
        BY <1>t, <3>1, <4>1, ConcatAssociative
      <4>3. Append(completed, b) = completed \o <<b>>
        BY <1>t, <3>1, AppendIsConcat
      <4> QED  BY <3>1, <4>2, <4>3
    <3>4. Sent(w)' = 0
      BY <2>1, <2>2, <3>2 DEF Sent
    <3>5. SubSeq(BytesOf(b), 1, 0) = <<>>
      BY SubSeqEmpty
    <3>6. Bytes(completed) \o <<>> = Bytes(completed)
      BY <1>t, <3>1, BytesAppend, ConcatEmptySeq
    <3> QED  BY <2>1, <2>2, <2>4, <3>2, <3>3, <3>4, <3>5, <3>6 DEF Between, Midway
  <2> QED  BY <2>3, <2>4
<1>7. ASSUME NEW v \in Workers, CheckReader(v) \/ PostRest(v) \/ PostRestFailed(v)
      PROVE  Goal
  <2>1. /\ pc[w] \in {"check", "post"} /\ pc'[w] \in {"idle", "post"}
        /\ UNCHANGED <<reader, port, queue, wire, accepted, completed>>
    BY <1>7, <1>o, <1>t DEF CheckReader, PostRest, PostRestFailed, At, Goto, history, lists
  <2>2. Between(w) \/ Midway(w)
    BY <1>m, <2>1 DEF Refused, WriteStates
  <2>3. Sent(w)' = Sent(w)
    BY <2>1 DEF Sent
  <2> QED  BY <2>1, <2>2, <2>3 DEF Between, Midway
<1>8. ASSUME NEW v \in Workers, BeginReceive(v) \/ EndReceive(v) PROVE Goal
  <2>1. /\ pc[w] \in {"idle", "receive"} /\ pc'[w] \in {"idle", "receive"}
        /\ UNCHANGED <<reader, port, posted, socketOpen, queue, wire, accepted, completed>>
    BY <1>8, <1>o, <1>t DEF BeginReceive, EndReceive, At, history, lists
  <2>3. Sent(w)' = Sent(w)
    BY <2>1 DEF Sent
  <2> QED  BY <1>m, <2>1, <2>3 DEF Between, Midway, Refused, WriteStates
<1>9. CASE UNCHANGED vars \/ \E v \in Workers : UseLostReader(v)
  <2>1. /\ UNCHANGED <<reader, port, posted, socketOpen, queue, wire, accepted, completed>>
        /\ UNCHANGED <<pc, size>>
    BY <1>9 DEF vars, UseLostReader, history, lists, control
  <2>3. Sent(w)' = Sent(w)
    BY <2>1 DEF Sent
  <2> QED  BY <1>m, <2>1, <2>3 DEF Between, Midway, Refused
<1>10. ASSUME NEW c \in Buffers, NEW n \in 1..Lengths[c], Transmit(n) PROVE Goal
  <2> DEFINE b == reader.buffer
             k == reader.position
  <2>1. /\ posted # <<>> /\ port' = Append(port, n)
        /\ Head(posted).from + n <= Lengths[Head(posted).buffer]
        /\ wire' = wire \o SubSeq(BytesOf(Head(posted).buffer), Head(posted).from + 1,
                                  Head(posted).from + n)
        /\ UNCHANGED <<reader, queue, accepted, completed, pc, size>>
    BY <1>10 DEF Transmit, history, control
  <2>2. /\ posted = <<[buffer |-> b, from |-> k]>> /\ port = <<>>
        /\ reader # NoReader /\ pc[w] \notin WriteStates
    BY <1>m, <2>1 DEF AtMostOne, Fits
  <2>3. Head(posted) = [buffer |-> b, from |-> k]
    BY <2>2
  <2>4. k + n <= Lengths[b] /\ wire' = wire \o SubSeq(BytesOf(b), k + 1, k + n)
    <3>1. Head(posted).buffer = b /\ Head(posted).from = k
      BY <2>3
    <3> HIDE DEF b, k
    <3> QED  BY <2>1, <3>1
  <2>5. b \in Buffers /\ k \in Nat /\ n \in Nat /\ n > 0
    BY <1>t, <2>2, LengthsFact
  <2>6. port' = <<n>> /\ port'[1] = n /\ port' # <<>>
    <3>1. \A x : Append(<<>>, x) = <<x>> /\ <<x>>[1] = x /\ <<x>> # <<>>
      OBVIOUS
    <3> QED  BY <2>1, <2>2, <3>1
  <2> HIDE DEF b, k
  <2>7. Midway(w) /\ Sent(w) = k /\ Sent(w)' = k + n
    <3>1. Midway(w)
      BY <1>m, <2>1, <2>2 DEF Between, Refused, WriteStates
    <3>2. pc[w] # "advance" /\ pc'[w] # "advance" /\ reader' = reader
      BY <2>1, <2>2 DEF WriteStates
    <3>3. Sent(w) = k
      BY <2>2, <2>5, <3>2 DEF Sent, k
    <3>4. Sent(w)' = k + n
      BY <2>5, <2>6, <3>2 DEF Sent, k
    <3> QED  BY <3>1, <3>3, <3>4
  <2>8. SubSeq(BytesOf(b), 1, k) \o SubSeq(BytesOf(b), k + 1, k + n)
           = SubSeq(BytesOf(b), 1, k + n)
    <3>1. BytesOf(b) \in Seq(Byte) /\ Len(BytesOf(b)) = Lengths[b]
      BY <1>t, <2>5, BytesAppend
    <3>2. 1 \in 1..(Len(BytesOf(b)) + 1) /\ k \in (1-1)..Len(BytesOf(b))
          /\ k + n \in k..Len(BytesOf(b))
      BY <2>4, <2>5, <3>1, LengthsFact
    <3> QED  BY <3>1, <3>2, ConcatAdjacentSubSeq
  <2>9. /\ Bytes(completed) \in Seq(Byte) /\ SubSeq(BytesOf(b), 1, k) \in Seq(Byte)
        /\ SubSeq(BytesOf(b), k + 1, k + n) \in Seq(Byte)
    <3>1. BytesOf(b) \in Seq(Byte) /\ Len(BytesOf(b)) = Lengths[b]
          /\ Bytes(completed) \in Seq(Byte)
      BY <1>t, <2>5, BytesAppend
    <3>2. /\ \A i \in 1..k : BytesOf(b)[i] \in Byte
          /\ \A i \in (k+1)..(k+n) : BytesOf(b)[i] \in Byte
      BY <2>4, <2>5, <3>1, LengthsFact
    <3>3. 1 \in Int /\ k \in Int /\ k + 1 \in Int /\ k + n \in Int
      BY <2>5
    <3> QED  BY <3>1, <3>2, <3>3, SubSeqProperties
  <2>10. wire' = Bytes(completed) \o SubSeq(BytesOf(b), 1, k + n)
    <3>1. wire = Bytes(completed) \o SubSeq(BytesOf(b), 1, k)
      BY <2>7 DEF Midway, b
    <3>2. (Bytes(completed) \o SubSeq(BytesOf(b), 1, k)) \o SubSeq(BytesOf(b), k + 1, k + n)
           = Bytes(completed) \o (SubSeq(BytesOf(b), 1, k) \o SubSeq(BytesOf(b), k + 1, k + n))
      <4> DEFINE x == Bytes(completed)
                 y == SubSeq(BytesOf(b), 1, k)
                 z == SubSeq(BytesOf(b), k + 1, k + n)
      <4> HIDE DEF x, y, z
      <4>1. x \in Seq(Byte) /\ y \in Seq(Byte) /\ z \in Seq(Byte)
        BY <2>9 DEF x, y, z
      <4>2. (x \o y) \o z = x \o (y \o z)
        BY <4>1, ConcatAssociative
      <4> QED  BY <4>2 DEF x, y, z
    <3> QED  BY <2>4, <2>8, <3>1, <3>2
  <2> QED  BY <2>1, <2>7, <2>10 DEF Midway, b
<1>11. CASE Disconnect
  <2>1. /\ UNCHANGED <<reader, port, queue, wire, accepted, completed>>
        /\ UNCHANGED <<pc, size>> /\ posted' = <<>> /\ socketOpen' = FALSE
    BY <1>11 DEF Disconnect, history, control
  <2>3. Sent(w)' = Sent(w)
    BY <2>1 DEF Sent
  <2> QED  BY <1>m, <2>1, <2>3 DEF Between, Midway, Refused
<1> QED  BY <1>1, <1>2, <1>3, <1>4, <1>5, <1>6, <1>7, <1>8, <1>9, <1>10, <1>11, NextCases

-----------------------------------------------------------------------------

\* The inductive invariant for one worker.
Flags == socketOpen \in BOOLEAN /\ undefined \in BOOLEAN
OneWorker == Types /\ SomebodyCares /\ OneSend /\ Ordered /\ Flags

\* The flags are flags.
LEMMA FlagsStep == Flags /\ [Next]_vars => Flags'
<1> SUFFICES ASSUME Flags, [Next]_vars PROVE Flags'
  OBVIOUS
<1> USE DEF Flags, history, lists, control
<1>1. ASSUME NEW b, SendRefused(b) \/ SendQueued(b) \/ SendPosted(b) PROVE socketOpen' \in BOOLEAN
  BY <1>1 DEF SendRefused, SendQueued, SendPosted
<1>2. Send => Flags'
  BY <1>1 DEF Send
<1>3. CASE SendFromThread \/ \E w \in Workers : SendFromCallback(w)
  BY <1>2, <1>3 DEF SendFromThread, SendFromCallback
<1>4. ASSUME NEW w \in Workers,
             \/ Dequeue(w) \/ AdvancePosition(w) \/ MeasurePosition(w) \/ SwapReader(w)
             \/ CheckReader(w) \/ PostRest(w) \/ BeginReceive(w) \/ EndReceive(w)
      PROVE  Flags'
  BY <1>4 DEF Dequeue, AdvancePosition, MeasurePosition, SwapReader, CheckReader,
              PostRest, BeginReceive, EndReceive
<1>5. ASSUME NEW w \in Workers, PostRestFailed(w) PROVE Flags'
  BY <1>5 DEF PostRestFailed
<1>6. ASSUME NEW w \in Workers, UseLostReader(w) PROVE Flags'
  BY <1>6 DEF UseLostReader
<1>7. ASSUME NEW b \in Buffers, NEW n \in 1..Lengths[b], Transmit(n) PROVE Flags'
  BY <1>7 DEF Transmit
<1>8. CASE Disconnect
  BY <1>8 DEF Disconnect
<1>9. CASE UNCHANGED vars
  BY <1>9 DEF vars
<1> QED  BY <1>3, <1>4, <1>5, <1>6, <1>7, <1>8, <1>9, NextCases

\* The constructor.
LEMMA InitOneWorker == Init => OneWorker
<1> SUFFICES ASSUME Init PROVE OneWorker
  OBVIOUS
<1>1. Types /\ SomebodyCares
  BY InitInv
<1>2. OneSend
  BY DEF Init, OneSend, AtMostOne, WriteStates
<1>3. <<>> \o <<>> = <<>>
  OBVIOUS
<1>4. Ordered
  BY <1>3, BytesOfNone DEF Init, Ordered, Between
<1>5. Flags
  BY DEF Init, Flags
<1> QED  BY <1>1, <1>2, <1>4, <1>5 DEF OneWorker

\* Every step.
LEMMA OneWorkerStep == Lonely /\ OneWorker /\ [Next]_vars => OneWorker'
BY TypesStep, CareStep, OneStep, OrderStep, FlagsStep DEF OneWorker

\* What was sent of the reader's buffer is inside the buffer.
LEMMA SentInside ==
    ASSUME NEW w \in Workers, Types, AtMostOne(w), Midway(w)
    PROVE  /\ reader.buffer \in Buffers
           /\ Sent(w) \in 0..Lengths[reader.buffer]
           /\ SubSeq(BytesOf(reader.buffer), 1, Sent(w)) \in Seq(Byte)
           /\ \E rest \in Seq(Byte) : BytesOf(reader.buffer)
                 = SubSeq(BytesOf(reader.buffer), 1, Sent(w)) \o rest
<1> DEFINE b == reader.buffer
           k == Sent(w)
<1>1. /\ reader # NoReader /\ b \in Buffers /\ reader.position \in Nat /\ size[w] \in Nat
      /\ port # <<>> => port[1] \in Nat
  BY DEF Midway, Types, AtMostOne
<1>2. Lengths[b] \in Nat
  BY <1>1, LengthsFact
<1>3. Sent(w) \in 0..Lengths[b]
  <2>1. CASE port # <<>>
    <3>1. Fits(port[1]) /\ pc[w] # "advance"
      BY <2>1 DEF AtMostOne, WriteStates
    <3> QED  BY <1>1, <1>2, <2>1, <3>1 DEF Sent, Fits
  <2>2. CASE port = <<>> /\ pc[w] = "advance"
    BY <1>1, <1>2, <2>2 DEF Sent, AtMostOne, Fits
  <2>3. CASE port = <<>> /\ pc[w] # "advance"
    BY <1>1, <1>2, <2>3 DEF Sent, AtMostOne, Fits
  <2> QED  BY <2>1, <2>2, <2>3
<1>4. BytesOf(b) \in Seq(Byte) /\ Len(BytesOf(b)) = Lengths[b]
  <2>1. <<>> \in Seq(Buffers)
    OBVIOUS
  <2> QED  BY <1>1, <2>1, BytesAppend
<1> HIDE DEF b, k
<1> DEFINE y == SubSeq(BytesOf(b), 1, k)
           z == SubSeq(BytesOf(b), k + 1, Lengths[b])
<1>5. k \in Nat /\ k <= Lengths[b]
  BY <1>2, <1>3 DEF k
<1>6. y \in Seq(Byte) /\ z \in Seq(Byte)
  <2>1. /\ \A i \in 1..k : BytesOf(b)[i] \in Byte
        /\ \A i \in (k+1)..Lengths[b] : BytesOf(b)[i] \in Byte
    BY <1>2, <1>4, <1>5
  <2>2. 1 \in Int /\ k \in Int /\ k + 1 \in Int /\ Lengths[b] \in Int
    BY <1>2, <1>5
  <2> QED  BY <2>1, <2>2, SubSeqProperties
<1>7. BytesOf(b) = y \o z
  <2>1. /\ 1 \in 1..(Len(BytesOf(b)) + 1) /\ k \in (1-1)..Len(BytesOf(b))
        /\ Lengths[b] \in k..Len(BytesOf(b))
    BY <1>2, <1>4, <1>5
  <2>2. y \o z = SubSeq(BytesOf(b), 1, Lengths[b])
    BY <1>4, <2>1, ConcatAdjacentSubSeq
  <2>3. SubSeq(BytesOf(b), 1, Lengths[b]) = BytesOf(b)
    BY <1>4, SubSeqFull
  <2> QED  BY <2>2, <2>3
<1> QED  BY <1>1, <1>3, <1>6, <1>7 DEF b, k

\* What was accepted is what was completed, and more; what was sent are the bytes that
\* were completed, and more.
LEMMA OrderedParts ==
    ASSUME NEW w \in Workers, Types, OneSend, Ordered
    PROVE  /\ \E more \in Seq(Buffers) : accepted = completed \o more
           /\ \E more \in Seq(Byte) : wire = Bytes(completed) \o more
           /\ \E rest \in Seq(Byte) : Bytes(accepted) = wire \o rest
           /\ completed \in Seq(Buffers) /\ Bytes(completed) \in Seq(Byte)
           /\ wire \in Seq(Byte)
<1>1. Between(w) \/ Midway(w) \/ Refused(w)
  BY DEF Ordered
<1>2. completed \in Seq(Buffers) /\ queue \in Seq(Buffers) /\ wire \in Seq(Byte)
  BY DEF Types, Byte
<1>3. /\ Bytes(completed) \in Seq(Byte) /\ Bytes(queue) \in Seq(Byte)
      /\ Bytes(completed \o queue) = Bytes(completed) \o Bytes(queue)
  BY <1>2, BytesJoined
<1>4. completed \o <<>> = completed /\ <<>> \in Seq(Buffers)
  BY <1>2
<1>5. Bytes(completed) \o <<>> = Bytes(completed) /\ <<>> \in Seq(Byte)
  BY <1>3, ConcatEmptySeq
<1>6. CASE Between(w)
  BY <1>2, <1>3, <1>5, <1>6 DEF Between
<1>7. CASE Refused(w)
  BY <1>2, <1>3, <1>4, <1>5, <1>7 DEF Refused
<1>8. CASE Midway(w)
  <2> DEFINE b == reader.buffer
             y == SubSeq(BytesOf(b), 1, Sent(w))
             c == Bytes(completed)
             q == Bytes(queue)
  <2>1. /\ b \in Buffers /\ y \in Seq(Byte)
        /\ \E rest \in Seq(Byte) : BytesOf(b) = y \o rest
    BY <1>8, SentInside DEF OneSend
  <2>2. PICK z \in Seq(Byte) : BytesOf(b) = y \o z
    BY <2>1
  <2>3. accepted = Append(completed, b) \o queue /\ wire = c \o y
    BY <1>8 DEF Midway
  <2> HIDE DEF b, y
  <2>4. accepted = completed \o (<<b>> \o queue) /\ <<b>> \o queue \in Seq(Buffers)
    <3>1. <<b>> \in Seq(Buffers)
      BY <2>1
    <3>2. Append(completed, b) = completed \o <<b>>
      BY <1>2, <2>1, AppendIsConcat
    <3>3. (completed \o <<b>>) \o queue = completed \o (<<b>> \o queue)
      BY <1>2, <3>1, ConcatAssociative
    <3> QED  BY <1>2, <2>3, <3>1, <3>2, <3>3, ConcatProperties
  <2>5. Bytes(accepted) = (c \o (y \o z)) \o q
    <3>1. Append(completed, b) \in Seq(Buffers)
      BY <1>2, <2>1
    <3>2. Bytes(Append(completed, b) \o queue) = Bytes(Append(completed, b)) \o q
      BY <1>2, <3>1, BytesJoined
    <3>3. Bytes(Append(completed, b)) = c \o BytesOf(b)
      BY <1>2, <2>1, BytesAppend
    <3> QED  BY <2>2, <2>3, <3>2, <3>3
  <2>6. c \in Seq(Byte) /\ q \in Seq(Byte)
    BY <1>3
  <2> HIDE DEF c, q
  <2>7. (c \o (y \o z)) \o q = (c \o y) \o (z \o q)
    <3>1. c \o (y \o z) = (c \o y) \o z /\ c \o y \in Seq(Byte)
      BY <2>1, <2>2, <2>6, ConcatAssociative, ConcatProperties
    <3>2. ((c \o y) \o z) \o q = (c \o y) \o (z \o q)
      <4> DEFINE x == c \o y
      <4>1. x \in Seq(Byte)
        BY <3>1
      <4> HIDE DEF x
      <4>2. (x \o z) \o q = x \o (z \o q)
        BY <2>2, <2>6, <4>1, ConcatAssociative
      <4> QED  BY <4>2 DEF x
    <3> QED  BY <3>1, <3>2
  <2>8. z \o q \in Seq(Byte)
    BY <2>2, <2>6, ConcatProperties
  <2> QED  BY <1>2, <2>1, <2>3, <2>4, <2>5, <2>6, <2>7, <2>8 DEF c
<1> QED  BY <1>1, <1>6, <1>7, <1>8

\* The declared types.
LEMMA DeclaredTypes ==
    ASSUME Types, Inside, socketOpen \in BOOLEAN, undefined \in BOOLEAN
    PROVE  TypeOK
BY DEF Types, Inside, TypeOK, WriteStates

\* The send path with one worker: the types, one send at a time, and the buffers are
\* completed in the order of the calls of Send, none before its last byte was sent.
THEOREM SendsStayOrderly ==
    ASSUME Lonely, Workers # {}
    PROVE  Spec => []SendsAreOrderly
<1>1. Init => OneWorker
  BY InitOneWorker
<1>2. OneWorker /\ [Next]_vars => OneWorker'
  BY OneWorkerStep
<1>3. OneWorker => SendsAreOrderly
  <2> SUFFICES ASSUME OneWorker PROVE SendsAreOrderly
    OBVIOUS
  <2> PICK w \in Workers : TRUE
    OBVIOUS
  <2>1. Inside /\ OneSendInFlight /\ TypeOK
    BY OneInFlight, DeclaredTypes DEF OneWorker, Flags
  <2>2. PICK more \in Seq(Buffers) : accepted = completed \o more
    BY OrderedParts DEF OneWorker
  <2>3. PICK bytes \in Seq(Byte) : wire = Bytes(completed) \o bytes
    BY OrderedParts DEF OneWorker
  <2>4. completed \in Seq(Buffers) /\ Bytes(completed) \in Seq(Byte)
    BY OrderedParts DEF OneWorker
  <2>5. IsPrefix(completed, accepted) /\ IsPrefix(Bytes(completed), wire)
    BY <2>2, <2>3, <2>4, JoinedPrefix
  <2> QED  BY <2>1, <2>5 DEF CompletedInOrder, SendsAreOrderly
<1> QED  BY <1>1, <1>2, <1>3, PTL DEF Spec

-----------------------------------------------------------------------------
(* The refinement of BytePipe.                                             *)

\* A call of Send writes one packet, or none.
LEMMA SendWrites ==
    Types /\ Send => [Pipe!Next]_<<Bytes(accepted), wire>>
<1> SUFFICES ASSUME Types, Send PROVE [Pipe!Next]_<<Bytes(accepted), wire>>
  OBVIOUS
<1> DEFINE b == used + 1
<1>1. b \in Buffers /\ wire' = wire /\ (accepted' = accepted \/ accepted' = Append(accepted, b))
  BY LengthsFact DEF Send, SendRefused, SendQueued, SendPosted, Push, Types, lists
<1> HIDE DEF b
<1>2. CASE accepted' = accepted
  BY <1>1, <1>2
<1>3. CASE accepted' = Append(accepted, b)
  <2>1. Bytes(accepted)' = Bytes(accepted) \o BytesOf(b)
    BY <1>1, <1>3, BytesAppend DEF Types
  <2>2. Pipe!Write(BytesOf(b))
    BY <1>1, <2>1 DEF Pipe!Write
  <2> QED  BY <1>1, <2>2 DEF Pipe!Next
<1> QED  BY <1>1, <1>2, <1>3

\* A prefix of joined sequences.
LEMMA FirstPart ==
    ASSUME NEW s \in Seq(Byte), NEW t \in Seq(Byte)
    PROVE  SubSeq(s \o t, 1, Len(s)) = s /\ Len(s \o t) >= Len(s)
OBVIOUS

\* What was sent is the beginning of what was accepted.
LEMMA BytesAhead ==
    ASSUME Workers # {}
    PROVE  OneWorker => \E rest \in Seq(Byte) : Bytes(accepted) = wire \o rest
BY OrderedParts DEF OneWorker

\* The kernel delivers the next bytes of what was accepted.
LEMMA TransmitDelivers ==
    ASSUME OneWorker, NEW c \in Buffers, NEW n \in 1..Lengths[c],
           Transmit(n), OneWorker', (\E rest \in Seq(Byte) : Bytes(accepted) = wire \o rest)'
    PROVE  Pipe!Next
<1>1. /\ posted # <<>> /\ UNCHANGED accepted
      /\ wire' = wire \o SubSeq(BytesOf(Head(posted).buffer), Head(posted).from + 1,
                                Head(posted).from + n)
      /\ Head(posted).from + n <= Lengths[Head(posted).buffer]
  BY DEF Transmit, history
<1>2. wire \in Seq(Byte) /\ wire' \in Seq(Byte)
  BY DEF OneWorker, Types, Byte
<1>3. n \in Nat /\ n > 0
  BY LengthsFact
<1>4. Len(wire') = Len(wire) + n
  <2> DEFINE b == Head(posted).buffer
             k == Head(posted).from
  <2>1. b \in Buffers /\ k \in Nat
    <3>1. Head(posted) \in PostedRanges
      BY <1>1, HeadAndTail DEF OneWorker, Types
    <3> QED  BY <3>1 DEF PostedRanges
  <2> HIDE DEF b, k
  <2>2. BytesOf(b) \in Seq(Byte) /\ Len(BytesOf(b)) = Lengths[b] /\ Lengths[b] \in Nat
    BY <2>1, BytesTypes, LengthsFact DEF Byte
  <2>3. \A i \in (k+1)..(k+n) : BytesOf(b)[i] \in Byte
    BY <1>1, <1>3, <2>1, <2>2 DEF b, k
  <2>4. k + 1 \in Int /\ k + n \in Int
    BY <1>3, <2>1
  <2>5. /\ SubSeq(BytesOf(b), k + 1, k + n) \in Seq(Byte)
        /\ Len(SubSeq(BytesOf(b), k + 1, k + n)) = n
    <3>1. /\ SubSeq(BytesOf(b), k + 1, k + n) \in Seq(Byte)
          /\ Len(SubSeq(BytesOf(b), k + 1, k + n)) =
                IF k + 1 <= k + n THEN (k + n) - (k + 1) + 1 ELSE 0
      BY <2>3, <2>4, SubSeqProperties
    <3> QED  BY <1>3, <2>1, <3>1
  <2> DEFINE y == SubSeq(BytesOf(b), k + 1, k + n)
  <2>6. wire' = wire \o y
    BY <1>1 DEF b, k
  <2> HIDE DEF y
  <2>7. Len(wire \o y) = Len(wire) + Len(y)
    BY <1>2, <2>5, ConcatProperties DEF y
  <2> QED  BY <2>5, <2>6, <2>7 DEF y
<1>6. PICK rest \in Seq(Byte) : Bytes(accepted) = wire' \o rest
  BY <1>1
<1>7. /\ wire' = SubSeq(Bytes(accepted), 1, Len(wire'))
      /\ Len(wire') <= Len(Bytes(accepted)) /\ Len(Bytes(accepted)) \in Nat
  <2>1. wire' \o rest \in Seq(Byte)
    BY <1>2, <1>6, ConcatProperties
  <2> QED  BY <1>2, <1>6, <2>1, FirstPart
<1>8. Len(wire') \in (Len(wire) + 1)..Len(Bytes(accepted))
  BY <1>2, <1>3, <1>4, <1>7
<1>9. Pipe!Deliver(Len(wire'))
  BY <1>1, <1>7 DEF Pipe!Deliver
<1> QED  BY <1>8, <1>9 DEF Pipe!Next

\* The steps that neither accept nor send.
LEMMA OtherSteps ==
    ASSUME NEW w \in Workers,
           \/ Dequeue(w) \/ AdvancePosition(w) \/ MeasurePosition(w) \/ SwapReader(w)
           \/ CheckReader(w) \/ PostRest(w) \/ PostRestFailed(w) \/ BeginReceive(w)
           \/ EndReceive(w) \/ UseLostReader(w)
    PROVE  UNCHANGED <<accepted, wire>>
BY DEF Dequeue, AdvancePosition, MeasurePosition, SwapReader, CheckReader, PostRest,
       PostRestFailed, BeginReceive, EndReceive, UseLostReader, lists, history

\* The reader, the queue and the handlers of one worker implement BytePipe: what Send
\* accepts reaches the peer in order, every byte once.
THEOREM PipeIsImplemented ==
    ASSUME Lonely, Workers # {}
    PROVE  Spec => ImplementsPipe
<1>1. Init => OneWorker
  BY InitOneWorker
<1>2. OneWorker /\ [Next]_vars => OneWorker'
  BY OneWorkerStep
<1>3. Init => Pipe!Init
  BY BytesOfNone DEF Init, Pipe!Init
<1>4. OneWorker => \E rest \in Seq(Byte) : Bytes(accepted) = wire \o rest
  BY BytesAhead
<1>5. OneWorker' => (\E rest \in Seq(Byte) : Bytes(accepted) = wire \o rest)'
  BY <1>4, PTL
<1>6. OneWorker /\ [Next]_vars => [Pipe!Next]_<<Bytes(accepted), wire>>
  <2> SUFFICES ASSUME OneWorker, [Next]_vars
               PROVE  [Pipe!Next]_<<Bytes(accepted), wire>>
    OBVIOUS
  <2>1. CASE SendFromThread \/ \E v \in Workers : SendFromCallback(v)
    BY <2>1, SendWrites DEF OneWorker, SendFromThread, SendFromCallback
  <2>2. ASSUME NEW b \in Buffers, NEW n \in 1..Lengths[b], Transmit(n)
        PROVE  [Pipe!Next]_<<Bytes(accepted), wire>>
    BY <1>2, <1>5, <2>2, TransmitDelivers
  <2>3. CASE UNCHANGED <<accepted, wire>>
    BY <2>3
  <2>4. CASE Disconnect \/ UNCHANGED vars
    BY <2>3, <2>4 DEF Disconnect, vars, lists, history
  <2> QED  BY <2>1, <2>2, <2>3, <2>4, NextCases, OtherSteps
<1> QED  BY <1>1, <1>2, <1>3, <1>6, PTL DEF Spec, ImplementsPipe, Pipe!Spec

================================================================================
