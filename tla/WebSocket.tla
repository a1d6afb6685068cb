------------------------------ MODULE WebSocket ------------------------------
(***************************************************************************)
(* WebsocketHelper.cpp: the answer to a websocket handshake (SHA-1 and     *)
(* base64), the frame the server sends (packData) and the frame it         *)
(* receives (WebRecv). Every operation clears the buffers it uses, so the  *)
(* state is the last operation with its input and its result. Bytes are    *)
(* numbers; an array indexed from 0 in the code is a sequence from 1 here. *)
(***************************************************************************)
EXTENDS Integers, FiniteSets, SequencesExt

CONSTANTS
    KnownAnswers,  \* Sec-WebSocket-Key values and the answers they must get
    GUID,          \* the bytes of "258EAFA5-E914-47DA-95CA-C5AB0DC85B11"
    Messages,      \* messages that are packed, hashed, encoded or received
    Masks,         \* masks of a client
    Lengths,       \* lengths of further messages that are packed
    LongMessages   \* further messages that are received

PACKDATALEN == 1024
UNPACKDATA == 1024

VARIABLES
    last,   \* [op, input, output] of the last operation that ended
    sha     \* the hash being computed: key, blocks left, words W, A..E, digest
vars == <<last, sha>>

Zeros(n) == [i \in 1..n |-> 0]
Least(a, b) == IF a < b THEN a ELSE b

-----------------------------------------------------------------------------
(* The operators of C on numbers below 65536, the exclusive or bit by bit. *)

Xor(a, b) ==
    LET xor[i \in 0..16] ==
            IF i = 0 THEN 0
            ELSE (2 * xor[i - 1]) + ((a \div 2^(16 - i) + b \div 2^(16 - i)) % 2)
    IN  xor[16]
And(a, b) == (a + b - Xor(a, b)) \div 2
Or(a, b) == a + b - And(a, b)

-----------------------------------------------------------------------------
(* SHA-1. A 32-bit word is a pair of 16-bit halves. *)

K == << <<23170, 31129>>, <<28377, 60321>>, <<36635, 48348>>, <<51810, 49622>> >>
Digest0 == << <<26437, 8961>>, <<61389, 43913>>, <<39098, 56574>>,
              <<4146, 21622>>, <<50130, 57840>> >>

Plus(x, y) ==
    LET low == x[2] + y[2] IN <<(x[1] + y[1] + (low \div 65536)) % 65536, low % 65536>>
Xor2(x, y) == <<Xor(x[1], y[1]), Xor(x[2], y[2])>>

\* SHA1CircularShift, for shifts below 16 and for the shift by 30.
Shift(n, x) == <<((x[1] * 2^n) % 65536) + (x[2] \div 2^(16 - n)),
                 ((x[2] * 2^n) % 65536) + (x[1] \div 2^(16 - n))>>
Shift30(x) == LET y == Shift(14, x) IN <<y[2], y[1]>>

Half(op(_, _, _), b, c, d) == <<op(b[1], c[1], d[1]), op(b[2], c[2], d[2])>>
Choice(b, c, d) == And(b, c) + And(65535 - b, d)
Parity(b, c, d) == Xor(Xor(b, c), d)
Majority(b, c, d) == Or(Or(And(b, c), And(b, d)), And(c, d))

Logic(t, b, c, d) ==
    IF t <= 20 THEN Half(Choice, b, c, d)
    ELSE IF t \in 41..60 THEN Half(Majority, b, c, d)
    ELSE Half(Parity, b, c, d)

\* Word t of a block: the first sixteen are its bytes, the others mix earlier ones.
Word(block, w, t) ==
    IF t <= 16 THEN <<block[4*t - 3] * 256 + block[4*t - 2], block[4*t - 1] * 256 + block[4*t]>>
    ELSE Shift(1, Xor2(Xor2(w[t - 3], w[t - 8]), Xor2(w[t - 14], w[t - 16])))

\* One of the eighty rounds on <<A, B, C, D, E>>.
Mixed(r, t, word) ==
    LET temp == Plus(Plus(Plus(Shift(5, r[1]), Logic(t, r[2], r[3], r[4])),
                          Plus(r[5], word)), K[((t - 1) \div 20) + 1])
    IN  <<temp, r[1], Shift30(r[2]), r[3], r[4]>>

\* SHA1PadMessage: the blocks that end a message of n bytes whose last,
\* incomplete block is "rest".
LengthBytes(n) == <<0, 0, 0, 0, 0, n \div 8192, (n \div 32) % 256, (n * 8) % 256>>
PadBlocks(rest, n) ==
    LET padded == rest \o <<128>>
    IN  IF Len(rest) > 55
        THEN <<padded \o Zeros(64 - Len(padded)), Zeros(56) \o LengthBytes(n)>>
        ELSE <<padded \o Zeros(56 - Len(padded)) \o LengthBytes(n)>>

\* SHA1Result and SHA1Input: the blocks that are processed.
SHA1Blocks(m) ==
    LET whole == Len(m) \div 64
    IN  [i \in 1..whole |-> SubSeq(m, 64*i - 63, 64*i)]
            \o PadBlocks(SubSeq(m, 64*whole + 1, Len(m)), Len(m))

\* The hexadecimal text of the digest, read back by htoi, in either case of the
\* letters (tolower), two digits at a time.
DigestBytes(d) ==
    [i \in 1..20 |->
        LET half == d[((i - 1) \div 4) + 1][(((i - 1) \div 2) % 2) + 1]
        IN  IF i % 2 = 1 THEN half \div 256 ELSE half % 256]

-----------------------------------------------------------------------------
(* base64 and the handshake. *)

\* One group of up to three bytes gives four indices into the alphabet (64 is
\* the padding).
Group(bytes, i) ==
    LET at(k) == IF k <= Len(bytes) THEN bytes[k] ELSE 0
        prepare == at(1) * 65536 + at(2) * 256 + at(3)
    IN  IF Len(bytes) < i THEN 64 ELSE (prepare \div 2^(6 * (3 - i))) % 64

base64_encode(data) ==
    [j \in 1..4 * ((Len(data) + 2) \div 3) |->
        LET g == (j - 1) \div 4
        IN  Group(SubSeq(data, 3*g + 1, Least(3*g + 3, Len(data))), (j - 1) % 4)]

\* shakeHand: the lines of the answer, the key in the last one.
shakeHand(serverKey) ==
    <<"101 Switching Protocols", "Upgrade", "Connection", "Sec-WebSocket-Accept">>
        \o serverKey

-----------------------------------------------------------------------------
(* Frames. *)

\* packData: a short header below 126 bytes, a longer one below PACKDATALEN,
\* nothing above ("long content is not handled for now").
packData(m) ==
    CASE Len(m) < 126 -> <<130, Len(m)>> \o m
      [] Len(m) >= 126 /\ Len(m) < PACKDATALEN ->
            <<130, 126, (Len(m) \div 256) % 256, Len(m) % 256>> \o m
      [] OTHER -> <<>>

\* strlen(buf) after the copy: up to the first zero byte.
StrLen(buf) ==
    LET zero == {i \in DOMAIN buf : buf[i] = 0}
    IN  IF zero = {} THEN Len(buf) ELSE (CHOOSE i \in zero : \A j \in zero : i <= j) - 1

\* The three header layouts: where the mask is and how long the payload says
\* it is. Eight bytes of length are copied into n, an unsigned long of four:
\* the number is the last four of them, the others land beside n.
Header(u) ==
    LET short == u[2] % 128
    IN  CASE short = 126 -> [mask |-> 4, length |-> u[3] * 256 + u[4], fits |-> TRUE]
          [] short = 127 -> [mask |-> 10, length |-> u[9] * 256 + u[10], fits |-> FALSE]
          [] OTHER       -> [mask |-> 2, length |-> short, fits |-> TRUE]

\* Memory beside a buffer was written: what follows is anything.
Outside == <<<<>>, -1>>

\* WebRecv: <<the buffer it leaves, what it returns>>. Frames that are not the
\* last of a message, close frames and frames without a mask are dropped. The
\* frame is copied into m_UnpackData without a look at its length. Where a copy
\* leaves its buffer, nothing may come of it.
\* The changed form takes the mask from where the payload starts.
Unmasked_Shifted(u, h, n) ==
    [i \in 1..n |-> Xor(u[h.mask + 4 + i], u[h.mask + (i % 4) + 1])]
Unmasked(u, h, n) ==
    [i \in 1..n |-> Xor(u[h.mask + 4 + i], u[h.mask + ((i - 1) % 4) + 1])]
WebRecv(frame) ==
    LET u == frame \o Zeros(UNPACKDATA + 20 - Len(frame))
        h == Header(u)
        n == Least(h.length, Len(frame))
        buf == Unmasked(u, h, n) \o Zeros(Len(frame) - n)
        dropped == u[1] < 128 \/ Len(frame) < 2 \/ u[1] % 16 = 8 \/ u[2] < 128
        leaves == Len(frame) > UNPACKDATA \/ (~dropped /\ ~h.fits)
    IN  {IF dropped THEN <<Zeros(Len(frame)), 0>> ELSE <<buf, StrLen(buf)>>}
            \cup (IF leaves THEN {Outside} ELSE {})

-----------------------------------------------------------------------------
(* The protocol's own frames (RFC 6455), as a client masks them. *)

LengthField(n) ==
    CASE n < 126 -> <<128 + n>>
      [] n >= 126 /\ n < 65536 -> <<254, n \div 256, n % 256>>
LongField(n) == <<255, 0, 0, 0, 0, 0, 0, n \div 256, n % 256>>
ClientFrame(m, mask, field) ==
    <<129>> \o field \o mask \o [i \in DOMAIN m |-> Xor(m[i], mask[((i - 1) % 4) + 1])]

-----------------------------------------------------------------------------
\* A to E at the beginning of a block.
Registers(digest) == <<digest[1], digest[2], digest[3], digest[4], digest[5]>>

Idle == [key |-> <<>>, blocks |-> <<>>, w |-> <<>>, r |-> Digest0, digest |-> Digest0]

Init == last = [op |-> "none", input |-> <<>>, output |-> <<>>] /\ sha = Idle

Ends(op, input, output) == last' = [op |-> op, input |-> input, output |-> output]

\* GetAcceptKey: SHA1Reset and SHA1Input of the key and the GUID.
GetAcceptKey(key) ==
    /\ sha = Idle
    /\ sha' = [Idle EXCEPT !.key = key, !.blocks = SHA1Blocks(key \o GUID)]
    /\ Ends("none", key, <<>>)

\* SHA1ProcessMessageBlock, a round at a time (nothing runs in between), and
\* what it does after the eightieth.
Round ==
    /\ sha.blocks # <<>> /\ Len(sha.w) < 80
    /\ LET t == Len(sha.w) + 1
           word == Word(Head(sha.blocks), sha.w, t)
       IN  sha' = [sha EXCEPT !.w = Append(@, word), !.r = Mixed(@, t, word)]
    /\ UNCHANGED last

EndBlock_KeepsRegisters ==
    /\ Len(sha.w) = 80
    /\ LET d == [i \in 1..5 |-> Plus(sha.digest[i], sha.r[i])]
       IN  sha' = [sha EXCEPT !.blocks = Tail(@), !.w = <<>>, !.digest = d]
    /\ UNCHANGED last
EndBlock ==
    /\ Len(sha.w) = 80
    /\ LET d == [i \in 1..5 |-> Plus(sha.digest[i], sha.r[i])]
       IN  sha' = [sha EXCEPT !.blocks = Tail(@), !.w = <<>>, !.r = Registers(d),
                              !.digest = d]
    /\ UNCHANGED last

\* The end of GetAcceptKey: the digest in base64 goes into the answer.
WebAccept ==
    /\ sha # Idle /\ sha.blocks = <<>>
    /\ Ends("accept", sha.key, shakeHand(base64_encode(DigestBytes(sha.digest))))
    /\ sha' = Idle

WebSend(m) == Ends("send", m, packData(m)) /\ UNCHANGED sha
ReceiveFrame(m, mask, field) ==
    LET frame == ClientFrame(m, mask, field)
    IN  /\ \E output \in WebRecv(frame) : Ends("recv", [sent |-> m, came |-> frame], output)
        /\ UNCHANGED sha
Receive(m) ==
    \E mask \in Masks, field \in {LengthField(Len(m)), LongField(Len(m))} :
        ReceiveFrame(m, mask, field)
Hash(m) == Ends("hash", m, SHA1Blocks(m)) /\ UNCHANGED sha
Encode(m) == Ends("base64", m, base64_encode(m)) /\ UNCHANGED sha

Next ==
    \/ \E key \in DOMAIN KnownAnswers : GetAcceptKey(key)
    \/ Round \/ EndBlock \/ WebAccept
    \/ /\ sha = Idle
       /\ \/ \E n \in Lengths : WebSend([i \in 1..n |-> i % 251])
          \/ \E m \in Messages : Hash(m) \/ Encode(m)
          \/ \E m \in Messages \cup LongMessages : Receive(m)

Spec == Init /\ [][Next]_vars

-----------------------------------------------------------------------------
(* Properties. *)

\* packData: what the server sends is one final binary frame whose length
\* field, read as the protocol says, is the length of the message; a message
\* it does not handle is not sent at all.
PackIsAFrame ==
    last.op = "send" /\ last.output # <<>> =>
        LET f == last.output
            header == IF f[2] = 126 THEN 4 ELSE 2
        IN  /\ f[1] = 130 /\ f[2] \in 0..126
            /\ (IF f[2] = 126 THEN f[3] * 256 + f[4] ELSE f[2]) = Len(f) - header
            /\ SubSeq(f, header + 1, Len(f)) = last.input

\* packData: the frame is longer than m_PackData only for the last three
\* lengths below PACKDATALEN, whose header no longer fits.
PackStaysInside ==
    last.op = "send" /\ Len(last.output) > PACKDATALEN =>
        Len(last.input) \in PACKDATALEN - 3..PACKDATALEN - 1

\* WebRecv undoes what the protocol does to a message, whichever of the length
\* fields the client used; a zero byte in the message ends it. The exception is
\* a receive that wrote outside its buffers.
ReceiveIsInverse ==
    last.op = "recv" /\ last.output # Outside =>
        LET m == last.input.sent IN
        /\ SubSeq(last.output[1], 1, Len(m)) = m
        /\ last.output[2] = StrLen(Append(m, 0))

\* WebRecv writes outside its buffers when the received bytes, with their header,
\* are more than m_UnpackData holds, and on every frame with the long length
\* field, however short ("core dumped if data is too long" is said of the copy
\* after it), and on no other.
ReceiveStaysInside ==
    last.op = "recv" /\ last.output = Outside =>
        Len(last.input.came) > UNPACKDATA \/ last.input.came[2] % 128 = 127

\* SHA1Input, SHA1PadMessage: the blocks are the message, one 0x80, the fewest
\* zeros that fill the last block, and the length in bits.
PadIsStandard ==
    last.op = "hash" =>
        LET m == last.input
            zeros == (119 - (Len(m) % 64)) % 64
        IN  FlattenSeq(last.output) =
                m \o <<128>> \o Zeros(zeros) \o LengthBytes(Len(m))

\* base64_encode: reading the six-bit groups back gives the data.
Base64Decodes ==
    last.op = "base64" =>
        LET d == last.input
            c == last.output
            bits(i) == LET v == c[((i - 1) \div 6) + 1] % 64
                       IN  (v \div 2^(5 - ((i - 1) % 6))) % 2
            byte[i \in 0..7, k \in DOMAIN d] ==
                IF i = 0 THEN bits(8*k - 7) ELSE 2 * byte[i - 1, k] + bits(8*(k - 1) + i + 1)
        IN  /\ \A k \in DOMAIN d : byte[7, k] = d[k]
            /\ Cardinality({j \in DOMAIN c : c[j] = 64}) = (3 - (Len(d) % 3)) % 3
            /\ Len(c) % 4 = 0

\* GetAcceptKey: SHA-1, htoi and base64 together give the answers that are
\* known (the protocol's own example among them), as the end of the reply.
AcceptKeyIsStandard ==
    last.op = "accept" =>
        LET key == KnownAnswers[last.input]
            n == Len(last.output)
        IN  SubSeq(last.output, n - Len(key) + 1, n) = key

\* Frames in both directions over all length classes, and the key's way through
\* SHA-1 and base64.
WebSocketIsSound ==
    /\ PackIsAFrame /\ PackStaysInside /\ ReceiveIsInverse /\ ReceiveStaysInside
    /\ PadIsStandard /\ Base64Decodes /\ AcceptKeyIsStandard

=============================================================================
