----------------------------- MODULE SharedBuffer -----------------------------
(***************************************************************************)
(* CIOCPBuffer: handles that share a counted block of bytes                *)
(* (IOCPBufferData), the pool the blocks come from and go back to          *)
(* (IOCPMemPool), and CIOCPBufferReader. Every operation on the pool is    *)
(* inside m_MutexLock, every count is interlocked: each operation of a     *)
(* handle is one step. Lengths, capacities, counts and positions have the  *)
(* width of a DWORD.                                                       *)
(*                                                                         *)
(* The constructor of a block does not set m_nRefs: a new block starts     *)
(* with whatever its memory held.                                          *)
(***************************************************************************)
EXTENDS Integers, SequencesExt

CONSTANTS
    Handles,    \* CIOCPBuffer objects
    MaxBlocks,  \* bound: blocks that are created
    MaxPool,    \* bound: entries of the pool
    Modulus,    \* 2^32 for a DWORD
    AllocSize,  \* IOCP_BUFFER_ALLOC_SIZE
    PoolCount,  \* m_dwAllocateCount
    Garbage,    \* values m_nRefs may have when a block is created
    ShortModulus, \* 2^16 for the length of a string
    Strings,    \* lengths of the strings written
    Sizes       \* lengths given to constructors, Append, Reallocate and Read

VARIABLES
    data,       \* m_pData of a handle: the number of a block, 0 before its life
    blocks,     \* the blocks, in the order they were created
    pool,       \* m_vObjectPool
    position,   \* m_nPosition of a reader on the handle's buffer
    wrapped,    \* history: a sum of lengths or positions exceeded a DWORD
    outside     \* history: a Read copied bytes past the data of its buffer

vars == <<data, blocks, pool, position, wrapped, outside>>

\* A block: m_nRefs, m_dwDataLength, m_dwAllocLength; "dirt" (history) is what
\* m_nRefs held when the block was created.
NewBlock(g) == [refs |-> g, dirt |-> g, length |-> 0, capacity |-> AllocSize]

\* GetNewBufferArray, called for an empty pool: m_dwAllocateCount new blocks.
NewBlocks == {[i \in 1..PoolCount |-> NewBlock(g[i])] : g \in [1..PoolCount -> Garbage]}
NewNumbers(n) == [i \in 1..PoolCount |-> n + i]

Init ==
    /\ data = [h \in Handles |-> 0]
    /\ blocks \in NewBlocks
    /\ pool = NewNumbers(0)
    /\ position = [h \in Handles |-> 0]
    /\ wrapped = FALSE /\ outside = FALSE

Live(h) == data[h] # 0
UsersOf(b) == {h \in Handles : data[h] = b}
Entries(b) == {i \in DOMAIN pool : pool[i] = b}

\* IOCP_BUFFER_ALIGN_MEMORY
Align(n) ==
    LET r == n % AllocSize
    IN  (n + (AllocSize - IF r # 0 THEN r ELSE AllocSize)) % Modulus

\* Reallocate (and the end of Allocate): a block that is too small grows.
Grown(b, n) == [b EXCEPT !.capacity = IF @ < n THEN Align(n) ELSE @]

\* IOCPBufferData::AddRef
Referenced(bs, b) == [bs EXCEPT ![b].refs = (@ + 1) % Modulus]

\* IOCPMemPool::Free
Free(p, b) == Append(p, b)

\* IOCPBufferData::Release: m_nRefs is unsigned, so "<= 0" is "= 0".
\* The changed form frees a block when a reference is left.
Released_Early(bs, b) ==
    /\ blocks' = [bs EXCEPT ![b].refs = (@ - 1) % Modulus]
    /\ pool' = IF bs[b].refs \in {1, 2} THEN Free(pool, b) ELSE pool
Released(bs, b) ==
    /\ blocks' = [bs EXCEPT ![b].refs = (@ - 1) % Modulus]
    /\ pool' = IF bs[b].refs = 1 THEN Free(pool, b) ELSE pool

-----------------------------------------------------------------------------
(* The operations of a handle. *)

\* IOCPMemPool::Alloc: the first entry of the pool, which is filled first when
\* it is empty; "more" are the blocks it is filled with.
Filling == IF pool = <<>> THEN NewBlocks ELSE {<<>>}
Filled == IF pool = <<>> THEN NewNumbers(Len(blocks)) ELSE pool

\* Allocate(n) and AddRef. "len" is what the constructor leaves as data length.
Allocated(bs, n, len) ==
    Referenced([bs EXCEPT ![Head(Filled)] = Grown([@ EXCEPT !.length = len], n)],
               Head(Filled))

Allocate(h, n, len) ==
    \E more \in Filling :
        /\ Len(blocks \o more) <= MaxBlocks
        /\ blocks' = Allocated(blocks \o more, n, len)
        /\ data' = [data EXCEPT ![h] = Head(Filled)]
        /\ pool' = Tail(Filled)

\* The default constructor and the one with a length.
Construct(h) ==
    /\ ~Live(h)
    /\ \/ Allocate(h, AllocSize, 0)
       \/ \E n \in Sizes : Allocate(h, n, n)
    /\ position' = [position EXCEPT ![h] = 0]
    /\ UNCHANGED <<wrapped, outside>>

\* The copy constructors: one more reference to the same block.
Copy(h, g) ==
    /\ ~Live(h) /\ Live(g)
    /\ blocks' = Referenced(blocks, data[g])
    /\ data' = [data EXCEPT ![h] = data[g]]
    /\ position' = [position EXCEPT ![h] = 0]
    /\ UNCHANGED <<pool, wrapped, outside>>

\* operator =: the new block is referenced before the old one is released.
Assign(h, g) ==
    /\ Live(h) /\ Live(g) /\ Len(pool) < MaxPool
    /\ Released(Referenced(blocks, data[g]), data[h])
    /\ data' = [data EXCEPT ![h] = data[g]]
    /\ UNCHANGED <<position, wrapped, outside>>

Destroy(h) ==
    /\ Live(h) /\ Len(pool) < MaxPool
    /\ Released(blocks, data[h])
    /\ data' = [data EXCEPT ![h] = 0]
    /\ UNCHANGED <<position, wrapped, outside>>

\* AddBytesAndReallocate: the sum has the width of a DWORD, in the test as in
\* the new length.
Added(b, n) ==
    LET sum == (b.length + n) % Modulus
    IN  [Grown(b, sum) EXCEPT !.length = sum]
Wraps(b, n) == b.length + n + AllocSize > Modulus
AddBytes(h, n) ==
    /\ blocks' = [blocks EXCEPT ![data[h]] = Added(@, n)]
    /\ wrapped' = (wrapped \/ Wraps(blocks[data[h]], n))

\* Append of bytes, operator += (another handle's bytes).
AppendBytes(h) ==
    /\ Live(h)
    /\ \E n \in Sizes \cup {blocks[data[g]].length : g \in {g \in Handles : Live(g)}} :
        AddBytes(h, n)
    /\ UNCHANGED <<data, pool, position, outside>>

\* operator +: a new block gets the bytes of the one and then of the other.
Plus(h, g, f) ==
    /\ ~Live(h) /\ Live(g) /\ Live(f)
    /\ \E more \in Filling :
        LET bs == Allocated(blocks \o more, AllocSize, 0)
            one == Added(bs[Head(Filled)], bs[data[g]].length)
        IN  /\ Len(bs) <= MaxBlocks
            /\ blocks' = [bs EXCEPT ![Head(Filled)] = Added(one, bs[data[f]].length)]
            /\ wrapped' = (wrapped \/ Wraps(bs[Head(Filled)], bs[data[g]].length)
                              \/ Wraps(one, bs[data[f]].length))
    /\ data' = [data EXCEPT ![h] = Head(Filled)] /\ pool' = Tail(Filled)
    /\ position' = [position EXCEPT ![h] = 0]
    /\ UNCHANGED outside

\* CIOCPBufferWriter::WriteString: the length as an unsigned short, then as many
\* bytes of the string as it says.
ShortSize == 2
WriteString(h) ==
    /\ Live(h)
    /\ \E n \in Strings :
        LET b == blocks[data[h]]
            headed == Added(b, ShortSize)
        IN  /\ blocks' = [blocks EXCEPT ![data[h]] = Added(headed, n % ShortModulus)]
            /\ wrapped' = (wrapped \/ Wraps(b, ShortSize)
                              \/ Wraps(headed, n % ShortModulus))
    /\ UNCHANGED <<data, pool, position, outside>>

\* Reallocate: the length is set as well, for every handle of the block.
Resize(h) ==
    /\ Live(h)
    /\ \E n \in Sizes :
        blocks' = [blocks EXCEPT ![data[h]] = [Grown(@, n) EXCEPT !.length = n]]
    /\ UNCHANGED <<data, pool, position, wrapped, outside>>

\* CIOCPBufferReader::Read and IgnoreBytes: the test adds with the width of a
\* DWORD; when it fails an exception leaves the position as it was.
Fits(h, n) == (position[h] + n) % Modulus <= blocks[data[h]].length
Skip(h, n) ==
    /\ Fits(h, n)
    /\ position' = [position EXCEPT ![h] = (@ + n) % Modulus]
    /\ outside' = (outside \/ position[h] + n > blocks[data[h]].length)
    /\ wrapped' = (wrapped \/ position[h] + n >= Modulus)
    /\ UNCHANGED <<data, blocks, pool>>
Read(h) == Live(h) /\ \E n \in Sizes : Skip(h, n)

\* Peek has the same test and leaves the position alone.
Peek(h) ==
    /\ Live(h)
    /\ \E n \in Sizes :
        /\ Fits(h, n)
        /\ outside' = (outside \/ position[h] + n > blocks[data[h]].length)
        /\ wrapped' = (wrapped \/ position[h] + n >= Modulus)
    /\ UNCHANGED <<data, blocks, pool, position>>

\* ReadString: the length is read, whatever it says, and stays read when the
\* bytes do not fit the caller's array or the buffer.
ReadString(h) ==
    /\ Live(h) /\ Fits(h, ShortSize)
    /\ \E n \in {s % ShortModulus : s \in Strings} :
        LET start == (position[h] + ShortSize) % Modulus
            fits == (start + n) % Modulus <= blocks[data[h]].length
            last == IF fits THEN start + n ELSE start
        IN  \E past \in {start, last} :
            /\ position' = [position EXCEPT ![h] = past % Modulus]
            /\ outside' = (outside \/ past > blocks[data[h]].length
                              \/ position[h] + ShortSize > blocks[data[h]].length)
            /\ wrapped' = (wrapped \/ past >= Modulus
                              \/ position[h] + ShortSize >= Modulus)
    /\ UNCHANGED <<data, blocks, pool>>

Next ==
    \E h \in Handles :
        \/ Construct(h) \/ Destroy(h) \/ AppendBytes(h) \/ Resize(h) \/ Read(h)
        \/ Peek(h) \/ ReadString(h) \/ WriteString(h)
        \/ \E g \in Handles :
              Copy(h, g) \/ Assign(h, g) \/ \E f \in Handles : Plus(h, g, f)

Spec == Init /\ [][Next]_vars

-----------------------------------------------------------------------------
(* Properties. *)

\* Blocks are numbered, counts and lengths have the width of a DWORD, and the
\* count of a block is what it started with plus its handles (AddRef, Release).
TypeOK ==
    /\ data \in [Handles -> 0..Len(blocks)]
    /\ \A b \in DOMAIN blocks :
        /\ blocks[b].refs = (blocks[b].dirt + Cardinality(UsersOf(b))) % Modulus
        /\ {blocks[b].length, blocks[b].capacity} \subseteq 0..Modulus - 1
    /\ ToSet(pool) \subseteq DOMAIN blocks
    /\ position \in [Handles -> 0..Modulus - 1]

\* IOCPBufferData::Release: a block whose memory held zero when it was created
\* is in the pool once when nobody uses it, and not at all while somebody does.
\* Nothing of the kind holds for a block that started with another value.
CleanBlocksAreExact ==
    \A b \in DOMAIN blocks :
        blocks[b].dirt = 0 =>
            Cardinality(Entries(b)) = IF UsersOf(b) = {} THEN 1 ELSE 0

\* AddBytesAndReallocate and Reallocate: unless a sum exceeded a DWORD, the
\* data of a block lies inside its memory.
DataFits ==
    ~wrapped => \A b \in DOMAIN blocks : blocks[b].length <= blocks[b].capacity

\* Reader: a Read that passes the test copies bytes of the buffer, unless the
\* sum of the test wrapped: then it copies from past the end.
ReadsStayInside == outside => wrapped

\* The shared buffers: counts, capacities and the reader's bounds.
BuffersAreSound == TypeOK /\ CleanBlocksAreExact /\ DataFits /\ ReadsStayInside

=============================================================================
