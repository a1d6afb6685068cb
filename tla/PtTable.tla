------------------------------- MODULE PtTable -------------------------------
(***************************************************************************)
(* table.c: a hash table of chained nodes. _PER_SOCKET_CONTEXT_LIST keeps  *)
(* the contexts in it by GUID, inserts each GUID once, and calls every     *)
(* operation inside m_ContextLock; only the callback of an enumeration     *)
(* runs in the middle of one.                                              *)
(***************************************************************************)
EXTENDS Integers, FiniteSets, Sequences

CONSTANTS
    Granularity,  \* number of chains: TABLE_NORMAL_COUNT
    Ids,          \* GUIDs
    Ptrs          \* contexts

Buckets == 0..(Granularity - 1)
Index(id) == id % Granularity
End == -1  \* the NULL behind the last node of a chain

VARIABLES
    head,     \* head[i]: the chain of nodes, from the first to the last
    size,     \* size
    cursor,   \* of pt_table_enum: the index i and the id of the node current
    visited,  \* ids the callback was called for
    expected  \* history: ids in the table when the enumeration began

table == <<head, size>>
vars == <<table, cursor, visited, expected>>

NoEnum == [bucket |-> End, node |-> End]

Init ==
    /\ head = [i \in Buckets |-> <<>>] /\ size = 0
    /\ cursor = NoEnum /\ visited = {} /\ expected = {}

IdsOf(chain) == {chain[j].id : j \in DOMAIN chain}
Contents == UNION {IdsOf(head[i]) : i \in Buckets}
Pairs == UNION {{<<head[i][j].id, head[i][j].ptr>> : j \in DOMAIN head[i]}
                    : i \in Buckets}

-----------------------------------------------------------------------------
(* Insert, erase, find, clear. *)

pt_table_node_new(id, ptr) == [id |-> id, ptr |-> ptr]

\* The new node goes behind the last one of the chain.
Linked(chain, node) == Append(chain, node)

pt_table_insert(id, ptr) ==
    /\ head' = [head EXCEPT ![Index(id)] = Linked(@, pt_table_node_new(id, ptr))]
    /\ size' = size + 1

Unlinked_CutsTail(chain, j) == [k \in 1..(j - 1) |-> chain[k]]

\* The chain without its j-th node.
Unlinked(chain, j) ==
    [k \in 1..(Len(chain) - 1) |-> IF k < j THEN chain[k] ELSE chain[k + 1]]

\* The first node with the id is unlinked and freed, if there is one.
pt_table_erase(id) ==
    IF id \in IdsOf(head[Index(id)])
    THEN /\ size' = size - 1
         /\ \E j \in DOMAIN head[Index(id)] :
               /\ head[Index(id)][j].id = id
               /\ \A k \in 1..(j - 1) : head[Index(id)][k].id # id
               /\ head' = [head EXCEPT ![Index(id)] = Unlinked(@, j)]
    ELSE UNCHANGED table

\* The pointer pt_table_find returns is that of the first node with the id.
pt_table_find(id) ==
    LET chain == head[Index(id)]
        hits == {j \in DOMAIN chain : chain[j].id = id}
    IN  {chain[j].ptr : j \in {k \in hits : \A m \in hits : k <= m}}

pt_table_free_node == <<>>
pt_table_clear == head' = [i \in Buckets |-> pt_table_free_node] /\ size' = 0

-----------------------------------------------------------------------------
(* _PER_SOCKET_CONTEXT_LIST: the operations inside m_ContextLock, which an   *)
(* enumeration holds from its beginning to its end.                          *)

Locked(operation) ==
    cursor = NoEnum /\ operation /\ UNCHANGED <<cursor, visited, expected>>

\* m_guid of a new context is a number nobody had before.
AddContext(id, ptr) == id \notin Contents /\ Locked(pt_table_insert(id, ptr))
DeleteContext(id) == Locked(pt_table_erase(id))
ClearAll == Locked(pt_table_clear)
GetContext(id) == pt_table_find(id)

-----------------------------------------------------------------------------
(* pt_table_enum. *)

FirstOf(i) == IF head[i] = <<>> THEN End ELSE head[i][1].id

\* The node behind the one with the id, in a chain that has it.
NextOf(chain, id) ==
    LET behind == {j \in DOMAIN chain : j > 1 /\ chain[j - 1].id = id}
    IN  IF behind = {} THEN End ELSE chain[CHOOSE j \in behind : TRUE].id

EnumBegin ==
    /\ cursor = NoEnum
    /\ cursor' = [bucket |-> 0, node |-> FirstOf(0)]
    /\ visited' = {} /\ expected' = Contents
    /\ UNCHANGED table

EnumVisit_ReadsNextLast ==
    /\ cursor.node # End
    /\ visited' = visited \cup {cursor.node}
    /\ UNCHANGED table \/ pt_table_erase(cursor.node)
    /\ cursor' = [cursor EXCEPT !.node = NextOf(head'[cursor.bucket], cursor.node)]
    /\ UNCHANGED expected

\* next is read before the callback, which may erase the node it is given.
EnumVisit ==
    /\ cursor.node # End
    /\ visited' = visited \cup {cursor.node}
    /\ cursor' = [cursor EXCEPT !.node = NextOf(head[cursor.bucket], cursor.node)]
    /\ UNCHANGED table \/ pt_table_erase(cursor.node)
    /\ UNCHANGED expected

EnumNext ==
    /\ cursor # NoEnum /\ cursor.node = End /\ cursor.bucket < Granularity - 1
    /\ cursor' = [bucket |-> cursor.bucket + 1, node |-> FirstOf(cursor.bucket + 1)]
    /\ UNCHANGED <<table, visited, expected>>

EnumEnd ==
    /\ cursor.node = End /\ cursor.bucket = Granularity - 1
    /\ cursor' = NoEnum
    /\ UNCHANGED <<table, visited, expected>>

Next ==
    \/ \E id \in Ids : DeleteContext(id) \/ \E p \in Ptrs : AddContext(id, p)
    \/ ClearAll \/ EnumBegin \/ EnumVisit \/ EnumNext \/ EnumEnd

Spec == Init /\ [][Next]_vars

-----------------------------------------------------------------------------
(* Properties. *)

\* The state has the declared types, and a node is in the chain of its id.
TypeOK ==
    /\ head \in [Buckets -> Seq([id : Ids, ptr : Ptrs])]
    /\ size \in Nat
    /\ cursor \in [bucket : Buckets \cup {End}, node : Ids \cup {End}]
    /\ visited \subseteq Ids /\ expected \subseteq Ids
    /\ \A i \in Buckets : \A j \in DOMAIN head[i] : Index(head[i][j].id) = i

\* However chains grow and lose nodes at their ends and in the middle, size is
\* the number of contexts, and no GUID is in the table twice.
SizeIsExact ==
    /\ size = Cardinality(Pairs)
    /\ \A i \in Buckets : \A j, k \in DOMAIN head[i] :
           head[i][j].id = head[i][k].id => j = k

\* An enumeration whose callback erases the node it is called for, as the
\* closing of a connection may, still reaches every other node: the callback
\* has been called for everything that was in the table at the beginning.
EnumVisitsAll ==
    /\ cursor.node # End => cursor.node \in IdsOf(head[cursor.bucket])
    /\ cursor.node = End /\ cursor.bucket = Granularity - 1 => visited = expected

Map == INSTANCE FiniteMap WITH pairs <- Pairs

\* The table is a finite map from GUIDs to contexts: no operation on one GUID
\* touches another one that shares its chain.
ImplementsMap == Map!Spec

\* GetContext returns the context inserted under the GUID, or NULL.
FindIsLookup ==
    \A id \in Ids : GetContext(id) = {pair[2] : pair \in {p \in Pairs : p[1] = id}}

\* pt_table: chains, size, enumeration and look-up agree whatever the collisions.
TableIsSound == TypeOK /\ SizeIsExact /\ EnumVisitsAll /\ FindIsLookup

=============================================================================
