----------------------------- MODULE HandleOwner -----------------------------
(***************************************************************************)
(* The owners of Win32_SmartHandle.h: SmartHandle, SmartFileView,          *)
(* SmartFileMapHandle, SmartServiceHandle and SmartRegistryHandle, each a  *)
(* member that a destructor closes. Windows gives the number of a closed   *)
(* handle to the next one, so that closing twice may close what somebody   *)
(* else has just opened. Handles, views, services and keys are numbers of  *)
(* one space here. Whoever uses the owners is external: any order of their *)
(* operations, and the implicit copy the classes do not forbid.            *)
(***************************************************************************)
EXTENDS Naturals, FiniteSets

CONSTANTS
    Objects,      \* places for owners
    MaxHandles    \* bound: handles open at once

Handles == 1..MaxHandles
NULL == 0
INVALID == MaxHandles + 1   \* INVALID_HANDLE_VALUE
Values == Handles \cup {NULL, INVALID}
Kinds == {"handle", "view", "map", "service", "registry"}

VARIABLES
    kind,      \* the class of each object, none where there is no object
    m_handle,  \* its member (m_viewPtr of a view)
    open,      \* the handles that are open
    failed,    \* the last operation of the object threw
    copied,    \* an owner was copied
    guessed,   \* a member was tested before it was set
    written,   \* a member was overwritten while it owned a handle
    wrong      \* a handle was closed that was not open, or was another owner's

causes == <<copied, guessed, written>>
vars == <<kind, m_handle, open, failed, causes, wrong>>

Init ==
    /\ kind = [o \in Objects |-> "none"] /\ m_handle = [o \in Objects |-> NULL]
    /\ open = {} /\ failed = [o \in Objects |-> FALSE]
    /\ copied = FALSE /\ guessed = FALSE /\ written = FALSE /\ wrong = FALSE

\* Valid of SmartHandle and SmartFileMapHandle; the others compare with NULL, and
\* nobody gives them INVALID_HANDLE_VALUE.
Valid(h) == h # INVALID /\ h # NULL
Invalid(h) == ~Valid(h)

Owners(h) == {o \in Objects : kind[o] # "none" /\ m_handle[o] = h}

\* CloseHandle and its relatives on h, called for object o.
Closed(h) == open \ {h}
Misses(o, h) == Valid(h) /\ (h \notin open \/ Owners(h) \ {o} # {})

\* What CreateFileMapping, MapViewOfFile, DuplicateHandle and the callers' own
\* opening return when `closed` was closed before.
Fresh(after) == Handles \ after

\* A constructor, or an assignment, gets h, opened by the caller or by itself.
Owns(o, k, h, after) ==
    /\ kind' = [kind EXCEPT ![o] = k]
    /\ m_handle' = [m_handle EXCEPT ![o] = h]
    /\ open' = IF Valid(h) THEN after \cup {h} ELSE after
    /\ failed' = [failed EXCEPT ![o] = FALSE]

\* A constructor that throws leaves no object.
NoObject(after) == UNCHANGED <<kind, m_handle, failed>> /\ open' = after

\* An assignment that throws leaves the member as h.
Throws(o, h, after) ==
    /\ m_handle' = [m_handle EXCEPT ![o] = h]
    /\ open' = after
    /\ failed' = [failed EXCEPT ![o] = TRUE]
    /\ UNCHANGED kind

-----------------------------------------------------------------------------
(* Constructors.                                                              *)

\* The default constructors: NULL, but INVALID_HANDLE_VALUE of a file mapping.
DefaultMember == [k \in Kinds |-> IF k = "map" THEN INVALID ELSE NULL]
Construct(o) ==
    /\ kind[o] = "none"
    /\ \E k \in Kinds : Owns(o, k, DefaultMember[k], open)
    /\ UNCHANGED <<causes, wrong>>

\* SmartHandle(handle), and with a duplicated handle: throws for an invalid one.
SmartHandle(o) ==
    /\ kind[o] = "none"
    /\ NoObject(open) \/ \E h \in Fresh(open) : Owns(o, "handle", h, open)
    /\ UNCHANGED <<causes, wrong>>

\* SmartHandle(handle, errorToReport) calls Close before the member has a value:
\* whatever was in the memory is closed if it looks valid.
SmartHandle_Reporting(o) ==
    /\ kind[o] = "none" /\ guessed' = TRUE
    /\ \E g \in Values :
        LET after == IF Valid(g) THEN Closed(g) ELSE open IN
        /\ wrong' = (wrong \/ Misses(o, g))
        /\ NoObject(after) \/ \E h \in Fresh(open) : Owns(o, "handle", h, after)
    /\ UNCHANGED <<copied, written>>

\* The constructors with arguments of the others: services and keys are taken over
\* as they are, mappings and views are made, and throw when that fails.
SmartServiceHandle(o) ==
    /\ kind[o] = "none"
    /\ \E h \in Fresh(open) \cup {NULL} : Owns(o, "service", h, open)
    /\ UNCHANGED <<causes, wrong>>
SmartRegistryHandle(o) ==
    /\ kind[o] = "none"
    /\ \E h \in Fresh(open) \cup {NULL} : Owns(o, "registry", h, open)
    /\ UNCHANGED <<causes, wrong>>
SmartFileMapHandle(o) ==
    /\ kind[o] = "none"
    /\ NoObject(open) \/ \E h \in Fresh(open) : Owns(o, "map", h, open)
    /\ UNCHANGED <<causes, wrong>>
SmartFileView(o) ==
    /\ kind[o] = "none"
    /\ NoObject(open) \/ \E h \in Fresh(open) : Owns(o, "view", h, open)
    /\ UNCHANGED <<causes, wrong>>

\* The copy that the compiler writes: two owners of one handle.
Copy(o, p) ==
    /\ kind[o] = "none" /\ kind[p] # "none"
    /\ kind' = [kind EXCEPT ![o] = kind[p]]
    /\ m_handle' = [m_handle EXCEPT ![o] = m_handle[p]]
    /\ failed' = [failed EXCEPT ![o] = FALSE]
    /\ copied' = TRUE
    /\ UNCHANGED open
    /\ UNCHANGED <<guessed, written, wrong>>

-----------------------------------------------------------------------------
(* Operations.                                                                *)

\* Close of SmartHandle: the member is INVALID_HANDLE_VALUE afterwards. The
\* changed form leaves it.
CloseMember_Stays(h) == h
CloseMember(h) == IF Valid(h) THEN INVALID ELSE h
Close(o) ==
    /\ kind[o] = "handle"
    /\ wrong' = (wrong \/ Misses(o, m_handle[o]))
    /\ open' = Closed(m_handle[o])
    /\ m_handle' = [m_handle EXCEPT ![o] = CloseMember(@)]
    /\ UNCHANGED <<kind, failed, causes>>

\* Assign of SmartHandle: Close, then the new handle, or one that is invalid, which
\* throws.
Assign(o) ==
    /\ kind[o] = "handle"
    /\ wrong' = (wrong \/ Misses(o, m_handle[o]))
    /\ LET after == Closed(m_handle[o]) IN
        \/ \E h \in Fresh(open) : Owns(o, "handle", h, after)
        \/ \E h \in {NULL, INVALID} : Throws(o, h, after)
    /\ UNCHANGED causes

\* Assign with a handle to duplicate: a failure leaves what Close left.
AssignDuplicate(o) ==
    /\ kind[o] = "handle"
    /\ wrong' = (wrong \/ Misses(o, m_handle[o]))
    /\ LET after == Closed(m_handle[o]) IN
        \/ \E h \in Fresh(after) : Owns(o, "handle", h, after)
        \/ Throws(o, CloseMember(m_handle[o]), after)
    /\ UNCHANGED causes

\* The member is overwritten: nothing is closed.
Overwrites(o, k) ==
    /\ kind[o] = k
    /\ \E h \in Fresh(open) : Owns(o, k, h, open)
    /\ written' = (written \/ Valid(m_handle[o]))
    /\ UNCHANGED <<copied, guessed, wrong>>

\* Through operator PHANDLE, and operator= of services and keys (or HKEY* ).
WriteMember(o) == Overwrites(o, "handle")
AssignService(o) == Overwrites(o, "service")
AssignKey(o) == Overwrites(o, "registry")

\* Unmap of a file mapping.
Unmap(o) ==
    /\ kind[o] = "map"
    /\ wrong' = (wrong \/ Misses(o, m_handle[o]))
    /\ open' = Closed(m_handle[o])
    /\ m_handle' = [m_handle EXCEPT ![o] = NULL]
    /\ UNCHANGED <<kind, failed, causes>>

\* Assign of a file mapping.
AssignMap(o) ==
    /\ kind[o] = "map"
    /\ wrong' = (wrong \/ Misses(o, m_handle[o]))
    /\ LET after == Closed(m_handle[o]) IN
        \/ \E h \in Fresh(after) : Owns(o, "map", h, after)
        \/ Throws(o, NULL, after)
    /\ UNCHANGED causes

\* Remap of a file mapping does not close what the member has.
RemapMap(o) ==
    /\ kind[o] = "map"
    /\ written' = (written \/ Valid(m_handle[o]))
    /\ \/ \E h \in Fresh(open) : Owns(o, "map", h, open)
       \/ Throws(o, NULL, open)
    /\ UNCHANGED <<copied, guessed, wrong>>

\* UnmapViewOfFile throws for a view that is not mapped, and keeps the pointer.
UnmapViewOfFile(o) ==
    /\ kind[o] = "view"
    /\ wrong' = (wrong \/ Misses(o, m_handle[o]))
    /\ IF Valid(m_handle[o]) /\ m_handle[o] \notin open
       THEN Throws(o, m_handle[o], open)
       ELSE Owns(o, "view", NULL, Closed(m_handle[o]))
    /\ UNCHANGED causes

\* The three forms of Assign of a view: unmapped first, then NULL or a new view.
AssignView(o) ==
    /\ kind[o] = "view"
    /\ wrong' = (wrong \/ Misses(o, m_handle[o]))
    /\ LET h == m_handle[o] after == Closed(m_handle[o]) IN
        \/ /\ Valid(h) /\ h \notin open /\ Throws(o, h, open)
        \/ /\ Invalid(h) \/ h \in open
           /\ Throws(o, NULL, after) \/ \E v \in Fresh(after) : Owns(o, "view", v, after)
    /\ UNCHANGED causes

\* Remap of a view refuses while there is one.
RemapView(o) ==
    /\ kind[o] = "view"
    /\ \/ Valid(m_handle[o]) /\ Throws(o, m_handle[o], open)
       \/ /\ Invalid(m_handle[o])
          /\ Throws(o, NULL, open) \/ \E v \in Fresh(open) : Owns(o, "view", v, open)
    /\ UNCHANGED <<causes, wrong>>

Destroys(o, k) ==
    /\ kind[o] = k
    /\ kind' = [kind EXCEPT ![o] = "none"]
    /\ m_handle' = [m_handle EXCEPT ![o] = NULL]
    /\ failed' = [failed EXCEPT ![o] = FALSE]
    /\ open' = Closed(m_handle[o])
    /\ wrong' = (wrong \/ Misses(o, m_handle[o]))
    /\ UNCHANGED causes

\* The destructors. Mappings, services and keys close whatever they have; Windows
\* refuses NULL and takes INVALID_HANDLE_VALUE for the process. A view that cannot
\* be unmapped throws out of its destructor (Misses).
DestroyHandle(o) == Destroys(o, "handle")
DestroyView(o) == Destroys(o, "view")
DestroyMap(o) == Destroys(o, "map")
DestroyService(o) == Destroys(o, "service")
DestroyKey(o) == Destroys(o, "registry")

Next ==
    \E o \in Objects :
        \/ Construct(o) \/ SmartHandle(o) \/ SmartHandle_Reporting(o)
        \/ SmartServiceHandle(o) \/ SmartRegistryHandle(o)
        \/ SmartFileMapHandle(o) \/ SmartFileView(o)
        \/ \E p \in Objects : Copy(o, p)
        \/ Close(o) \/ Assign(o) \/ AssignDuplicate(o) \/ WriteMember(o)
        \/ AssignService(o) \/ AssignKey(o)
        \/ Unmap(o) \/ AssignMap(o) \/ RemapMap(o)
        \/ UnmapViewOfFile(o) \/ AssignView(o) \/ RemapView(o)
        \/ DestroyHandle(o) \/ DestroyView(o) \/ DestroyMap(o)
        \/ DestroyService(o) \/ DestroyKey(o)

Spec == Init /\ [][Next]_vars

-----------------------------------------------------------------------------
(* Properties. *)

TypeOK ==
    /\ m_handle \in [Objects -> Values]
    /\ \A o \in Objects : kind[o] = "none" => m_handle[o] = NULL
    /\ open \subseteq Handles

\* Whatever is assigned, closed and destroyed in whatever order, each owner's
\* handle is open and its own, unless an owner was copied or constructed by the
\* constructor that tests its member first.
OwnersAreExclusive ==
    ~copied /\ ~guessed =>
        /\ \A o \in Objects : Valid(m_handle[o]) => m_handle[o] \in open
        /\ \A o, p \in Objects : o # p /\ Valid(m_handle[o]) => m_handle[o] # m_handle[p]
        /\ ~wrong

\* A handle without an owner comes only from a member that was overwritten: Remap
\* of a mapping, operator= and the address operators. Exceptions lose none.
LeaksAreOverwritten == (\E h \in open : Owners(h) = {}) => written \/ guessed

\* An operation that threw leaves the object empty, so that it can be used again.
\* Only a view that was remapped while it had one, or that cannot be unmapped,
\* keeps it.
FailedIsEmpty ==
    \A o \in Objects : failed[o] /\ kind[o] # "view" => Invalid(m_handle[o])

\* The owners under any order of operations and exceptions.
HandlesAreOwned == TypeOK /\ OwnersAreExclusive /\ LeaksAreOverwritten /\ FailedIsEmpty

=============================================================================
