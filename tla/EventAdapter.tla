----------------------------- MODULE EventAdapter -----------------------------
(***************************************************************************)
(* The adapters between hiredis and four event loops (ae, libev, libevent, *)
(* libuv): a record for each asynchronous context that says which events   *)
(* are watched, functions to start and stop watching, a clean-up, and the  *)
(* callbacks the loop runs. The asynchronous context and the loops are     *)
(* external: a handler of hiredis may start or stop watching, or free the  *)
(* context, which runs the clean-up; a loop does not run a callback whose  *)
(* watcher was stopped while it was waiting its turn.                      *)
(***************************************************************************)
EXTENDS Naturals, FiniteSets

Adapters == {"ae", "libev", "libevent", "libuv"}
Events == {"read", "write"}

VARIABLES
    adapter,   \* the adapter of this behaviour
    functions, \* ev.addRead and the others are set
    data,      \* ev.data: NULL or attached
    record,    \* the record: none, live, closing, freed, leaked
    flags,     \* reading and writing, or events, of the record
    watched,   \* events the loop watches
    context,   \* the asynchronous context: live, freed
    turn,      \* events whose callbacks the loop has still to run in this round
    handling,  \* a handler of hiredis runs
    polled,    \* libuv: the rest of redisLibuvPoll, after redisAsyncHandleRead
    crashed,   \* a function was called with ev.data NULL, or malloc's NULL was used
    stray      \* a handler was called for a freed context

memory == <<functions, data, record>>
loop == <<turn, handling, polled>>
vars == <<adapter, memory, flags, watched, context, loop, crashed, stray>>

Init ==
    /\ adapter \in Adapters
    /\ functions = FALSE /\ data = "NULL" /\ record = "none"
    /\ flags = {} /\ watched = {} /\ context = "live"
    /\ turn = {} /\ handling = FALSE /\ polled = {}
    /\ crashed = FALSE /\ stray = FALSE

-----------------------------------------------------------------------------
(* Attaching. *)

Attached ==
    /\ functions' = TRUE /\ data' = "attached" /\ record' = "live"
    /\ flags' = {} /\ UNCHANGED crashed

\* These three use what malloc returns without a test.
NoMemory ==
    /\ crashed' = TRUE
    /\ UNCHANGED <<memory, flags>>
redisAeAttach == Attached \/ NoMemory
redisLibevAttach == Attached \/ NoMemory
redisLibeventAttach == Attached \/ NoMemory

\* The functions are set first; a failed malloc leaves no record, a failed
\* uv_poll_init one that nobody frees, and both leave ev.data NULL.
redisLibuvAttach ==
    \/ Attached
    \/ /\ functions' = TRUE /\ record' \in {"none", "leaked"}
       /\ UNCHANGED <<data, flags, crashed>>

\* The owner attaches once; with ev.data set it is REDIS_ERR and nothing happens.
Attach ==
    /\ ~functions /\ context = "live" /\ ~crashed
    /\ \/ adapter = "ae" /\ redisAeAttach
       \/ adapter = "libev" /\ redisLibevAttach
       \/ adapter = "libevent" /\ redisLibeventAttach
       \/ adapter = "libuv" /\ redisLibuvAttach
    /\ UNCHANGED <<adapter, watched, context, loop, stray>>

-----------------------------------------------------------------------------
(* Starting and stopping, with privdata a live record.                        *)

\* With a flag for each event, the loop is asked only when the flag changes.
FlaggedAdd(e) ==
    IF e \in flags THEN UNCHANGED <<flags, watched>>
    ELSE flags' = flags \cup {e} /\ watched' = watched \cup {e}
FlaggedDel(e) ==
    IF e \notin flags THEN UNCHANGED <<flags, watched>>
    ELSE flags' = flags \ {e} /\ watched' = watched \ {e}

\* The changed form leaves the flag.
redisAeDelRead_KeepsFlag == watched' = watched \ {"read"} /\ UNCHANGED flags
redisAeDelRead == FlaggedDel("read")
redisAeAddRead == FlaggedAdd("read")
redisAeForceAddRead == flags' = flags \cup {"read"} /\ watched' = watched \cup {"read"}
redisAeAddWrite == FlaggedAdd("write")
redisAeDelWrite == FlaggedDel("write")
redisLibevAddRead == FlaggedAdd("read")
redisLibevDelRead == FlaggedDel("read")
redisLibevAddWrite == FlaggedAdd("write")
redisLibevDelWrite == FlaggedDel("write")

\* libevent has no flags: adding twice and deleting twice is harmless there.
redisLibeventAddRead == watched' = watched \cup {"read"} /\ UNCHANGED flags
redisLibeventDelRead == watched' = watched \ {"read"} /\ UNCHANGED flags
redisLibeventAddWrite == watched' = watched \cup {"write"} /\ UNCHANGED flags
redisLibeventDelWrite == watched' = watched \ {"write"} /\ UNCHANGED flags

\* libuv watches what events says, or nothing.
Poll(events) == flags' = events /\ watched' = events
redisLibuvAddRead == Poll(flags \cup {"read"})
redisLibuvDelRead == Poll(flags \ {"read"})
redisLibuvAddWrite == Poll(flags \cup {"write"})
redisLibuvDelWrite == Poll(flags \ {"write"})

Changes ==
    \/ /\ adapter = "ae"
       /\ \/ redisAeAddRead \/ redisAeForceAddRead \/ redisAeDelRead
          \/ redisAeAddWrite \/ redisAeDelWrite
    \/ /\ adapter = "libev"
       /\ \/ redisLibevAddRead \/ redisLibevDelRead
          \/ redisLibevAddWrite \/ redisLibevDelWrite
    \/ /\ adapter = "libevent"
       /\ \/ redisLibeventAddRead \/ redisLibeventDelRead
          \/ redisLibeventAddWrite \/ redisLibeventDelWrite
    \/ /\ adapter = "libuv"
       /\ \/ redisLibuvAddRead \/ redisLibuvDelRead
          \/ redisLibuvAddWrite \/ redisLibuvDelWrite

\* hiredis tests the function pointer, not ev.data.
Change ==
    /\ functions /\ context = "live" /\ ~crashed
    /\ IF data = "NULL" THEN crashed' = TRUE /\ UNCHANGED <<flags, watched>>
       ELSE Changes /\ UNCHANGED crashed
    /\ turn' = turn \cap watched'
    /\ UNCHANGED <<adapter, memory, context, handling, polled, stray>>

-----------------------------------------------------------------------------
(* Cleaning up, when hiredis frees the context.                               *)

\* Two adapters stop watching what their flags say is watched.
redisAeCleanup == record' = "freed" /\ watched' = watched \ flags
redisLibevCleanup == record' = "freed" /\ watched' = watched \ flags
redisLibeventCleanup == record' = "freed" /\ watched' = {}

\* uv_close: the record is freed in a later round, by on_close.
redisLibuvCleanup == record' = "closing" /\ watched' = {}
on_close ==
    /\ record = "closing" /\ ~handling /\ polled = {} /\ record' = "freed"
    /\ UNCHANGED <<adapter, functions, data, flags, watched, context, loop, crashed, stray>>

Cleanup ==
    /\ functions /\ context = "live" /\ ~crashed
    /\ IF data = "NULL" THEN crashed' = TRUE /\ UNCHANGED <<record, watched>>
       ELSE /\ \/ adapter = "ae" /\ redisAeCleanup
               \/ adapter = "libev" /\ redisLibevCleanup
               \/ adapter = "libevent" /\ redisLibeventCleanup
               \/ adapter = "libuv" /\ redisLibuvCleanup
            /\ UNCHANGED crashed
    /\ context' = "freed" /\ turn' = {}
    /\ UNCHANGED <<adapter, functions, data, flags, handling, polled, stray>>

-----------------------------------------------------------------------------
(* The loop.                                                                  *)

\* A round: some of the watched events have happened. An event of libevent is not
\* persistent: it is watched until it happens.
Round ==
    /\ turn = {} /\ ~handling /\ polled = {} /\ ~crashed
    /\ \E ready \in (SUBSET watched) \ {{}} :
        IF adapter = "libuv"
        THEN polled' = ready /\ UNCHANGED <<turn, watched>>
        ELSE /\ turn' = ready
             /\ watched' = IF adapter = "libevent" THEN watched \ ready ELSE watched
             /\ UNCHANGED polled
    /\ UNCHANGED <<adapter, memory, flags, context, handling, crashed, stray>>

\* redisAsyncHandleRead or Write on e->context.
HandleEvent == handling' = TRUE /\ stray' = (stray \/ context = "freed")
redisAeReadEvent == HandleEvent
redisAeWriteEvent == HandleEvent
redisLibevReadEvent == HandleEvent
redisLibevWriteEvent == HandleEvent
redisLibeventReadEvent == HandleEvent
redisLibeventWriteEvent == HandleEvent
RunCallback(e) ==
    /\ e \in turn /\ ~handling /\ turn' = turn \ {e}
    /\ \/ adapter = "ae" /\ e = "read" /\ redisAeReadEvent
       \/ adapter = "ae" /\ e = "write" /\ redisAeWriteEvent
       \/ adapter = "libev" /\ e = "read" /\ redisLibevReadEvent
       \/ adapter = "libev" /\ e = "write" /\ redisLibevWriteEvent
       \/ adapter = "libevent" /\ e = "read" /\ redisLibeventReadEvent
       \/ adapter = "libevent" /\ e = "write" /\ redisLibeventWriteEvent
    /\ UNCHANGED <<adapter, memory, flags, watched, context, polled, crashed>>

\* Reading first, then writing, both from the argument: the second test does not
\* ask what the first handler did. An error status ends it.
redisLibuvPoll ==
    /\ adapter = "libuv" /\ polled # {} /\ ~handling
    /\ \/ /\ IF "read" \in polled THEN polled' = polled \ {"read"} ELSE polled' = {}
          /\ HandleEvent
       \/ polled' = {} /\ UNCHANGED <<handling, stray>>
    /\ UNCHANGED <<adapter, memory, flags, watched, context, turn, crashed>>

HandlerReturns ==
    /\ handling /\ handling' = FALSE
    /\ UNCHANGED <<adapter, memory, flags, watched, context, turn, polled, crashed, stray>>

Next ==
    \/ Attach \/ Change \/ Cleanup \/ on_close
    \/ Round \/ redisLibuvPoll \/ HandlerReturns
    \/ \E e \in Events : RunCallback(e)

Spec == Init /\ [][Next]_vars

-----------------------------------------------------------------------------
(* Properties. *)

TypeOK ==
    /\ watched \subseteq Events /\ turn \subseteq Events
    /\ record = "live" => data = "attached"
    /\ polled # {} => adapter = "libuv"

\* What a record says it watches is what the loop watches, whoever asked in which
\* order: an event that is wrongly marked would never be asked for again.
FlagsMatchWatchers ==
    record = "live" /\ adapter # "libevent" => flags = watched

\* No handler runs for a context that was freed, except the write handler of libuv
\* after a read handler that freed it.
StrayOnlyInLibuvPoll == stray => adapter = "libuv" /\ context = "freed"

\* Freeing the context ends the watching at once, and its record is freed, by
\* libuv in a later round; only a failed uv_poll_init leaves one behind.
NothingOutlivesContext ==
    /\ context = "freed" => watched = {} /\ turn = {} /\ record \in {"freed", "closing", "none", "leaked"}
    /\ record \in {"closing", "leaked"} => adapter = "libuv"

\* A crash needs a failed attach: no memory, or a libuv context that is used
\* although Attach returned REDIS_ERR.
CrashOnlyAfterFailedAttach == crashed => record \in {"none", "leaked"}

\* The four adapters under any order of calls and events.
AdaptersAreSound ==
    /\ TypeOK /\ FlagsMatchWatchers /\ StrayOnlyInLibuvPoll
    /\ NothingOutlivesContext /\ CrashOnlyAfterFailedAttach

=============================================================================
