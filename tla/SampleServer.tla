----------------------------- MODULE SampleServer -----------------------------
(***************************************************************************)
(* MyIOCP, the server of the sample: the session it keeps for each         *)
(* connection (m_SessionList), the ticks that CMTTickInstance::OnTick      *)
(* queues, and the push thread that hands them to subscribers.             *)
(*                                                                         *)
(* The workers write m_SessionList and the push thread iterates over it    *)
(* and erases from it, without a lock. The iterators of std::map survive   *)
(* the changes of the others, and the model has each access as one step;   *)
(* what two overlapping accesses do to the tree itself is not modelled.    *)
(* The connection is seen from here through its notifications only.        *)
(***************************************************************************)
EXTENDS Naturals, FiniteSets, Sequences

CONSTANTS
    Guids,     \* connections: m_guid, in the order of the map
    MaxTicks   \* bound: ticks

VARIABLES
    context,        \* none, added (in the table), open, closing, closed, deleted
    m_SessionList,  \* the session of each guid in the map
    deque, ticks,   \* the queue of ticks, and how many came
    at,             \* what the push thread does next
    it,             \* the guid its iterator points to, 0 for end()
    tick,           \* the tick it took from the queue
    received,       \* ticks each connection was sent, in order
    lost,           \* history: ticks sent to a closed connection, or cleared
    misused,        \* SendEx was called on a deleted context
    constructor,    \* which constructor ran: params, or void
    queueSet        \* m_p_deque_lock and m_p_deque_list have values

push == <<at, it, tick>>
built == <<constructor, queueSet>>
vars == <<context, m_SessionList, deque, ticks, push, received, lost, misused, built>>

\* Both constructors start the push thread; the one with parameters has called
\* setDequeParams by then. The changed form starts the thread first.
MyIOCP_ThreadFirst == constructor \in {"params", "void"} /\ queueSet = FALSE
MyIOCP ==
    \/ constructor = "params" /\ queueSet = TRUE
    \/ constructor = "void" /\ queueSet = FALSE

Init ==
    /\ MyIOCP
    /\ context = [g \in Guids |-> "none"]
    /\ m_SessionList = [g \in {} |-> "NULL"]
    /\ deque = <<>> /\ ticks = 0
    /\ at = "asleep" /\ it = 0 /\ tick = 0
    /\ received = [g \in Guids |-> <<>>] /\ lost = {} /\ misused = FALSE

-----------------------------------------------------------------------------
(* The notifications, called by the workers. *)

\* m_SessionList.insert keeps an entry that is already there.
Insert(g) ==
    IF g \in DOMAIN m_SessionList THEN m_SessionList
    ELSE [h \in DOMAIN m_SessionList \cup {g} |->
            IF h = g THEN "NULL" ELSE m_SessionList[h]]

\* find, then assignment to it->second.
SetSession(g, s) ==
    IF g \in DOMAIN m_SessionList THEN [m_SessionList EXCEPT ![g] = s]
    ELSE m_SessionList

\* The texts of the interface: "--", "subscribe" and "unsubscribe". The first of
\* them, as any other text, changes nothing.
g_InterfaceMap == {"NULL", "SUBSCRIBE", "UNSUBSCRIBE"}

AddContext(g) ==
    /\ context[g] = "none"
    /\ context' = [context EXCEPT ![g] = "added"]
    /\ UNCHANGED <<m_SessionList, deque, ticks, push, received, lost, misused, built>>

NotifyNewConnection(g) ==
    /\ context[g] = "added"
    /\ context' = [context EXCEPT ![g] = "open"]
    /\ m_SessionList' = Insert(g)
    /\ UNCHANGED <<deque, ticks, push, received, lost, misused, built>>

\* A worker that began to handle a receive before the close may go on after it.
NotifyReceivedFormatPackage(g, s) ==
    /\ context[g] \in {"open", "closing", "closed"}
    /\ m_SessionList' = IF s = "NULL" THEN m_SessionList ELSE SetSession(g, s)
    /\ UNCHANGED <<context, deque, ticks, push, received, lost, misused, built>>

\* CloseClient makes the socket invalid, then notifies.
CloseClient(g) ==
    /\ context[g] = "open"
    /\ context' = [context EXCEPT ![g] = "closing"]
    /\ UNCHANGED <<m_SessionList, deque, ticks, push, received, lost, misused, built>>

NotifyDisconnectedClient(g) ==
    /\ context[g] = "closing"
    /\ context' = [context EXCEPT ![g] = "closed"]
    /\ m_SessionList' = SetSession(g, "NONE")
    /\ UNCHANGED <<deque, ticks, push, received, lost, misused, built>>

ReleaseSocketContext(g) ==
    /\ context[g] = "closed"
    /\ context' = [context EXCEPT ![g] = "deleted"]
    /\ UNCHANGED <<m_SessionList, deque, ticks, push, received, lost, misused, built>>

\* CMTTickInstance::OnTick, in a thread of the trading interface.
Queue(t) == deque' = Append(deque, t)
OnTick ==
    /\ ticks < MaxTicks
    /\ ticks' = ticks + 1 /\ Queue(ticks + 1)
    /\ UNCHANGED <<context, m_SessionList, push, received, lost, misused, built>>

setDequeParams ==
    /\ ~queueSet /\ queueSet' = TRUE
    /\ UNCHANGED <<context, m_SessionList, deque, ticks, push, received, lost,
                   misused, constructor>>

-----------------------------------------------------------------------------
(* The push thread. *)

InTable(g) == context[g] \notin {"none", "deleted"}

\* The first guid of S, end() when there is none.
First(S) == IF S = {} THEN 0 ELSE CHOOSE g \in S : \A h \in S : g <= h
After(g) == First({h \in DOMAIN m_SessionList : h > g})

Wake ==
    /\ at = "asleep"
    /\ it' = First(DOMAIN m_SessionList)
    /\ at' = IF it' = 0 THEN "clear" ELSE "visit"
    /\ UNCHANGED <<context, m_SessionList, deque, ticks, tick, received, lost, misused, built>>

\* The list was empty when Wake looked.
Clear ==
    /\ at = "clear" /\ queueSet /\ at' = "asleep"
    /\ deque' = <<>>
    /\ lost' = lost \cup {deque[i] : i \in DOMAIN deque}
    /\ UNCHANGED <<context, m_SessionList, ticks, it, tick, received, misused, built>>

GetContext ==
    /\ at = "visit" /\ it # 0 /\ InTable(it)
    /\ at' = "found"
    /\ UNCHANGED <<context, m_SessionList, deque, ticks, it, tick, received, lost, misused, built>>

\* The context is gone: its session goes as well.
Erase ==
    /\ at = "visit" /\ it # 0 /\ ~InTable(it)
    /\ it' = After(it)
    /\ m_SessionList' = [g \in DOMAIN m_SessionList \ {it} |-> m_SessionList[g]]
    /\ UNCHANGED <<context, deque, ticks, at, tick, received, lost, misused, built>>

Subscriber ==
    /\ at = "found" /\ m_SessionList[it] = "SUBSCRIBE"
    /\ at' = "loop"
    /\ UNCHANGED <<context, m_SessionList, deque, ticks, it, tick, received, lost, misused, built>>

\* it++. The changed form leaves the round.
NoSubscriber_Breaks ==
    /\ at = "found" /\ m_SessionList[it] # "SUBSCRIBE"
    /\ it' = 0 /\ at' = "visit"
    /\ UNCHANGED <<context, m_SessionList, deque, ticks, tick, received, lost, misused, built>>
NoSubscriber ==
    /\ at = "found" /\ m_SessionList[it] # "SUBSCRIBE"
    /\ it' = After(it) /\ at' = "visit"
    /\ UNCHANGED <<context, m_SessionList, deque, ticks, tick, received, lost, misused, built>>

\* front and pop_front under the lock; size was read without it, but only this
\* thread takes ticks out. The changed form forgets pop_front.
Take_Keeps ==
    /\ at = "loop" /\ queueSet /\ deque # <<>>
    /\ tick' = Head(deque) /\ deque' = deque
    /\ at' = "send"
    /\ UNCHANGED <<context, m_SessionList, ticks, it, received, lost, misused, built>>
Take ==
    /\ at = "loop" /\ queueSet /\ deque # <<>>
    /\ tick' = Head(deque) /\ deque' = Tail(deque)
    /\ at' = "send"
    /\ UNCHANGED <<context, m_SessionList, ticks, it, received, lost, misused, built>>

\* SendEx on the pointer GetContext returned before: Send does nothing when the
\* socket is invalid.
SendEx ==
    /\ at = "send" /\ at' = "loop" /\ tick' = 0
    /\ IF context[it] = "open"
       THEN received' = [received EXCEPT ![it] = Append(@, tick)] /\ lost' = lost
       ELSE received' = received /\ lost' = lost \cup {tick}
    /\ misused' = (misused \/ context[it] = "deleted")
    /\ UNCHANGED <<context, m_SessionList, deque, ticks, it, built>>

Drained ==
    /\ at = "loop" /\ queueSet /\ deque = <<>>
    /\ at' = "visit" /\ it' = After(it)
    /\ UNCHANGED <<context, m_SessionList, deque, ticks, tick, received, lost, misused, built>>

\* getDequeList returns a pointer nobody has set.
UseUnsetQueue ==
    /\ at \in {"clear", "loop"} /\ ~queueSet
    /\ at' = "crashed"
    /\ UNCHANGED <<context, m_SessionList, deque, ticks, it, tick, received, lost,
                   misused, built>>

EndRound ==
    /\ at = "visit" /\ it = 0
    /\ at' = "asleep"
    /\ UNCHANGED <<context, m_SessionList, deque, ticks, it, tick, received, lost, misused, built>>

Push ==
    \/ Wake \/ Clear \/ GetContext \/ Erase \/ Subscriber \/ NoSubscriber
    \/ Take \/ SendEx \/ Drained \/ UseUnsetQueue \/ EndRound

\* Each constructor has its own copy of the thread.
PushOfParams == constructor = "params" /\ Push
PushOfVoid == constructor = "void" /\ Push

Next ==
    \/ \E g \in Guids :
        \/ AddContext(g) \/ NotifyNewConnection(g) \/ CloseClient(g)
        \/ NotifyDisconnectedClient(g) \/ ReleaseSocketContext(g)
        \/ \E s \in g_InterfaceMap : NotifyReceivedFormatPackage(g, s)
    \/ OnTick \/ setDequeParams \/ PushOfParams \/ PushOfVoid

Spec == Init /\ [][Next]_vars

\* The push thread is never blocked for ever.
FairSpec == Spec /\ WF_vars(Push)

-----------------------------------------------------------------------------
(* Properties. *)

TypeOK ==
    /\ DOMAIN m_SessionList \subseteq {g \in Guids : context[g] \notin {"none", "added"}}
    /\ it \in Guids \cup {0}
    /\ at \in {"found", "loop", "send"} => it \in DOMAIN m_SessionList
    /\ at = "send" <=> tick # 0
    /\ at = "clear" => it = 0

\* The push thread erases sessions while connections come and go: a connection
\* that is open keeps its session, or its "subscribe" would find nothing.
OpenHasSession ==
    \A g \in Guids : context[g] = "open" => g \in DOMAIN m_SessionList

\* Whoever gets them, ticks reach a connection in the order OnTick got them,
\* through other subscribers, a clear and a subscription that was given up.
TicksInOrder ==
    \A g \in Guids : \A i, j \in DOMAIN received[g] :
        i < j => received[g][i] < received[g][j]

\* The subscribers share the ticks: each one is in the queue, in the hand of the
\* push thread, lost, or with one connection, and in one of these places only.
Holders(t) ==
    {g \in Guids : \E i \in DOMAIN received[g] : received[g][i] = t}
EachTickOnce ==
    \A t \in 1..ticks :
        Cardinality(Holders(t)) + Cardinality({t} \cap lost)
          + Cardinality({i \in DOMAIN deque : deque[i] = t})
          + Cardinality({t} \cap {tick}) = 1

\* The push thread may read the queue as soon as it runs. In a server built with
\* the queue it never finds it unset, and while that of the other constructor
\* has none, it reaches it only from a subscriber or from an empty session list.
UnsetQueueIsVoid ==
    /\ at = "crashed" => constructor = "void"
    /\ constructor = "void" /\ ~queueSet => \A g \in Guids : received[g] = <<>>

\* The session of a connection that is gone is erased, whatever subscribers the
\* push thread has to serve before it gets there (unless it read an unset queue).
GoneIsErased ==
    \A g \in Guids :
        context[g] = "deleted" ~> g \notin DOMAIN m_SessionList \/ at = "crashed"

\* While somebody stays subscribed no tick stays in the queue, even when others
\* come before it in the map.
Waiting(g) == context[g] = "open" /\ g \in DOMAIN m_SessionList
              /\ m_SessionList[g] = "SUBSCRIBE"
QueueDrains ==
    (\E g \in Guids : <>[]Waiting(g)) => <>[](deque = <<>> \/ at = "crashed")

\* BaseIOCPServer.h:64 on GetContext: the caller has to hold the lock, since no
\* reference is counted. The push thread holds none when it calls SendEx.
PushesToLiveContext == ~misused

\* The push thread among the workers: sessions and ticks.
PushIsSound ==
    /\ TypeOK /\ OpenHasSession /\ TicksInOrder /\ EachTickOnce
    /\ UnsetQueueIsVoid

=============================================================================
