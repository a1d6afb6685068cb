----------------------------- MODULE MarketServer -----------------------------
(***************************************************************************)
(* CMarketServer around on_http: the queue of connection actions and its   *)
(* thread (process_messages), the queue of quotes and its thread           *)
(* (process_realtimequote_messages), and the subscription to redis with    *)
(* its timer. The handlers and the redis client run in the thread of the   *)
(* io_service; redis and the browsers are external.                        *)
(*                                                                         *)
(* m_action_lock and m_action_quote_lock cover one step each. The quote    *)
(* thread holds m_connection_lock over a whole round of sends, with a      *)
(* sleep after each.                                                       *)
(***************************************************************************)
EXTENDS Naturals, Sequences

CONSTANTS
    Conns,      \* connections (connection_hdl)
    MaxQuotes,  \* bound: quotes published
    MaxLosses   \* bound: times the connection to redis is refused or lost

VARIABLES
    open,           \* what a connection is for websocketpp: new, open, closed
    m_actions,      \* the queue of <<SUBSCRIBE, UNSUBSCRIBE or MESSAGE, connection>>
    action,         \* the action process_messages has taken
    m_connections,
    quotes,         \* m_actions_realtimequote
    quote,          \* the quote that is being sent, 0 for none
    next,           \* connections the round has still to visit
    received,       \* the quote each connection got last, 0 for none
    redis,          \* state of the redis client
    subscriptions,  \* times the channel is subscribed on this connection
    timer,          \* m_connectSubscriberTimer is running
    published, losses

server == <<open, m_actions, action, m_connections>>
sending == <<quote, next, received>>
link == <<redis, subscriptions, timer, losses>>
vars == <<server, quotes, sending, link, published>>

Nothing == <<"none">>

Init ==
    /\ open = [c \in Conns |-> "new"]
    /\ m_actions = <<>> /\ action = Nothing /\ m_connections = {}
    /\ quotes = <<>> /\ quote = 0 /\ next = {}
    /\ received = [c \in Conns |-> 0]
    /\ redis = "unconnected" /\ subscriptions = 0 /\ timer = FALSE
    /\ published = 0 /\ losses = 0

-----------------------------------------------------------------------------
(* Connections. *)

Queue_AtFront(a) == m_actions' = <<a>> \o m_actions
Queue(a) == m_actions' = Append(m_actions, a)

on_open(c) ==
    /\ open[c] = "new"
    /\ open' = [open EXCEPT ![c] = "open"]
    /\ Queue(<<"SUBSCRIBE", c>>)
    /\ UNCHANGED <<action, m_connections, quotes, sending, link, published>>

on_close(c) ==
    /\ open[c] = "open"
    /\ open' = [open EXCEPT ![c] = "closed"]
    /\ Queue(<<"UNSUBSCRIBE", c>>)
    /\ UNCHANGED <<action, m_connections, quotes, sending, link, published>>

\* A text other than "hello" is queued. Bound: when no other action waits.
on_message(c) ==
    /\ open[c] = "open" /\ m_actions = <<>>
    /\ Queue(<<"MESSAGE", c>>)
    /\ UNCHANGED <<open, action, m_connections, quotes, sending, link, published>>

\* process_messages: takes an action under m_action_lock, then applies it under
\* m_connection_lock, which it gets between two rounds of quotes. A MESSAGE is
\* dropped without the lock: its handling is commented out.
TakeAction ==
    /\ action = Nothing /\ m_actions # <<>>
    /\ action' = Head(m_actions) /\ m_actions' = Tail(m_actions)
    /\ UNCHANGED <<open, m_connections, quotes, sending, link, published>>

ApplyAction ==
    /\ \/ /\ action # Nothing /\ action[1] = "MESSAGE"
          /\ UNCHANGED m_connections
       \/ /\ action # Nothing /\ action[1] = "SUBSCRIBE" /\ quote = 0
          /\ m_connections' = m_connections \cup {action[2]}
       \/ /\ action # Nothing /\ action[1] = "UNSUBSCRIBE" /\ quote = 0
          /\ m_connections' = m_connections \ {action[2]}
    /\ action' = Nothing
    /\ UNCHANGED <<open, m_actions, quotes, sending, link, published>>

-----------------------------------------------------------------------------
(* Quotes. *)

\* onSubScriberMessage: a message of the channel comes once per subscription
\* (one by subscribe, one by psubscribe), and goes to the front of the queue.
\* Without a subscription it is lost.
Message(q) ==
    quotes' = [i \in 1..subscriptions |-> q] \o quotes

Publish ==
    /\ published < MaxQuotes
    /\ published' = published + 1
    /\ Message(published + 1)
    /\ UNCHANGED <<server, sending, link>>

\* process_realtimequote_messages: the quote at the front, under m_connection_lock
\* from here to the end of the round.
TakeQuote ==
    /\ quote = 0 /\ quotes # <<>>
    /\ quote' = Head(quotes) /\ quotes' = Tail(quotes)
    /\ next' = m_connections
    /\ UNCHANGED <<server, received, link, published>>

\* send throws for a connection that is closed: it is erased at once. The changed
\* form leaves the loop there.
SendQuote_StopsAtFailure(c) ==
    /\ quote # 0 /\ c \in next
    /\ IF open[c] = "open"
       THEN /\ received' = [received EXCEPT ![c] = quote]
            /\ next' = next \ {c}
            /\ UNCHANGED m_connections
       ELSE /\ m_connections' = m_connections \ {c}
            /\ next' = {}
            /\ UNCHANGED received
    /\ UNCHANGED <<open, m_actions, action, quotes, quote, link, published>>
SendQuote(c) ==
    /\ quote # 0 /\ c \in next
    /\ next' = next \ {c}
    /\ IF open[c] = "open"
       THEN /\ received' = [received EXCEPT ![c] = quote]
            /\ UNCHANGED m_connections
       ELSE /\ m_connections' = m_connections \ {c}
            /\ UNCHANGED received
    /\ UNCHANGED <<open, m_actions, action, quotes, quote, link, published>>

EndRound ==
    /\ quote # 0 /\ next = {}
    /\ quote' = 0
    /\ UNCHANGED <<server, quotes, next, received, link, published>>

-----------------------------------------------------------------------------
(* The subscription to redis. *)

\* connectSubscriber, from start_accept, the timer and the error handler.
connectSubscriber ==
    /\ redis' = "connecting" /\ subscriptions' = 0

start_accept ==
    /\ redis = "unconnected"
    /\ connectSubscriber
    /\ UNCHANGED <<server, quotes, sending, timer, losses, published>>

\* onSubscriberConnected: without error the channel is subscribed twice.
Subscribed == subscriptions' = 2

onSubscriberConnected ==
    /\ redis = "connecting"
    /\ redis' = "subscribed" /\ Subscribed
    /\ UNCHANGED <<server, quotes, sending, timer, losses, published>>

\* onSubscriberConnected with an error, callLater.
ConnectFails ==
    /\ redis = "connecting" /\ losses < MaxLosses
    /\ redis' = "failed" /\ timer' = TRUE /\ losses' = losses + 1
    /\ UNCHANGED <<server, quotes, sending, subscriptions, published>>

Timer ==
    /\ timer /\ timer' = FALSE
    /\ connectSubscriber
    /\ UNCHANGED <<server, quotes, sending, losses, published>>

\* The error handler of the redis client is connectSubscriber itself.
ConnectionLost ==
    /\ redis = "subscribed" /\ losses < MaxLosses
    /\ losses' = losses + 1
    /\ connectSubscriber
    /\ UNCHANGED <<server, quotes, sending, timer, published>>

Next ==
    \/ \E c \in Conns : on_open(c) \/ on_close(c) \/ on_message(c) \/ SendQuote(c)
    \/ TakeAction \/ ApplyAction \/ Publish \/ TakeQuote \/ EndRound
    \/ start_accept \/ onSubscriberConnected \/ ConnectFails \/ Timer \/ ConnectionLost

\* The two threads run, a connection attempt ends, a timer fires; m_connection_lock
\* is fair enough for process_messages to get it between rounds.
Spec ==
    /\ Init /\ [][Next]_vars
    /\ WF_vars(TakeAction) /\ SF_vars(ApplyAction)
    /\ WF_vars(TakeQuote) /\ WF_vars(\E c \in Conns : SendQuote(c)) /\ WF_vars(EndRound)
    /\ WF_vars(start_accept) /\ WF_vars(Timer)
    /\ WF_vars(onSubscriberConnected \/ ConnectFails)

-----------------------------------------------------------------------------
(* Properties. *)

TypeOK ==
    /\ open \in [Conns -> {"new", "open", "closed"}]
    /\ m_connections \subseteq {c \in Conns : open[c] # "new"}
    /\ next \subseteq m_connections /\ (quote = 0 => next = {})
    /\ subscriptions \in {0, 2} /\ (subscriptions = 2 <=> redis = "subscribed")
    /\ timer => redis = "failed"
    /\ \A i \in DOMAIN quotes : quotes[i] \in 1..published

\* Queued actions of the same connection are applied in the order of its events:
\* when none is left, m_connections is exactly the open connections.
ConnectionsAreExact ==
    m_actions = <<>> /\ action = Nothing =>
        m_connections = {c \in Conns : open[c] = "open"}

\* A round visits every registered connection, whatever fails in it: at its end
\* each connection that is still served has got the quote last.
RoundReachesAll ==
    [][quote # 0 /\ quote' = 0 =>
         \A c \in m_connections : open[c] = "open" => received[c] = quote]_vars

\* push_front: among the quotes that wait, the newest is sent first; a
\* connection that gets an older one after it does so because the newer one
\* came while the older was waiting. What waits is ordered newest first.
NewestFirst ==
    \A i, j \in DOMAIN quotes : i < j => quotes[i] >= quotes[j]

\* The two threads: a connection that closes leaves m_connections in the end,
\* whether its send fails or its UNSUBSCRIBE is applied first.
ClosedAreForgotten ==
    \A c \in Conns : open[c] = "closed" ~> c \notin m_connections

\* callLater: when redis stops failing, the server is subscribed again.
Resubscribes == <>[](redis = "subscribed")

\* The queues between the three threads of the market server.
MarketIsSound == TypeOK /\ ConnectionsAreExact /\ NewestFirst

=============================================================================
