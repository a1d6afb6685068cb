-------------------------- MODULE TradingConnection --------------------------
(***************************************************************************)
(* CMTTickInstance: Start and Stop of the connection to the trading        *)
(* server, one step per call of its interface, and the thread that keeps   *)
(* the CRedisPublisher connected. The interface and redis are external:    *)
(* each of their calls may fail. Start is called once and may be tried     *)
(* again when it failed; Stop is called by the owner and the destructor.   *)
(***************************************************************************)
EXTENDS Naturals

CONSTANT MaxLosses  \* bound: times the connection to redis is refused or lost

VARIABLES
    at,           \* the call Start or Stop does next; idle, or crashed
    result,       \* what the last Start returned: none, failed, ok
    stopped,      \* Stop has returned
    m_apiFactory, \* the factory exists
    m_adminApi,   \* none, created, connected
    m_managerApi,
    subscribed,   \* TickSubscribe succeeded and is not undone
    publisher,    \* m_redis_publisher is not NULL
    thread,       \* real_tick_recv: none, spawned, running, ended
    redis,        \* the redis client: idle, connecting, connected, failed
    connectPublisherTimer, publishTimer,  \* the timers are pending
    fired,        \* publishTimer expired and its handler has not run
    losses,
    misused       \* OnTick used the publisher after its deletion

api == <<m_apiFactory, m_adminApi, m_managerApi, subscribed>>
link == <<redis, connectPublisherTimer, publishTimer, fired, losses>>
vars == <<at, result, stopped, api, publisher, thread, link, misused>>

\* What the calls of Start and Stop on the interface leave alone.
Rest == <<publisher, thread, link, misused>>

Init ==
    /\ at = "idle" /\ result = "none" /\ stopped = FALSE
    /\ m_apiFactory = TRUE /\ m_adminApi = "none" /\ m_managerApi = "none"
    /\ subscribed = FALSE /\ publisher = TRUE /\ thread = "none"
    /\ redis = "idle" /\ connectPublisherTimer = FALSE /\ publishTimer = FALSE
    /\ fired = FALSE /\ losses = 0 /\ misused = FALSE

-----------------------------------------------------------------------------
(* Start. *)

\* A failure that Start handles: it releases what it has and deletes the
\* factory.
Fails ==
    /\ m_apiFactory' = FALSE /\ m_adminApi' = "none" /\ m_managerApi' = "none"
    /\ at' = "idle" /\ result' = "failed"
    /\ UNCHANGED <<stopped, subscribed, Rest>>

\* A failure before m_managerApi exists, whose handler calls m_managerApi->Release.
CallsNull ==
    /\ at' = "crashed"
    /\ UNCHANGED <<result, stopped, api, Rest>>

Goes(next) == at' = next /\ UNCHANGED <<result, stopped, Rest>>

Start ==
    /\ at = "idle" /\ result # "ok"
    /\ IF m_apiFactory THEN at' = "initialize" /\ UNCHANGED result
       ELSE at' = at /\ result' = "failed"
    /\ UNCHANGED <<stopped, api, Rest>>

Initialize ==
    /\ at = "initialize"
    /\ Fails \/ (Goes("version") /\ UNCHANGED api)

\* Version fails, or the version is too old.
Version ==
    /\ at = "version"
    /\ Fails \/ (Goes("create admin") /\ UNCHANGED api)

CreateAdmin ==
    /\ at = "create admin"
    /\ \/ CallsNull
       \/ /\ Goes("connect admin") /\ m_adminApi' = "created"
          /\ UNCHANGED <<m_apiFactory, m_managerApi, subscribed>>

ConnectAdmin ==
    /\ at = "connect admin"
    /\ \/ CallsNull
       \/ /\ Goes("rescan admin") /\ m_adminApi' = "connected"
          /\ UNCHANGED <<m_apiFactory, m_managerApi, subscribed>>

\* When there is a better access point Disconnect, and Connect to it.
RescanAdmin ==
    /\ at = "rescan admin"
    /\ \/ Goes("create manager") /\ UNCHANGED api
       \/ /\ Goes("reconnect admin") /\ m_adminApi' = "created"
          /\ UNCHANGED <<m_apiFactory, m_managerApi, subscribed>>

ReconnectAdmin ==
    /\ at = "reconnect admin"
    /\ \/ Fails
       \/ /\ Goes("create manager") /\ m_adminApi' = "connected"
          /\ UNCHANGED <<m_apiFactory, m_managerApi, subscribed>>

CreateManager ==
    /\ at = "create manager"
    /\ \/ Fails
       \/ /\ Goes("connect manager") /\ m_managerApi' = "created"
          /\ UNCHANGED <<m_apiFactory, m_adminApi, subscribed>>

ConnectManager ==
    /\ at = "connect manager"
    /\ \/ Fails
       \/ /\ Goes("rescan manager") /\ m_managerApi' = "connected"
          /\ UNCHANGED <<m_apiFactory, m_adminApi, subscribed>>

RescanManager ==
    /\ at = "rescan manager"
    /\ \/ Goes("publish") /\ UNCHANGED api
       \/ /\ Goes("reconnect manager") /\ m_managerApi' = "created"
          /\ UNCHANGED <<m_apiFactory, m_adminApi, subscribed>>

ReconnectManager ==
    /\ at = "reconnect manager"
    /\ \/ Fails
       \/ /\ Goes("publish") /\ m_managerApi' = "connected"
          /\ UNCHANGED <<m_apiFactory, m_adminApi, subscribed>>

\* The thread is started; the subscriptions follow, a failure is only logged.
StartThread ==
    /\ at = "publish" /\ at' = "subscribe"
    /\ thread' = IF publisher THEN "spawned" ELSE thread
    /\ UNCHANGED <<result, stopped, api, publisher, link, misused>>

TickSubscribe ==
    /\ at = "subscribe"
    /\ subscribed' \in BOOLEAN
    /\ at' = "idle" /\ result' = "ok"
    /\ UNCHANGED <<stopped, m_apiFactory, m_adminApi, m_managerApi, Rest>>

-----------------------------------------------------------------------------
(* Stop. *)

\* The first part of Stop: the administrator interface, if there is one. The
\* changed form starts with the publisher.
Stop_PublisherFirst ==
    /\ at = "idle"
    /\ at' = "stop manager" /\ m_adminApi' = "none"
    /\ publisher' = FALSE /\ thread' = "ended"
    /\ UNCHANGED <<result, stopped, m_apiFactory, m_managerApi, subscribed, link, misused>>
Stop ==
    /\ at = "idle"
    /\ at' = "stop manager" /\ m_adminApi' = "none"
    /\ UNCHANGED <<result, stopped, m_apiFactory, m_managerApi, subscribed, Rest>>

\* SymbolUnsubscribe, TickUnsubscribe, OrderUnsubscribe, Disconnect, Release.
StopManager ==
    /\ at = "stop manager"
    /\ at' = "stop factory" /\ m_managerApi' = "none" /\ subscribed' = FALSE
    /\ UNCHANGED <<result, stopped, m_apiFactory, m_adminApi, Rest>>

StopFactory ==
    /\ at = "stop factory"
    /\ at' = "stop publisher" /\ m_apiFactory' = FALSE
    /\ UNCHANGED <<result, stopped, m_adminApi, m_managerApi, subscribed, Rest>>

\* CRedisPublisher::stop, in the thread of Stop: a handler that has fired and
\* the other timer are not cancelled.
stop ==
    /\ redis' = "idle" /\ publishTimer' = FALSE
    /\ UNCHANGED <<connectPublisherTimer, fired, losses>>
StopPublisher ==
    /\ at = "stop publisher"
    /\ IF publisher
       THEN at' = "shutdown thread" /\ stop /\ UNCHANGED stopped
       ELSE at' = "idle" /\ stopped' = TRUE /\ UNCHANGED link
    /\ UNCHANGED <<result, api, publisher, thread, misused>>

\* Shutdown waits for the thread a moment and Terminate ends it, whatever it is
\* doing; then the publisher is deleted with its client and its timers.
ShutdownThread ==
    /\ at = "shutdown thread"
    /\ at' = "idle" /\ stopped' = TRUE
    /\ publisher' = FALSE /\ thread' = "ended"
    /\ redis' = "idle" /\ connectPublisherTimer' = FALSE
    /\ publishTimer' = FALSE /\ fired' = FALSE
    /\ UNCHANGED <<result, api, losses, misused>>

-----------------------------------------------------------------------------
(* The publisher and its thread. *)

\* publish on m_redis_publisher, in a thread of the interface.
publish == misused' = (misused \/ ~publisher)
OnTick ==
    /\ subscribed /\ m_managerApi = "connected"
    /\ publish
    /\ UNCHANGED <<at, result, stopped, api, publisher, thread, link>>

connectPublisher == redis' = "connecting"

\* real_tick_recv: start, then run.
start == connectPublisher
RunThread ==
    /\ thread = "spawned" /\ thread' = "running"
    /\ start
    /\ UNCHANGED <<at, result, stopped, api, publisher, connectPublisherTimer,
                   publishTimer, fired, losses, misused>>

onPublisherConnected ==
    /\ thread = "running" /\ redis = "connecting"
    /\ redis' = "connected" /\ publishTimer' = TRUE
    /\ UNCHANGED <<at, result, stopped, api, publisher, thread, connectPublisherTimer,
                   fired, losses, misused>>

\* publishTimer expires; its handler does nothing but start it again, connected
\* or not.
FirePublishTimer ==
    /\ thread = "running" /\ publishTimer
    /\ publishTimer' = FALSE /\ fired' = TRUE
    /\ UNCHANGED <<at, result, stopped, api, publisher, thread, redis,
                   connectPublisherTimer, losses, misused>>
onPublishTimeout ==
    /\ thread = "running" /\ fired
    /\ publishTimer' = TRUE /\ fired' = FALSE
    /\ UNCHANGED <<at, result, stopped, api, publisher, thread, redis,
                   connectPublisherTimer, losses, misused>>

\* onPublisherConnected with an error. The changed form starts no timer.
ConnectFails_GivesUp ==
    /\ thread = "running" /\ redis = "connecting" /\ losses < MaxLosses
    /\ redis' = "failed" /\ losses' = losses + 1
    /\ UNCHANGED <<at, result, stopped, api, publisher, thread, connectPublisherTimer,
                   publishTimer, fired, misused>>
ConnectFails ==
    /\ thread = "running" /\ redis = "connecting" /\ losses < MaxLosses
    /\ redis' = "failed" /\ losses' = losses + 1 /\ connectPublisherTimer' = TRUE
    /\ UNCHANGED <<at, result, stopped, api, publisher, thread, publishTimer, fired,
                   misused>>

ConnectTimer ==
    /\ thread = "running" /\ connectPublisherTimer
    /\ connectPublisherTimer' = FALSE
    /\ connectPublisher
    /\ UNCHANGED <<at, result, stopped, api, publisher, thread, publishTimer, fired, losses, misused>>

\* The error handler is connectPublisher; when the client still says Connected it
\* disconnects and cancels publishTimer first.
ConnectionLost ==
    /\ thread = "running" /\ redis = "connected" /\ losses < MaxLosses
    /\ losses' = losses + 1
    /\ connectPublisher /\ publishTimer' \in {publishTimer, FALSE}
    /\ UNCHANGED <<at, result, stopped, api, publisher, thread, connectPublisherTimer,
                   fired, misused>>

\* io_service::run returns when no operation and no timer is left.
RunReturns ==
    /\ thread = "running" /\ redis \in {"idle", "failed"}
    /\ ~connectPublisherTimer /\ ~publishTimer /\ ~fired
    /\ thread' = "ended"
    /\ UNCHANGED <<at, result, stopped, api, publisher, link, misused>>

StartStep ==
    \/ Initialize \/ Version \/ CreateAdmin \/ ConnectAdmin \/ RescanAdmin
    \/ ReconnectAdmin \/ CreateManager \/ ConnectManager \/ RescanManager
    \/ ReconnectManager \/ StartThread \/ TickSubscribe
StopStep == StopManager \/ StopFactory \/ StopPublisher \/ ShutdownThread
ThreadStep == RunThread \/ onPublisherConnected \/ ConnectFails \/ ConnectTimer

TimerStep == FirePublishTimer \/ onPublishTimeout

Next ==
    \/ Start \/ StartStep \/ Stop \/ StopStep \/ OnTick
    \/ ThreadStep \/ TimerStep \/ ConnectionLost \/ RunReturns

\* The calls of the interface return, the thread runs, timers fire, and an attempt
\* to connect ends.
Spec ==
    /\ Init /\ [][Next]_vars
    /\ WF_vars(StartStep \/ StopStep) /\ WF_vars(ThreadStep)

-----------------------------------------------------------------------------
(* Properties. *)

Connection == {"none", "created", "connected"}
TypeOK ==
    /\ result \in {"none", "failed", "ok"}
    /\ m_adminApi \in Connection /\ m_managerApi \in Connection
    /\ m_managerApi # "none" => m_apiFactory
    /\ thread \in {"spawned", "running"} => publisher

\* The failure branches of Start: one that returns leaves no interface behind,
\* however far it had got.
FailedLeavesNothing ==
    at = "idle" /\ result = "failed" =>
        m_adminApi = "none" /\ m_managerApi = "none" /\ ~m_apiFactory

\* Start returns MT_RET_OK with both interfaces connected, to the first or to the
\* better access point. The owner uses them without asking (MyIOCP, _tmain).
StartedIsConnected ==
    at = "idle" /\ result = "ok" /\ ~stopped =>
        m_adminApi = "connected" /\ m_managerApi = "connected"

\* Every failure deletes the factory, which only the constructor creates: a Start
\* that failed can never succeed on the same object.
FailureIsFinal == [][result = "failed" => result' = "failed"]_vars

\* Stop unsubscribes before it deletes the publisher that OnTick uses.
TicksHavePublisher == ~misused

\* After Stop, also the second one by the destructor, and after a Start that
\* failed, no interface, publisher or thread is left.
StoppedIsEmpty ==
    at = "idle" /\ stopped =>
        /\ m_adminApi = "none" /\ m_managerApi = "none" /\ ~m_apiFactory
        /\ ~publisher /\ thread \in {"none", "ended"}

\* Nobody calls run again when it returned: until Stop has stopped the publisher
\* the thread always has a connection, an attempt or a timer left, through every
\* refusal and loss.
RunsUntilStopped == thread = "ended" => stopped \/ at = "shutdown thread"

\* The running thread connects whenever redis lets it.
PublisherConnects ==
    thread = "running" ~> redis = "connected" \/ thread = "ended"

\* Start and Stop with every failure on the way.
TradingIsSound ==
    /\ TypeOK
    /\ FailedLeavesNothing /\ StartedIsConnected
    /\ TicksHavePublisher /\ StoppedIsEmpty /\ RunsUntilStopped

=============================================================================
