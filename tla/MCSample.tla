------------------------------- MODULE MCSample -------------------------------
(*****************************************************************************)
(* The modules of the sample server and of the helpers beside it for TLC:    *)
(* its program, sessions and push thread, the connections to the trading server, *)
(* the start of the market server and its HTTP service, and the headers for  *)
(* JSON, redis, event loops and handles. A behaviour takes the steps of one  *)
(* of them, chosen in the first state: they share no state.                  *)
(*****************************************************************************)
EXTENDS Integers, Sequences, TLC

CONSTANTS
    Subjects,    \* the modules whose steps are explored
    MaxRequests,
    MaxLosses,
    Guids, MaxTicks,
    MaxActions,
    Keys, MaxMembers,
    Callers, MaxRestarts,
    Objects, MaxHandles

\* Zones eight hours east of UTC, at UTC and five hours west of it, and the minutes
\* of three bars.
ZoneBiases == {-480, 0, 300}
BarTimes == <<5, 6, 7>>

\* Bounds are numbers; m_guid and the callers begin with 1, keys with 0.
ASSUME SampleAssumption ==
    /\ MaxRequests \in Nat /\ MaxActions \in Nat /\ MaxMembers \in Nat
    /\ Guids \subseteq Nat \ {0} /\ Callers \subseteq Nat \ {0} /\ Keys \subseteq Nat
    /\ MaxHandles \in Nat

VARIABLES
    subject,  \* the module whose steps this behaviour takes
    served, httpRequest, orders, answers, leaks, short, timedOut, httpStray,
    dead, sampleContext, m_SessionList, deque, ticks, sampleAt, it, tick,
    received, lost, sampleMisused, constructor, queueSet, tradingAt,
    tradingResult, stopped, m_apiFactory, m_adminApi, m_managerApi,
    tradingSubscribed, publisher, tradingThread, redis,
    connectPublisherTimer, publishTimer, fired, losses, tradingMisused,
    sessionAt, manager, user, sessionRequest, sessionResult, mail, sink,
    order, told, m_event, res, balances, sessionPrinted, sessionStray,
    program, startPc, outcome, ios, server, subscriber, startThread,
    m_actions, startContext, startStray, mainAt, queueOf, connection,
    mainSubscribed, bias, changes, mainRequest, bars, converted, leaked,
    iocp, pushing, unset, text, appended, body, origin, odata, parsed,
    selftest, redisAt, code, redisPrinted, key, restarts,
    adapter, functions, data, record, flags, watched, adapterContext, turn,
    handling, polled, crashed, adapterStray, kind, m_handle, open, failed,
    copied, guessed, written, wrong

Http == INSTANCE HttpService WITH
    request <- httpRequest, stray <- httpStray
Sample == INSTANCE SampleServer WITH
    context <- sampleContext, at <- sampleAt, misused <- sampleMisused
Trading == INSTANCE TradingConnection WITH
    at <- tradingAt, result <- tradingResult,
    subscribed <- tradingSubscribed, thread <- tradingThread,
    misused <- tradingMisused
Session == INSTANCE ManagerSession WITH
    at <- sessionAt, request <- sessionRequest, result <- sessionResult,
    printed <- sessionPrinted, stray <- sessionStray
Start == INSTANCE MarketStart WITH
    pc <- startPc, thread <- startThread, context <- startContext,
    stray <- startStray
Main == INSTANCE SampleMain WITH
    Biases <- ZoneBiases, Remote <- BarTimes, at <- mainAt,
    subscribed <- mainSubscribed, request <- mainRequest
Json == INSTANCE JsonText
Redis == INSTANCE RedisClients WITH
    at <- redisAt, printed <- redisPrinted
Adapter == INSTANCE EventAdapter WITH
    context <- adapterContext, stray <- adapterStray
Owner == INSTANCE HandleOwner

httpVars ==
    <<served, httpRequest, orders, answers, leaks, short, timedOut,
      httpStray, dead>>
sampleVars ==
    <<sampleContext, m_SessionList, deque, ticks, sampleAt, it, tick,
      received, lost, sampleMisused, constructor, queueSet>>
tradingVars ==
    <<tradingAt, tradingResult, stopped, m_apiFactory, m_adminApi,
      m_managerApi, tradingSubscribed, publisher, tradingThread, redis,
      connectPublisherTimer, publishTimer, fired, losses, tradingMisused>>
sessionVars ==
    <<sessionAt, manager, user, sessionRequest, sessionResult, mail, sink,
      order, told, m_event, res, balances, sessionPrinted, sessionStray>>
startVars ==
    <<program, startPc, outcome, ios, server, subscriber, startThread,
      m_actions, startContext, startStray>>
mainVars ==
    <<mainAt, queueOf, connection, mainSubscribed, bias, changes,
      mainRequest, bars, converted, leaked, iocp, pushing, unset>>
jsonVars ==
    <<text, appended, body, origin, odata, parsed, selftest>>
redisVars ==
    <<redisAt, code, redisPrinted, key, restarts>>
adapterVars ==
    <<adapter, functions, data, record, flags, watched, adapterContext, turn,
      handling, polled, crashed, adapterStray>>
ownerVars ==
    <<kind, m_handle, open, failed, copied, guessed, written, wrong>>

MCInit ==
    /\ subject \in Subjects
    /\ Http!Init /\ Sample!Init /\ Trading!Init /\ Session!Init /\ Start!Init
    /\ Main!Init /\ Json!Init /\ Redis!Init /\ Adapter!Init /\ Owner!Init
    /\ subject # "push" => constructor = "params"
    /\ subject # "start" => program = "original"
    /\ subject # "main" => bias = 0
    /\ subject # "adapter" => adapter = "ae"

MCNext ==
    /\ UNCHANGED subject
    /\ \/ /\ subject = "http" /\ Http!Next
          /\ UNCHANGED <<sampleVars, tradingVars, sessionVars, startVars,
                         mainVars, jsonVars, redisVars, adapterVars,
                         ownerVars>>
       \/ /\ subject = "push" /\ Sample!Next
          /\ UNCHANGED <<httpVars, tradingVars, sessionVars, startVars,
                         mainVars, jsonVars, redisVars, adapterVars,
                         ownerVars>>
       \/ /\ subject = "trading" /\ Trading!Next
          /\ UNCHANGED <<httpVars, sampleVars, sessionVars, startVars,
                         mainVars, jsonVars, redisVars, adapterVars,
                         ownerVars>>
       \/ /\ subject = "session" /\ Session!Next
          /\ UNCHANGED <<httpVars, sampleVars, tradingVars, startVars,
                         mainVars, jsonVars, redisVars, adapterVars,
                         ownerVars>>
       \/ /\ subject = "start" /\ Start!Next
          /\ UNCHANGED <<httpVars, sampleVars, tradingVars, sessionVars,
                         mainVars, jsonVars, redisVars, adapterVars,
                         ownerVars>>
       \/ /\ subject = "main" /\ Main!Next
          /\ UNCHANGED <<httpVars, sampleVars, tradingVars, sessionVars,
                         startVars, jsonVars, redisVars, adapterVars,
                         ownerVars>>
       \/ /\ subject = "json" /\ Json!Next
          /\ UNCHANGED <<httpVars, sampleVars, tradingVars, sessionVars,
                         startVars, mainVars, redisVars, adapterVars,
                         ownerVars>>
       \/ /\ subject = "redis" /\ Redis!Next
          /\ UNCHANGED <<httpVars, sampleVars, tradingVars, sessionVars,
                         startVars, mainVars, jsonVars, adapterVars,
                         ownerVars>>
       \/ /\ subject = "adapter" /\ Adapter!Next
          /\ UNCHANGED <<httpVars, sampleVars, tradingVars, sessionVars,
                         startVars, mainVars, jsonVars, redisVars, ownerVars>>
       \/ /\ subject = "handle" /\ Owner!Next
          /\ UNCHANGED <<httpVars, sampleVars, tradingVars, sessionVars,
                         startVars, mainVars, jsonVars, redisVars,
                         adapterVars>>

\* A step of one of those with fairness.
OfHttp(A) ==
    /\ subject = "http" /\ A
    /\ UNCHANGED <<subject, sampleVars, tradingVars, sessionVars, startVars,
                   mainVars, jsonVars, redisVars, adapterVars, ownerVars>>
OfSample(A) ==
    /\ subject = "push" /\ A
    /\ UNCHANGED <<subject, httpVars, tradingVars, sessionVars, startVars,
                   mainVars, jsonVars, redisVars, adapterVars, ownerVars>>
OfTrading(A) ==
    /\ subject = "trading" /\ A
    /\ UNCHANGED <<subject, httpVars, sampleVars, sessionVars, startVars,
                   mainVars, jsonVars, redisVars, adapterVars, ownerVars>>
OfSession(A) ==
    /\ subject = "session" /\ A
    /\ UNCHANGED <<subject, httpVars, sampleVars, tradingVars, startVars,
                   mainVars, jsonVars, redisVars, adapterVars, ownerVars>>

MCVars ==
    <<subject, httpVars, sampleVars, tradingVars, sessionVars, startVars,
      mainVars, jsonVars, redisVars, adapterVars, ownerVars>>

\* The fairness of each module, for the behaviours whose subject it is.
MCSpec ==
    /\ MCInit /\ [][MCNext]_MCVars
    /\ WF_MCVars(OfHttp(Http!WaitAnswered \/ Http!WaitTimesOut))
    /\ WF_MCVars(OfSample(Sample!Push))
    /\ WF_MCVars(OfTrading(Trading!StartStep \/ Trading!StopStep))
    /\ WF_MCVars(OfTrading(Trading!ThreadStep))
    /\ WF_MCVars(OfSession(Session!MainStep))

-----------------------------------------------------------------------------

\* HttpService: what clients are told, what stays behind, who uses the sink.
HttpIsSound == Http!HttpIsSound

\* SampleServer: sessions and ticks.
PushIsSound == Sample!PushIsSound

\* SampleServer: sessions that are gone are erased, and the queue empties while
\* somebody is subscribed.
PushMovesOn == Sample!GoneIsErased /\ Sample!QueueDrains

\* SampleServer: "this function requires locking manually" (BaseIOCPServer.h:64).
PushesToLiveContext == Sample!PushesToLiveContext

\* TradingConnection: Start and Stop with every failure.
TradingIsSound == Trading!TradingIsSound

\* TradingConnection: a failed Start is final, and the publisher connects whenever
\* redis lets it. ManagerSession: the program ends, whatever the trading server does.
TradingPromises ==
    /\ Trading!FailureIsFinal /\ Trading!PublisherConnects
    /\ subject = "session" => Session!SessionEnds

\* ManagerSession: the order of the program and what is printed of its answer.
SessionIsSound == Session!SessionIsSound

\* MarketStart and SampleMain: what runs when a program has begun, or failed to.
StartIsSound == Start!StartIsSound /\ Main!MainIsSound

\* JsonText, RedisClients, EventAdapter, HandleOwner: the texts of the answers, the
\* clients of sync_test, the event loops of hiredis, and the owners of handles.
HelpersAreSound ==
    /\ Json!JsonIsSound /\ Redis!ClientsAreSound
    /\ Adapter!AdaptersAreSound /\ Owner!HandlesAreOwned

===============================================================================
