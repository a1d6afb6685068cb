---------------------------- MODULE MCSample_proofs ----------------------------
(***************************************************************************)
(* Proofs about the modules of MCSample, for every value of the constants. *)
(***************************************************************************)
EXTENDS MCSample, SequenceLemmas

-----------------------------------------------------------------------------
(* ManagerSession.                                                         *)

Early == {"parameters", "factory", "create", "connect", "rescan", "reconnect", "user", "requests"}
Ordering == {"initialize sink", "send", "wait", "print", "withdraw"}
Leaving == {"release", "end of scope"}
Over == {"command", "exited"}
Places == Early \cup Ordering \cup Leaving \cup Over

Types == Session!TypeOK /\ sessionAt \in Places

\* What the session holds at each place.
Held ==
    /\ sessionAt \in {"parameters", "factory", "create"} => manager = "none"
    /\ sessionAt \in {"connect", "reconnect"} => manager = "created"
    /\ sessionAt \in {"rescan", "user", "requests", "command"} \cup Ordering \cup Leaving
           => manager = "connected"
    /\ sessionAt = "exited" => manager # "connected"
    /\ sessionAt \in Early => sink = "none" /\ balances = 0 /\ order = "none" /\ (user => sessionAt = "requests")
    /\ sessionAt \in Early => ~sessionRequest /\ ~sessionResult /\ ~mail
    /\ sessionAt = "initialize sink" => sink = "made"
    /\ sessionAt \in {"send", "wait", "print"} => sink = "initialized" /\ sessionRequest /\ sessionResult
    /\ sessionAt \in {"withdraw"} \cup Leaving => sink \in {"made", "initialized"}
    /\ sessionAt \in Ordering => balances = 1 /\ ~mail
    /\ sessionAt \in Leaving => balances = 2
    /\ sessionAt \in Over => /\ ~user /\ sink \in {"none", "destroyed"}
                      /\ balances = (IF sink = "none" THEN 0 ELSE 2)
    /\ sessionAt \in Over \cup {"end of scope"} => ~sessionRequest /\ ~sessionResult /\ ~mail
    /\ sessionAt = "exited" /\ manager = "created" => sink = "none"

\* The order, from DealerSend to the answer: while the handler waits, what the
\* answer is written to exists, and it is signalled when it is whole.
Answering ==
    /\ order # "none" =>
           /\ sessionAt \in {"wait", "print", "withdraw"} \cup Leaving \cup Over
           /\ sessionAt \in {"wait", "print", "withdraw", "release"} => sessionResult
           /\ sessionAt \notin Over => sink = "initialized"
           /\ res = "none" => sessionAt = "wait"
    /\ sessionAt = "wait" => order # "none" /\ res = "none"
    /\ order = "none" => res = "none" /\ sessionAt # "print"
    /\ told # "none" => order \in {"executed", "rejected"}
    /\ m_event => told = "signalled"
    /\ sessionAt = "print" => res = "done"
    /\ res = "done" => sessionPrinted \/ sessionAt = "print"

SessionInv == Types /\ Held /\ Answering /\ Session!AnswerIsWhole /\ Session!StrayOnlyAfterTimeout

\* Inv holds at the start.
LEMMA SessionInit == Session!Init => SessionInv
BY DEF Session!Init, SessionInv, Types, Session!TypeOK, Places, Early, Ordering, Leaving, Over, Held, Answering,
       Session!AnswerIsWhole, Session!StrayOnlyAfterTimeout

\* The arithmetic of the deposit.
LEMMA FirstBalance == \A b : b = 0 => b + 1 = 1
OBVIOUS

\* Wait takes the event and leaves the session as it is.
LEMMA WaitKeeps ==
    Session!Wait => /\ ~m_event' /\ (sessionResult' <=> sessionResult) /\ (sessionRequest' <=> sessionRequest)
            /\ (mail' <=> mail) /\ (sessionStray' <=> sessionStray) /\ (sessionPrinted' <=> sessionPrinted)
BY DEF Session!Wait, Session!Returned, Session!objects

\* Every step of simple_wmain and of the interface's thread keeps Inv.
LEMMA SessionStep == SessionInv /\ [Session!Next]_Session!vars => SessionInv'
<1> SUFFICES ASSUME SessionInv, [Session!Next]_Session!vars PROVE SessionInv'
  OBVIOUS
<1> USE DEF SessionInv, Types, Session!TypeOK, Places, Early, Ordering, Leaving, Over, Held, Answering,
            Session!AnswerIsWhole, Session!StrayOnlyAfterTimeout, Session!objects, Session!answer, Session!Goto, Session!Session, Session!Exit
<1>1. CASE Session!Parameters  BY <1>1 DEF Session!Parameters
<1>2. CASE Session!LoadFactory  BY <1>2 DEF Session!LoadFactory
<1>3. CASE Session!CreateManager  BY <1>3 DEF Session!CreateManager
<1>4. CASE Session!Connect  BY <1>4 DEF Session!Connect
<1>5. CASE Session!Rescan  BY <1>5 DEF Session!Rescan
<1>6. CASE Session!Reconnect  BY <1>6 DEF Session!Reconnect
<1>7. CASE Session!UserCreate  BY <1>7 DEF Session!UserCreate
<1>8. CASE Session!CreateRequests
  <2>1. /\ sessionAt = "requests" /\ sessionAt' = "initialize sink" /\ sink' = "made"
        /\ UNCHANGED <<manager, order, told, res>>
    BY <1>8 DEF Session!CreateRequests
  <2>2. ~mail' /\ ~m_event' /\ (sessionStray' <=> sessionStray) /\ (sessionPrinted' <=> sessionPrinted)
    BY <1>8 DEF Session!CreateRequests
  <2>3. balances = 0 /\ balances' = balances + 1
    BY <1>8 DEF Session!CreateRequests
  <2>4. balances' = 1
    BY <2>3, FirstBalance
  <2> QED  BY <2>1, <2>2, <2>4
<1>9. CASE Session!InitializeSink
  <2>1. /\ sessionAt = "initialize sink"
        /\ UNCHANGED <<manager, mail, order, told, sessionStray, res, balances, sessionPrinted>>
    BY <1>9 DEF Session!InitializeSink
  <2>2. \/ sessionAt' = "send" /\ sink' = "initialized" /\ ~m_event' /\ sessionRequest' /\ sessionResult'
        \/ sessionAt' = "withdraw" /\ sink' = "made" /\ ~m_event'
    BY <1>9 DEF Session!InitializeSink
  <2> QED  BY <2>1, <2>2
<1>10. CASE Session!DealerSend  BY <1>10 DEF Session!DealerSend
<1>11. CASE Session!Wait
  <2>1. sessionAt = "wait" /\ UNCHANGED <<manager, sink, order, told, balances>>
    BY <1>11 DEF Session!Wait, Session!Returned
  <2>2. /\ ~m_event' /\ (sessionResult' <=> sessionResult) /\ (sessionRequest' <=> sessionRequest)
        /\ (mail' <=> mail) /\ (sessionStray' <=> sessionStray) /\ (sessionPrinted' <=> sessionPrinted)
    BY <1>11, WaitKeeps
  <2>3. CASE ~m_event
    <3>1. res' = "timeout" /\ sessionAt' = "withdraw"  BY <1>11, <2>3 DEF Session!Wait, Session!Returned
    <3> QED  BY <2>1, <2>2, <3>1
  <2>4. CASE m_event /\ order = "executed"
    <3>1. told = "signalled" /\ Session!ResultRetcode = "done"  BY <2>4 DEF Session!ResultRetcode
    <3>2. res' = "done" /\ sessionAt' = "print"  BY <1>11, <2>4, <3>1 DEF Session!Wait, Session!Returned
    <3> QED  BY <2>1, <2>2, <2>4, <3>1, <3>2
  <2>5. CASE m_event /\ order = "rejected"
    <3>1. told = "signalled" /\ Session!ResultRetcode = "rejected"  BY <2>5 DEF Session!ResultRetcode
    <3>2. res' = "rejected" /\ sessionAt' = "withdraw"  BY <1>11, <2>5, <3>1 DEF Session!Wait, Session!Returned
    <3> QED  BY <2>1, <2>2, <2>5, <3>1, <3>2
  <2> QED  BY <2>3, <2>4, <2>5
<1>12. CASE Session!PrintDeal  BY <1>12 DEF Session!PrintDeal
<1>13. CASE Session!Withdraw  BY <1>13 DEF Session!Withdraw
<1>14. CASE Session!ReleaseObjects  BY <1>14 DEF Session!ReleaseObjects
<1>15. CASE Session!EndOfScope  BY <1>15 DEF Session!EndOfScope, Session!DestroySink
<1>16. CASE Session!Finish  BY <1>16 DEF Session!Finish
<1>17. ASSUME NEW how \in {"executed", "rejected"}, Session!Decide(how) PROVE SessionInv'
  BY <1>17 DEF Session!Decide
<1>18. CASE Session!AssignResult  BY <1>18 DEF Session!AssignResult, Session!Answers, Session!Decided
<1>19. CASE Session!SignalEvent  BY <1>19 DEF Session!SignalEvent, Session!Answers, Session!Decided
<1>20. CASE UNCHANGED Session!vars
  <2>1. Types' /\ Held'  BY <1>20 DEF Session!vars
  <2>2. Answering' /\ Session!AnswerIsWhole' /\ Session!StrayOnlyAfterTimeout'  BY <1>20 DEF Session!vars
  <2> QED  BY <2>1, <2>2
<1> QED
  BY <1>1, <1>2, <1>3, <1>4, <1>5, <1>6, <1>7, <1>8, <1>9, <1>10, <1>11, <1>12, <1>13,
     <1>14, <1>15, <1>16, <1>17, <1>18, <1>19, <1>20 DEF Session!Next, Session!MainStep

\* The properties follow from Inv.
LEMMA SessionSound == SessionInv => Session!SessionIsSound
BY DEF SessionInv, Types, Session!TypeOK, Places, Early, Ordering, Leaving, Over, Held, Answering,
       Session!AnswerIsWhole, Session!StrayOnlyAfterTimeout, Session!SessionIsSound, Session!ExecutedIsPrinted, Session!ExitIsClean

\* simple_wmain reads a whole answer, prints an executed deal, leaves nothing behind,
\* and is answered into released objects only after a timeout.
THEOREM SessionHolds == Session!Spec => []SessionIsSound
<1>1. Session!Spec => []SessionInv
  BY SessionInit, SessionStep, PTL DEF Session!Spec
<1>2. SessionInv => SessionIsSound
  BY SessionSound DEF SessionIsSound
<1> QED  BY <1>1, <1>2, PTL

-----------------------------------------------------------------------------
(* TradingConnection.                                                      *)

-----------------------------------------------------------------------------
(* The inductive invariant.                                                *)

BeforeAdmin == {"initialize", "version", "create admin"}
WithAdmin == {"rescan admin", "create manager"}
Starting == BeforeAdmin \cup WithAdmin \cup
            {"connect admin", "reconnect admin", "connect manager", "rescan manager",
             "reconnect manager", "publish", "subscribe"}
Ending == {"stop factory", "stop publisher", "shutdown thread"}

\* What exists at each call of Start and of Stop.
Stages ==
    /\ tradingAt \in Starting \cup Ending \cup {"idle", "stop manager", "crashed"}
    /\ tradingResult \in {"none", "failed", "ok"}
    /\ m_adminApi \in Trading!Connection /\ m_managerApi \in Trading!Connection
    /\ publisher <=> ~stopped
    /\ stopped => /\ ~m_apiFactory /\ m_adminApi = "none" /\ m_managerApi = "none"
                  /\ tradingThread \in {"none", "ended"}
    /\ tradingResult = "failed" => /\ ~m_apiFactory /\ m_adminApi = "none"
                            /\ m_managerApi = "none"
    /\ m_managerApi # "none" => m_apiFactory
    /\ tradingAt \in Starting => m_apiFactory /\ tradingResult = "none"
    /\ tradingAt \in WithAdmin \cup {"connect manager", "rescan manager", "reconnect manager",
                              "publish", "subscribe"} => m_adminApi = "connected"
    /\ tradingAt \in {"rescan manager", "publish", "subscribe"} => m_managerApi = "connected"
    /\ tradingAt = "idle" /\ tradingResult = "none" => m_adminApi = "none" /\ m_managerApi = "none"
    /\ tradingAt \in BeforeAdmin \cup WithAdmin \cup {"connect admin", "reconnect admin"}
           => m_managerApi = "none"
    /\ tradingAt = "idle" /\ tradingResult = "ok" /\ ~stopped =>
           m_adminApi = "connected" /\ m_managerApi = "connected"
    /\ tradingAt \in Ending => m_adminApi = "none" /\ m_managerApi = "none"
    /\ tradingAt \in {"stop publisher", "shutdown thread"} => ~m_apiFactory
    /\ tradingAt = "stop manager" => m_adminApi = "none"
    /\ tradingAt = "crashed" => m_managerApi = "none"

\* What keeps io_service::run from returning.
Linked ==
    /\ redis \in {"idle", "connecting", "connected", "failed"}
    /\ tradingThread = "running" /\ tradingAt # "shutdown thread" =>
           redis \in {"connecting", "connected"} \/ connectPublisherTimer
    /\ tradingThread = "ended" => stopped \/ tradingAt = "shutdown thread"
    /\ tradingThread \in {"spawned", "running"} => publisher

-----------------------------------------------------------------------------
(* The steps keep it.                                                      *)

\* The steps of the connection.
LEMMA NextCases ==
    [Trading!Next]_Trading!vars =>
        \/ Trading!Start
        \/ Trading!Initialize
        \/ Trading!Version
        \/ Trading!CreateAdmin
        \/ Trading!ConnectAdmin
        \/ Trading!RescanAdmin
        \/ Trading!ReconnectAdmin
        \/ Trading!CreateManager
        \/ Trading!ConnectManager
        \/ Trading!RescanManager
        \/ Trading!ReconnectManager
        \/ Trading!StartThread
        \/ Trading!TickSubscribe
        \/ Trading!Stop
        \/ Trading!StopManager
        \/ Trading!StopFactory
        \/ Trading!StopPublisher
        \/ Trading!ShutdownThread
        \/ Trading!OnTick
        \/ Trading!RunThread
        \/ Trading!onPublisherConnected
        \/ Trading!ConnectFails
        \/ Trading!ConnectTimer
        \/ Trading!FirePublishTimer
        \/ Trading!onPublishTimeout
        \/ Trading!ConnectionLost
        \/ Trading!RunReturns
        \/ UNCHANGED Trading!vars
BY DEF Trading!Next, Trading!StartStep, Trading!StopStep, Trading!ThreadStep, Trading!TimerStep

\* A failure that Start handles.
LEMMA FailsFacts ==
    Trading!Fails => /\ tradingAt' = "idle" /\ tradingResult' = "failed" /\ ~m_apiFactory'
             /\ m_adminApi' = "none" /\ m_managerApi' = "none"
             /\ (stopped' <=> stopped) /\ (publisher' <=> publisher) /\ tradingThread' = tradingThread
BY DEF Trading!Fails, Trading!Rest

\* A failure that Start does not survive.
LEMMA CallsNullFacts ==
    Trading!CallsNull => /\ tradingAt' = "crashed" /\ tradingResult' = tradingResult /\ (m_apiFactory' <=> m_apiFactory)
                 /\ m_adminApi' = m_adminApi /\ m_managerApi' = m_managerApi
                 /\ (stopped' <=> stopped) /\ (publisher' <=> publisher)
                 /\ tradingThread' = tradingThread
BY DEF Trading!CallsNull, Trading!Rest, Trading!api

\* A call that succeeds.
LEMMA GoesFacts ==
    ASSUME NEW n, Trading!Goes(n)
    PROVE  /\ tradingResult' = tradingResult /\ (stopped' <=> stopped) /\ (publisher' <=> publisher)
           /\ tradingThread' = tradingThread
BY DEF Trading!Goes, Trading!Rest

\* Start and Stop go on, fail or are called again.
LEMMA StagesStep == Stages /\ [Trading!Next]_Trading!vars => Stages'
<1> SUFFICES ASSUME Stages, [Trading!Next]_Trading!vars PROVE Stages'
  OBVIOUS
<1> USE DEF Stages, Trading!api, Trading!link, Trading!Connection, Starting, BeforeAdmin, WithAdmin, Ending
<1>1. CASE Trading!Start
  BY <1>1 DEF Trading!Start, Trading!Rest
<1>2. CASE Trading!Initialize
  <2>1. CASE Trading!Goes("version") /\ tradingAt' = "version"
    <3>1. /\ tradingAt = "initialize" /\ (m_apiFactory' <=> m_apiFactory)
          /\ m_adminApi' = m_adminApi /\ m_managerApi' = m_managerApi
      BY <1>2, <2>1 DEF Trading!Initialize, Trading!Fails, Trading!CallsNull, Trading!Goes
    <3> QED  BY <3>1, <2>1, GoesFacts
  <2>2. CASE Trading!Fails
    BY <1>2, <2>2, FailsFacts DEF Trading!Initialize
  <2> QED  BY <1>2, <2>1, <2>2 DEF Trading!Initialize, Trading!Goes
<1>3. CASE Trading!Version
  <2>1. CASE Trading!Goes("create admin") /\ tradingAt' = "create admin"
    <3>1. /\ tradingAt = "version" /\ (m_apiFactory' <=> m_apiFactory)
          /\ m_adminApi' = m_adminApi /\ m_managerApi' = m_managerApi
      BY <1>3, <2>1 DEF Trading!Version, Trading!Fails, Trading!CallsNull, Trading!Goes
    <3> QED  BY <3>1, <2>1, GoesFacts
  <2>2. CASE Trading!Fails
    BY <1>3, <2>2, FailsFacts DEF Trading!Version
  <2> QED  BY <1>3, <2>1, <2>2 DEF Trading!Version, Trading!Goes
<1>4. CASE Trading!CreateAdmin
  <2>1. CASE Trading!Goes("connect admin") /\ tradingAt' = "connect admin"
    <3>1. /\ tradingAt = "create admin" /\ (m_apiFactory' <=> m_apiFactory)
          /\ m_adminApi' = "created" /\ m_managerApi' = m_managerApi
      BY <1>4, <2>1 DEF Trading!CreateAdmin, Trading!Fails, Trading!CallsNull, Trading!Goes
    <3> QED  BY <3>1, <2>1, GoesFacts
  <2>2. CASE Trading!CallsNull
    BY <1>4, <2>2, CallsNullFacts DEF Trading!CreateAdmin
  <2> QED  BY <1>4, <2>1, <2>2 DEF Trading!CreateAdmin, Trading!Goes
<1>5. CASE Trading!ConnectAdmin
  <2>1. CASE Trading!Goes("rescan admin") /\ tradingAt' = "rescan admin"
    <3>1. /\ tradingAt = "connect admin" /\ (m_apiFactory' <=> m_apiFactory)
          /\ m_adminApi' = "connected" /\ m_managerApi' = m_managerApi
      BY <1>5, <2>1 DEF Trading!ConnectAdmin, Trading!Fails, Trading!CallsNull, Trading!Goes
    <3> QED  BY <3>1, <2>1, GoesFacts
  <2>2. CASE Trading!CallsNull
    BY <1>5, <2>2, CallsNullFacts DEF Trading!ConnectAdmin
  <2> QED  BY <1>5, <2>1, <2>2 DEF Trading!ConnectAdmin, Trading!Goes
<1>6. CASE Trading!RescanAdmin
  <2>1. CASE Trading!Goes("create manager") /\ tradingAt' = "create manager"
    <3>1. /\ tradingAt = "rescan admin" /\ (m_apiFactory' <=> m_apiFactory)
          /\ m_adminApi' = m_adminApi /\ m_managerApi' = m_managerApi
      BY <1>6, <2>1 DEF Trading!RescanAdmin, Trading!Fails, Trading!CallsNull, Trading!Goes
    <3> QED  BY <3>1, <2>1, GoesFacts
  <2>2. CASE Trading!Goes("reconnect admin") /\ tradingAt' = "reconnect admin"
    <3>1. /\ tradingAt = "rescan admin" /\ (m_apiFactory' <=> m_apiFactory)
          /\ m_adminApi' = "created" /\ m_managerApi' = m_managerApi
      BY <1>6, <2>2 DEF Trading!RescanAdmin, Trading!Fails, Trading!CallsNull, Trading!Goes
    <3> QED  BY <3>1, <2>2, GoesFacts
  <2> QED  BY <1>6, <2>1, <2>2 DEF Trading!RescanAdmin, Trading!Goes
<1>7. CASE Trading!ReconnectAdmin
  <2>1. CASE Trading!Goes("create manager") /\ tradingAt' = "create manager"
    <3>1. /\ tradingAt = "reconnect admin" /\ (m_apiFactory' <=> m_apiFactory)
          /\ m_adminApi' = "connected" /\ m_managerApi' = m_managerApi
      BY <1>7, <2>1 DEF Trading!ReconnectAdmin, Trading!Fails, Trading!CallsNull, Trading!Goes
    <3> QED  BY <3>1, <2>1, GoesFacts
  <2>2. CASE Trading!Fails
    BY <1>7, <2>2, FailsFacts DEF Trading!ReconnectAdmin
  <2> QED  BY <1>7, <2>1, <2>2 DEF Trading!ReconnectAdmin, Trading!Goes
<1>8. CASE Trading!CreateManager
  <2>1. CASE Trading!Goes("connect manager") /\ tradingAt' = "connect manager"
    <3>1. /\ tradingAt = "create manager" /\ (m_apiFactory' <=> m_apiFactory)
          /\ m_adminApi' = m_adminApi /\ m_managerApi' = "created"
      BY <1>8, <2>1 DEF Trading!CreateManager, Trading!Fails, Trading!CallsNull, Trading!Goes
    <3> QED  BY <3>1, <2>1, GoesFacts
  <2>2. CASE Trading!Fails
    BY <1>8, <2>2, FailsFacts DEF Trading!CreateManager
  <2> QED  BY <1>8, <2>1, <2>2 DEF Trading!CreateManager, Trading!Goes
<1>9. CASE Trading!ConnectManager
  <2>1. CASE Trading!Goes("rescan manager") /\ tradingAt' = "rescan manager"
    <3>1. /\ tradingAt = "connect manager" /\ (m_apiFactory' <=> m_apiFactory)
          /\ m_adminApi' = m_adminApi /\ m_managerApi' = "connected"
      BY <1>9, <2>1 DEF Trading!ConnectManager, Trading!Fails, Trading!CallsNull, Trading!Goes
    <3> QED  BY <3>1, <2>1, GoesFacts
  <2>2. CASE Trading!Fails
    BY <1>9, <2>2, FailsFacts DEF Trading!ConnectManager
  <2> QED  BY <1>9, <2>1, <2>2 DEF Trading!ConnectManager, Trading!Goes
<1>10. CASE Trading!RescanManager
  <2>1. CASE Trading!Goes("publish") /\ tradingAt' = "publish"
    <3>1. /\ tradingAt = "rescan manager" /\ (m_apiFactory' <=> m_apiFactory)
          /\ m_adminApi' = m_adminApi /\ m_managerApi' = m_managerApi
      BY <1>10, <2>1 DEF Trading!RescanManager, Trading!Fails, Trading!CallsNull, Trading!Goes
    <3> QED  BY <3>1, <2>1, GoesFacts
  <2>2. CASE Trading!Goes("reconnect manager") /\ tradingAt' = "reconnect manager"
    <3>1. /\ tradingAt = "rescan manager" /\ (m_apiFactory' <=> m_apiFactory)
          /\ m_adminApi' = m_adminApi /\ m_managerApi' = "created"
      BY <1>10, <2>2 DEF Trading!RescanManager, Trading!Fails, Trading!CallsNull, Trading!Goes
    <3> QED  BY <3>1, <2>2, GoesFacts
  <2> QED  BY <1>10, <2>1, <2>2 DEF Trading!RescanManager, Trading!Goes
<1>11. CASE Trading!ReconnectManager
  <2>1. CASE Trading!Goes("publish") /\ tradingAt' = "publish"
    <3>1. /\ tradingAt = "reconnect manager" /\ (m_apiFactory' <=> m_apiFactory)
          /\ m_adminApi' = m_adminApi /\ m_managerApi' = "connected"
      BY <1>11, <2>1 DEF Trading!ReconnectManager, Trading!Fails, Trading!CallsNull, Trading!Goes
    <3> QED  BY <3>1, <2>1, GoesFacts
  <2>2. CASE Trading!Fails
    BY <1>11, <2>2, FailsFacts DEF Trading!ReconnectManager
  <2> QED  BY <1>11, <2>1, <2>2 DEF Trading!ReconnectManager, Trading!Goes
<1>12. CASE Trading!StartThread
  BY <1>12 DEF Trading!StartThread
<1>13. CASE Trading!TickSubscribe
  BY <1>13 DEF Trading!TickSubscribe, Trading!Rest
<1>14. CASE Trading!Stop
  BY <1>14 DEF Trading!Stop, Trading!Rest
<1>15. CASE Trading!StopManager
  BY <1>15 DEF Trading!StopManager, Trading!Rest
<1>16. CASE Trading!StopFactory
  BY <1>16 DEF Trading!StopFactory, Trading!Rest
<1>17. CASE Trading!StopPublisher
  BY <1>17 DEF Trading!StopPublisher, Trading!stop
<1>18. CASE Trading!ShutdownThread
  BY <1>18 DEF Trading!ShutdownThread
<1>19. CASE Trading!OnTick
  BY <1>19 DEF Trading!OnTick, Trading!publish
<1>20. CASE Trading!RunThread
  BY <1>20 DEF Trading!RunThread, Trading!start, Trading!connectPublisher
<1>21. CASE Trading!onPublisherConnected
  BY <1>21 DEF Trading!onPublisherConnected
<1>22. CASE Trading!ConnectFails
  BY <1>22 DEF Trading!ConnectFails
<1>23. CASE Trading!ConnectTimer
  BY <1>23 DEF Trading!ConnectTimer, Trading!connectPublisher
<1>24. CASE Trading!FirePublishTimer
  BY <1>24 DEF Trading!FirePublishTimer
<1>25. CASE Trading!onPublishTimeout
  BY <1>25 DEF Trading!onPublishTimeout
<1>26. CASE Trading!ConnectionLost
  BY <1>26 DEF Trading!ConnectionLost, Trading!connectPublisher
<1>27. CASE Trading!RunReturns
  BY <1>27 DEF Trading!RunReturns
<1>28. CASE UNCHANGED Trading!vars
  BY <1>28 DEF Trading!vars
<1> QED
  BY <1>1, <1>2, <1>3, <1>4, <1>5, <1>6, <1>7, <1>8, <1>9, <1>10, <1>11, <1>12, <1>13,
     <1>14, <1>15, <1>16, <1>17, <1>18, <1>19, <1>20, <1>21, <1>22, <1>23, <1>24, <1>25,
     <1>26, <1>27, <1>28, NextCases

\* The thread keeps a connection, an attempt or a timer.
LEMMA LinkStep == Stages /\ Linked /\ [Trading!Next]_Trading!vars => Linked'
<1> SUFFICES ASSUME Stages /\ Linked, [Trading!Next]_Trading!vars PROVE Linked'
  OBVIOUS
<1> USE DEF Stages, Linked, Trading!api, Trading!link
<1>1. CASE Trading!Start
  BY <1>1 DEF Trading!Start, Trading!Rest
<1>2. CASE Trading!Initialize
  BY <1>2 DEF Trading!Initialize, Trading!Goes, Trading!Fails, Trading!CallsNull, Trading!Rest
<1>3. CASE Trading!Version
  BY <1>3 DEF Trading!Version, Trading!Goes, Trading!Fails, Trading!CallsNull, Trading!Rest
<1>4. CASE Trading!CreateAdmin
  BY <1>4 DEF Trading!CreateAdmin, Trading!Goes, Trading!Fails, Trading!CallsNull, Trading!Rest
<1>5. CASE Trading!ConnectAdmin
  BY <1>5 DEF Trading!ConnectAdmin, Trading!Goes, Trading!Fails, Trading!CallsNull, Trading!Rest
<1>6. CASE Trading!RescanAdmin
  BY <1>6 DEF Trading!RescanAdmin, Trading!Goes, Trading!Fails, Trading!CallsNull, Trading!Rest
<1>7. CASE Trading!ReconnectAdmin
  BY <1>7 DEF Trading!ReconnectAdmin, Trading!Goes, Trading!Fails, Trading!CallsNull, Trading!Rest
<1>8. CASE Trading!CreateManager
  BY <1>8 DEF Trading!CreateManager, Trading!Goes, Trading!Fails, Trading!CallsNull, Trading!Rest
<1>9. CASE Trading!ConnectManager
  BY <1>9 DEF Trading!ConnectManager, Trading!Goes, Trading!Fails, Trading!CallsNull, Trading!Rest
<1>10. CASE Trading!RescanManager
  BY <1>10 DEF Trading!RescanManager, Trading!Goes, Trading!Fails, Trading!CallsNull, Trading!Rest
<1>11. CASE Trading!ReconnectManager
  BY <1>11 DEF Trading!ReconnectManager, Trading!Goes, Trading!Fails, Trading!CallsNull, Trading!Rest
<1>12. CASE Trading!StartThread
  BY <1>12 DEF Trading!StartThread
<1>13. CASE Trading!TickSubscribe
  BY <1>13 DEF Trading!TickSubscribe, Trading!Rest
<1>14. CASE Trading!Stop
  BY <1>14 DEF Trading!Stop, Trading!Rest
<1>15. CASE Trading!StopManager
  BY <1>15 DEF Trading!StopManager, Trading!Rest
<1>16. CASE Trading!StopFactory
  BY <1>16 DEF Trading!StopFactory, Trading!Rest
<1>17. CASE Trading!StopPublisher
  BY <1>17 DEF Trading!StopPublisher, Trading!stop
<1>18. CASE Trading!ShutdownThread
  BY <1>18 DEF Trading!ShutdownThread
<1>19. CASE Trading!OnTick
  BY <1>19 DEF Trading!OnTick, Trading!publish
<1>20. CASE Trading!RunThread
  BY <1>20 DEF Trading!RunThread, Trading!start, Trading!connectPublisher
<1>21. CASE Trading!onPublisherConnected
  BY <1>21 DEF Trading!onPublisherConnected
<1>22. CASE Trading!ConnectFails
  BY <1>22 DEF Trading!ConnectFails
<1>23. CASE Trading!ConnectTimer
  BY <1>23 DEF Trading!ConnectTimer, Trading!connectPublisher
<1>24. CASE Trading!FirePublishTimer
  BY <1>24 DEF Trading!FirePublishTimer
<1>25. CASE Trading!onPublishTimeout
  BY <1>25 DEF Trading!onPublishTimeout
<1>26. CASE Trading!ConnectionLost
  BY <1>26 DEF Trading!ConnectionLost, Trading!connectPublisher
<1>27. CASE Trading!RunReturns
  BY <1>27 DEF Trading!RunReturns
<1>28. CASE UNCHANGED Trading!vars
  BY <1>28 DEF Trading!vars
<1> QED
  BY <1>1, <1>2, <1>3, <1>4, <1>5, <1>6, <1>7, <1>8, <1>9, <1>10, <1>11, <1>12, <1>13,
     <1>14, <1>15, <1>16, <1>17, <1>18, <1>19, <1>20, <1>21, <1>22, <1>23, <1>24, <1>25,
     <1>26, <1>27, <1>28, NextCases

\* No tick meets a deleted publisher.
LEMMA TicksStep == Stages /\ Trading!TicksHavePublisher /\ [Trading!Next]_Trading!vars => Trading!TicksHavePublisher'
<1> SUFFICES ASSUME Stages /\ Trading!TicksHavePublisher, [Trading!Next]_Trading!vars PROVE Trading!TicksHavePublisher'
  OBVIOUS
<1> USE DEF Stages, Trading!TicksHavePublisher, Trading!api, Trading!link
<1>1. CASE Trading!Start
  BY <1>1 DEF Trading!Start, Trading!Rest
<1>2. CASE Trading!Initialize
  BY <1>2 DEF Trading!Initialize, Trading!Goes, Trading!Fails, Trading!CallsNull, Trading!Rest
<1>3. CASE Trading!Version
  BY <1>3 DEF Trading!Version, Trading!Goes, Trading!Fails, Trading!CallsNull, Trading!Rest
<1>4. CASE Trading!CreateAdmin
  BY <1>4 DEF Trading!CreateAdmin, Trading!Goes, Trading!Fails, Trading!CallsNull, Trading!Rest
<1>5. CASE Trading!ConnectAdmin
  BY <1>5 DEF Trading!ConnectAdmin, Trading!Goes, Trading!Fails, Trading!CallsNull, Trading!Rest
<1>6. CASE Trading!RescanAdmin
  BY <1>6 DEF Trading!RescanAdmin, Trading!Goes, Trading!Fails, Trading!CallsNull, Trading!Rest
<1>7. CASE Trading!ReconnectAdmin
  BY <1>7 DEF Trading!ReconnectAdmin, Trading!Goes, Trading!Fails, Trading!CallsNull, Trading!Rest
<1>8. CASE Trading!CreateManager
  BY <1>8 DEF Trading!CreateManager, Trading!Goes, Trading!Fails, Trading!CallsNull, Trading!Rest
<1>9. CASE Trading!ConnectManager
  BY <1>9 DEF Trading!ConnectManager, Trading!Goes, Trading!Fails, Trading!CallsNull, Trading!Rest
<1>10. CASE Trading!RescanManager
  BY <1>10 DEF Trading!RescanManager, Trading!Goes, Trading!Fails, Trading!CallsNull, Trading!Rest
<1>11. CASE Trading!ReconnectManager
  BY <1>11 DEF Trading!ReconnectManager, Trading!Goes, Trading!Fails, Trading!CallsNull, Trading!Rest
<1>12. CASE Trading!StartThread
  BY <1>12 DEF Trading!StartThread
<1>13. CASE Trading!TickSubscribe
  BY <1>13 DEF Trading!TickSubscribe, Trading!Rest
<1>14. CASE Trading!Stop
  BY <1>14 DEF Trading!Stop, Trading!Rest
<1>15. CASE Trading!StopManager
  BY <1>15 DEF Trading!StopManager, Trading!Rest
<1>16. CASE Trading!StopFactory
  BY <1>16 DEF Trading!StopFactory, Trading!Rest
<1>17. CASE Trading!StopPublisher
  BY <1>17 DEF Trading!StopPublisher, Trading!stop
<1>18. CASE Trading!ShutdownThread
  BY <1>18 DEF Trading!ShutdownThread
<1>19. CASE Trading!OnTick
  BY <1>19 DEF Trading!OnTick, Trading!publish
<1>20. CASE Trading!RunThread
  BY <1>20 DEF Trading!RunThread, Trading!start, Trading!connectPublisher
<1>21. CASE Trading!onPublisherConnected
  BY <1>21 DEF Trading!onPublisherConnected
<1>22. CASE Trading!ConnectFails
  BY <1>22 DEF Trading!ConnectFails
<1>23. CASE Trading!ConnectTimer
  BY <1>23 DEF Trading!ConnectTimer, Trading!connectPublisher
<1>24. CASE Trading!FirePublishTimer
  BY <1>24 DEF Trading!FirePublishTimer
<1>25. CASE Trading!onPublishTimeout
  BY <1>25 DEF Trading!onPublishTimeout
<1>26. CASE Trading!ConnectionLost
  BY <1>26 DEF Trading!ConnectionLost, Trading!connectPublisher
<1>27. CASE Trading!RunReturns
  BY <1>27 DEF Trading!RunReturns
<1>28. CASE UNCHANGED Trading!vars
  BY <1>28 DEF Trading!vars
<1> QED
  BY <1>1, <1>2, <1>3, <1>4, <1>5, <1>6, <1>7, <1>8, <1>9, <1>10, <1>11, <1>12, <1>13,
     <1>14, <1>15, <1>16, <1>17, <1>18, <1>19, <1>20, <1>21, <1>22, <1>23, <1>24, <1>25,
     <1>26, <1>27, <1>28, NextCases

-----------------------------------------------------------------------------
(* The invariant holds and implies TradingIsSound.                         *)

TradingInv == Stages /\ Linked /\ Trading!TicksHavePublisher

\* The constructor establishes the invariant.
LEMMA TradingInit == Trading!Init => TradingInv
BY DEF Trading!Init, TradingInv, Stages, Linked, Trading!TicksHavePublisher, Trading!Connection, Starting, BeforeAdmin,
       WithAdmin, Ending

\* The invariant implies the property.
LEMMA TradingSound == TradingInv => Trading!TradingIsSound
BY DEF TradingInv, Stages, Linked, Trading!TradingIsSound, Trading!TypeOK, Trading!FailedLeavesNothing,
       Trading!StartedIsConnected, Trading!StoppedIsEmpty, Trading!RunsUntilStopped, Trading!Connection

\* However Start fails and however often redis refuses or drops the connection:
\* a failure leaves no interface behind, a success two connected ones, Stop leaves
\* nothing, and until Stop the thread runs and no tick meets a deleted publisher.
THEOREM TradingHolds == Trading!Spec => []TradingIsSound
<1>1. Trading!Init => TradingInv
  BY TradingInit
<1>2. TradingInv /\ [Trading!Next]_Trading!vars => TradingInv'
  BY StagesStep, LinkStep, TicksStep DEF TradingInv
<1>3. TradingInv => TradingIsSound
  BY TradingSound DEF TradingIsSound
<1> QED  BY <1>1, <1>2, <1>3, PTL DEF Trading!Spec

-----------------------------------------------------------------------------
(* HttpService. A request that does not wait is one step; an order waits,   *)
(* alone, until its sink has been told or the wait has timed out.           *)

Kinds == Http!g_service_interface_apimap \cup {"unknown path", "other method", "options"}
Answered == [kind : Kinds, answer : {"none", "success", "failure", "empty"}, done : BOOLEAN]

Free == httpRequest = Http!None
Settled == {"none", "ended executed", "ended rejected"}

HttpTypes ==
    /\ served \in 0..MaxRequests
    /\ orders \in Seq(Http!States) /\ Len(orders) = served
    /\ answers \in Seq(Answered)
    /\ Len(answers) = served - (IF Free /\ dead = "no" THEN 0 ELSE 1)
    /\ timedOut \subseteq 1..served
    /\ dead \in {"no", "exception", "null"}

\* on_http waits for the last request it took, and for no other; the event is
\* set when that order has ended.
OneWaits ==
    Free \/ /\ httpRequest \in [kind : Http!CreateFirst \cup Http!ParseFirst,
                                order : {served}, event : BOOLEAN]
            /\ served # 0 /\ dead = "no"
            /\ orders[served] # "none"
            /\ httpRequest.event => orders[served] \in {"ended executed", "ended rejected"}

\* What was answered in time is settled: no order of it is on its way, and its
\* client has heard of the one that was executed.
HeardInTime ==
    \A i \in DOMAIN answers :
        i \notin timedOut =>
            /\ orders[i] \in Settled
            /\ orders[i] = "ended executed" => answers[i].answer = "success"

HttpInv ==
    /\ HttpTypes /\ OneWaits /\ HeardInTime
    /\ Http!SuccessMeansDone /\ Http!StrayOnlyAfterTimeout /\ Http!OnlyUsersLeak

\* The state of an order, changed.
LEMMA OrderSet ==
    ASSUME orders \in Seq(Http!States), NEW o \in 1..Len(orders), NEW state \in Http!States
    PROVE  /\ Http!Set(o, state) \in Seq(Http!States)
           /\ Len(Http!Set(o, state)) = Len(orders)
           /\ Http!Set(o, state)[o] = state
           /\ \A i \in 1..Len(orders) : i # o => Http!Set(o, state)[i] = orders[i]
BY DEF Http!Set

\* The orders with one more.
LEMMA OrderAdded ==
    ASSUME orders \in Seq(Http!States), NEW state \in Http!States
    PROVE  /\ Append(orders, state) \in Seq(Http!States)
           /\ Len(Append(orders, state)) = Len(orders) + 1
           /\ Append(orders, state)[Len(orders) + 1] = state
           /\ \A i \in 1..Len(orders) : Append(orders, state)[i] = orders[i]
OBVIOUS

\* The answers with one more.
LEMMA AnswerAdded ==
    ASSUME answers \in Seq(Answered), NEW a \in Answered
    PROVE  /\ Append(answers, a) \in Seq(Answered)
           /\ Len(Append(answers, a)) = Len(answers) + 1
           /\ DOMAIN Append(answers, a) = 1..(Len(answers) + 1)
           /\ Append(answers, a)[Len(answers) + 1] = a
           /\ \A i \in 1..Len(answers) : Append(answers, a)[i] = answers[i]
OBVIOUS

\* How a request that does not wait ends: with an answer, or with the process.
Reply(a) ==
    /\ answers' = Append(answers, a) /\ dead' = dead
    /\ a.answer = "success" /\ ~a.done => a.kind \in {"name_update", "balance_query"}
Lost == answers' = answers /\ dead' \in {"exception", "null"} /\ leaks' = leaks

Immediate ==
    /\ Http!Begin
    /\ UNCHANGED <<httpRequest, timedOut, httpStray>>
    /\ short => short'
    /\ \A l \in leaks' : l \in leaks \/ l[2] = "user" \/ short'
    /\ Lost \/ \E a \in Answered : Reply(a)

\* The end of a request that has an answer.
LEMMA AnswerIsReply ==
    ASSUME NEW k \in Kinds, NEW a \in {"none", "success", "failure", "empty"}, NEW d \in BOOLEAN,
           NEW held, held \subseteq {"user"},
           a = "success" /\ ~d => k \in {"name_update", "balance_query"},
           Http!Begin, Http!AtOnce, Http!Answer(k, a, d, held)
    PROVE  Immediate
<1>1. [kind |-> k, answer |-> a, done |-> d] \in Answered
  BY DEF Answered
<1>2. Reply([kind |-> k, answer |-> a, done |-> d])
  BY DEF Reply, Http!Answer
<1>3. \A l \in leaks' : l \in leaks \/ l[2] = "user"
  BY DEF Http!Answer
<1> QED  BY <1>1, <1>2, <1>3 DEF Immediate, Http!AtOnce

\* The same of a request that leaves nothing behind: done, or without an answer.
LEMMA PlainIsReply ==
    ASSUME NEW k \in Kinds, NEW a \in {"none", "success", "failure", "empty"},
           Http!Begin, Http!AtOnce,
           \/ Http!Answer(k, a, TRUE, {})
           \/ a = "empty" /\ Http!Answer(k, a, FALSE, {})
    PROVE  Immediate
<1>1. \A d \in BOOLEAN : [kind |-> k, answer |-> a, done |-> d] \in Answered
  BY DEF Answered
<1>2. CASE Http!Answer(k, a, TRUE, {})
  <2>1. Reply([kind |-> k, answer |-> a, done |-> TRUE]) /\ leaks' = leaks
    BY <1>2 DEF Reply, Http!Answer
  <2> QED  BY <1>1, <2>1 DEF Immediate, Http!AtOnce
<1>3. CASE a = "empty" /\ Http!Answer(k, a, FALSE, {})
  <2>1. Reply([kind |-> k, answer |-> a, done |-> FALSE]) /\ leaks' = leaks
    BY <1>3 DEF Reply, Http!Answer
  <2> QED  BY <1>1, <2>1 DEF Immediate, Http!AtOnce
<1> QED  BY <1>2, <1>3

\* The end of a request whose process ends.
LEMMA EscapeIsLost ==
    ASSUME NEW how \in {"exception", "null"}, Http!Begin, Http!AtOnce, Http!Escape(how)
    PROVE  Immediate
BY DEF Immediate, Lost, Http!Escape, Http!AtOnce

\* The end of a request that failed.
LEMMA FailureIsReply ==
    ASSUME NEW k \in Kinds, NEW held, held \subseteq {"user"},
           Http!Begin, Http!AtOnce, Http!Failure(k, held)
    PROVE  Immediate
BY AnswerIsReply DEF Http!Failure

\* The end of a request that did what it was asked.
LEMMA DoneIsReply ==
    ASSUME NEW k \in Kinds, NEW a \in {"none", "success", "failure", "empty"},
           NEW held, held \subseteq {"user"},
           Http!Begin, Http!AtOnce, Http!Answer(k, a, TRUE, held)
    PROVE  Immediate
BY AnswerIsReply

\* An order whose objects could not be created.
LEMMA CreateFailsIsReply ==
    ASSUME NEW k \in Kinds, NEW a \in {"empty", "failure"}, Http!CreateFails(k, a)
    PROVE  Immediate
<1>1. PICK held \in SUBSET {"request", "response"} : Http!Answer(k, a, FALSE, held)
  BY DEF Http!CreateFails
<1>2. [kind |-> k, answer |-> a, done |-> FALSE] \in Answered
  BY DEF Answered
<1>3. Reply([kind |-> k, answer |-> a, done |-> FALSE])
  BY <1>1 DEF Reply, Http!Answer
<1> QED  BY <1>2, <1>3 DEF Immediate, Http!CreateFails

\* The queries.
LEMMA QueryIsImmediate ==
    ASSUME NEW k \in Kinds, NEW numbers \in BOOLEAN,
           Http!Query(k, numbers) \/ Http!QueryNever(k, numbers)
    PROVE  Immediate
<1>1. /\ Http!Begin /\ Http!AtOnce
      /\ \/ Http!Failure(k, {}) \/ Http!Escape("exception") \/ Http!Answer(k, "success", TRUE, {})
  BY DEF Http!Query, Http!QueryNever
<1> QED  BY <1>1, PlainIsReply, EscapeIsLost, FailureIsReply

\* Every request but those that send an order.
Simple ==
    \/ Http!Lookup \/ Http!test \/ Http!kcharts \/ Http!kline \/ Http!kline_new
    \/ Http!order_query \/ Http!position_query \/ Http!history_order \/ Http!symbol_query
    \/ Http!balance_query \/ Http!register \/ Http!name_update
    \/ Http!password_check \/ Http!password_update \/ Http!deposit \/ Http!withdrawal

\* A request answered from the maps alone is one answered before on_http returns.
LEMMA SimpleIsImmediate == Simple => Immediate
<1> USE DEF Kinds, Http!g_service_interface_apimap
<1>1. Http!Lookup => Immediate
  <2>1. "unknown path" \in Kinds /\ "other method" \in Kinds /\ "options" \in Kinds
    OBVIOUS
  <2> HIDE DEF Kinds
  <2> QED  BY <2>1, PlainIsReply, EscapeIsLost DEF Http!Lookup
<1>2. Http!test \/ Http!kcharts => Immediate
  <2>1. "test" \in Kinds /\ "kcharts" \in Kinds
    OBVIOUS
  <2> HIDE DEF Kinds
  <2> QED  BY <2>1, PlainIsReply DEF Http!test, Http!kcharts
<1>3. Http!kline \/ Http!kline_new \/ Http!order_query \/ Http!position_query
          \/ Http!history_order \/ Http!symbol_query => Immediate
  BY QueryIsImmediate DEF Http!kline, Http!kline_new, Http!order_query, Http!position_query,
     Http!history_order, Http!symbol_query
<1>4. Http!balance_query => Immediate
  <2> DEFINE k == "balance_query"
  <2>1. k \in Kinds
    OBVIOUS
  <2> HIDE DEF Kinds
  <2> SUFFICES ASSUME Http!balance_query PROVE Immediate
    OBVIOUS
  <2>2. Http!Begin /\ Http!AtOnce
    BY DEF Http!balance_query
  <2>3. CASE \E filled \in BOOLEAN : Http!Answer(k, "success", filled, {"user"})
    BY <2>1, <2>2, <2>3, AnswerIsReply
  <2>4. CASE Http!Failure(k, {}) \/ Http!Failure(k, {"user"})
    BY <2>1, <2>2, <2>4, FailureIsReply
  <2>5. CASE Http!Escape("exception") \/ Http!Escape("null")
    BY <2>2, <2>5, EscapeIsLost
  <2> QED  BY <2>3, <2>4, <2>5 DEF Http!balance_query
<1>5. Http!register => Immediate
  <2>1. "register" \in Kinds
    OBVIOUS
  <2> HIDE DEF Kinds
  <2> QED  BY <2>1, DoneIsReply, FailureIsReply DEF Http!register
<1>6. Http!name_update => Immediate
  <2> DEFINE k == "name_update"
  <2>1. k \in Kinds
    OBVIOUS
  <2> HIDE DEF Kinds
  <2> SUFFICES ASSUME Http!name_update PROVE Immediate
    OBVIOUS
  <2>2. Http!Begin /\ Http!AtOnce
    BY DEF Http!name_update
  <2>3. CASE \E updated \in BOOLEAN : Http!Answer(k, "success", updated, {"user"})
    BY <2>1, <2>2, <2>3, AnswerIsReply
  <2>4. CASE Http!Failure(k, {}) \/ Http!Failure(k, {"user"})
    BY <2>1, <2>2, <2>4, FailureIsReply
  <2>5. CASE Http!Escape("exception")
    BY <2>2, <2>5, EscapeIsLost
  <2> QED  BY <2>3, <2>4, <2>5 DEF Http!name_update
<1>7. Http!password_check \/ Http!password_update => Immediate
  <2>1. "password_check" \in Kinds /\ "password_update" \in Kinds
    OBVIOUS
  <2> HIDE DEF Kinds
  <2> QED  BY <2>1, DoneIsReply, EscapeIsLost, FailureIsReply
              DEF Http!password_check, Http!password_update, Http!Password
<1>8. Http!deposit \/ Http!withdrawal => Immediate
  <2>1. "deposit" \in Kinds /\ "withdrawal" \in Kinds
    OBVIOUS
  <2> HIDE DEF Kinds
  <2> QED  BY <2>1, PlainIsReply, EscapeIsLost, FailureIsReply
              DEF Http!deposit, Http!withdrawal, Http!Balance
<1> QED  BY <1>1, <1>2, <1>3, <1>4, <1>5, <1>6, <1>7, <1>8 DEF Simple

\* An empty answer.
LEMMA EmptyIsReply ==
    ASSUME NEW k \in Kinds, Http!Begin, Http!AtOnce, Http!Answer(k, "empty", FALSE, {})
    PROVE  Immediate
BY PlainIsReply

\* The requests that send an order, when they do not.
Ordered ==
    \/ Http!position_open \/ Http!position_close \/ Http!order_pending
    \/ Http!position_tpsl \/ Http!order_update \/ Http!order_cancel

\* A request that orders is answered at once or sent to the manager.
LEMMA OrderIsImmediateOrSent ==
    Ordered => Immediate \/ \E k \in Http!CreateFirst \cup Http!ParseFirst : Http!Send(k)
<1>1. ASSUME NEW k \in Http!CreateFirst, Http!OrderCreateFirst(k) PROVE Immediate \/ Http!Send(k)
  <2>1. k \in Kinds  BY DEF Kinds, Http!g_service_interface_apimap
  <2>2. CASE Http!CreateFails(k, "empty")  BY <2>1, <2>2, CreateFailsIsReply
  <2>3. CASE Http!Begin /\ Http!AtOnce /\ Http!Answer(k, "empty", FALSE, {})
    BY <2>1, <2>3, EmptyIsReply
  <2>4. CASE Http!Begin /\ Http!AtOnce /\ Http!Escape("exception")  BY <2>4, EscapeIsLost
  <2> QED  BY <1>1, <2>2, <2>3, <2>4 DEF Http!OrderCreateFirst
<1>2. ASSUME NEW k \in Http!ParseFirst, Http!OrderParseFirst(k) PROVE Immediate \/ Http!Send(k)
  <2>1. k \in Kinds  BY DEF Kinds, Http!g_service_interface_apimap
  <2>2. CASE Http!CreateFails(k, "failure")  BY <2>1, <2>2, CreateFailsIsReply
  <2>3. CASE Http!Begin /\ Http!AtOnce /\ Http!Failure(k, {})  BY <2>1, <2>3, FailureIsReply
  <2>4. CASE Http!Begin /\ Http!AtOnce /\ Http!Answer(k, "empty", FALSE, {})
    BY <2>1, <2>4, EmptyIsReply
  <2>5. CASE Http!Begin /\ Http!AtOnce /\ Http!Escape("exception")  BY <2>5, EscapeIsLost
  <2> QED  BY <1>2, <2>2, <2>3, <2>4, <2>5 DEF Http!OrderParseFirst
<1>3. /\ {"position_open", "position_close", "order_pending"} = Http!CreateFirst
      /\ {"position_tpsl", "order_update", "order_cancel"} = Http!ParseFirst
  BY DEF Http!CreateFirst, Http!ParseFirst
<1> QED
  BY <1>1, <1>2, <1>3 DEF Ordered, Http!position_open, Http!position_close, Http!order_pending,
     Http!position_tpsl, Http!order_update, Http!order_cancel

\* Such a request keeps the invariant: it took the place of none.
LEMMA ImmediateStep == ASSUME HttpInv, Immediate PROVE HttpInv'
<1> USE SampleAssumption
<1>1. /\ Free /\ dead = "no" /\ served < MaxRequests /\ served' = served + 1
      /\ orders' = Append(orders, "none")
      /\ httpRequest' = httpRequest /\ timedOut' = timedOut /\ httpStray' = httpStray
  BY DEF Immediate, Http!Begin, Free
<1>2. served \in Nat /\ Len(orders) = served /\ Len(answers) = served 
  BY <1>1 DEF HttpInv, HttpTypes
<1>3. /\ orders' \in Seq(Http!States) /\ Len(orders') = served + 1
      /\ orders'[served + 1] = "none" /\ \A i \in 1..served : orders'[i] = orders[i]
  <2>1. "none" \in Http!States  BY DEF Http!States
  <2> QED  BY <1>1, <1>2, <2>1, OrderAdded DEF HttpInv, HttpTypes
<1>4. Free' /\ OneWaits'
  BY <1>1 DEF OneWaits, Free
<1>5. answers \in Seq(Answered) /\ DOMAIN answers = 1..served
  BY <1>2 DEF HttpInv, HttpTypes
<1>6. Http!StrayOnlyAfterTimeout' /\ Http!OnlyUsersLeak'
  BY <1>1 DEF HttpInv, Http!StrayOnlyAfterTimeout, Http!OnlyUsersLeak, Immediate
<1>7. timedOut' \subseteq 1..(served + 1) /\ served' \in 0..MaxRequests
  BY <1>1, <1>2 DEF HttpInv, HttpTypes
<1>8. CASE Lost
  <2>1. HttpTypes'  BY <1>1, <1>2, <1>3, <1>4, <1>5, <1>7, <1>8 DEF HttpTypes, Lost
  <2>2. HeardInTime'  BY <1>1, <1>3, <1>5, <1>8 DEF HttpInv, HeardInTime, Lost
  <2>3. Http!SuccessMeansDone'  BY <1>8 DEF HttpInv, Http!SuccessMeansDone, Lost
  <2> QED  BY <2>1, <2>2, <2>3, <1>4, <1>6 DEF HttpInv
<1>9. ASSUME NEW a \in Answered, Reply(a) PROVE HttpInv'
  <2>1. /\ answers' \in Seq(Answered) /\ Len(answers') = served + 1
        /\ DOMAIN answers' = 1..(served + 1)
        /\ answers'[served + 1] = a
        /\ \A i \in 1..served : answers'[i] = answers[i]
    BY <1>2, <1>5, <1>9, AnswerAdded DEF Reply
  <2>2. HttpTypes'  BY <1>1, <1>2, <1>3, <1>4, <1>7, <1>9, <2>1 DEF HttpTypes, Reply, HttpInv
  <2>3. HeardInTime'
    <3>1. ASSUME NEW i \in 1..served, i \notin timedOut
          PROVE  /\ orders'[i] \in Settled
                 /\ orders'[i] = "ended executed" => answers'[i].answer = "success"
      BY <1>3, <1>5, <2>1, <3>1 DEF HttpInv, HeardInTime
    <3>2. orders'[served + 1] \in Settled /\ orders'[served + 1] # "ended executed"
      BY <1>3 DEF Settled
    <3>3. \A i \in 1..(served + 1) : i \in 1..served \/ i = served + 1  BY <1>2
    <3> QED  BY <1>1, <2>1, <3>1, <3>2, <3>3 DEF HeardInTime
  <2>4. Http!SuccessMeansDone'
    <3>1. \A i \in 1..(served + 1) : i \in 1..served \/ i = served + 1  BY <1>2
    <3> QED  BY <1>5, <1>9, <2>1, <3>1 DEF HttpInv, Http!SuccessMeansDone, Reply
  <2> QED  BY <2>2, <2>3, <2>4, <1>4, <1>6 DEF HttpInv
<1> QED  BY <1>8, <1>9 DEF Immediate

\* DealerSend accepts an order: on_http begins to wait for it.
LEMMA SendStep ==
    ASSUME HttpInv, NEW k \in Http!CreateFirst \cup Http!ParseFirst, Http!Send(k)
    PROVE  HttpInv'
<1> USE SampleAssumption
<1>1. /\ Free /\ dead = "no" /\ served < MaxRequests /\ served' = served + 1
      /\ orders' = Append(orders, "sent")
      /\ httpRequest' = [kind |-> k, order |-> served + 1, event |-> FALSE]
      /\ UNCHANGED <<answers, leaks, short, timedOut, httpStray, dead>>
  BY DEF Http!Send, Free
<1>2. served \in Nat /\ Len(orders) = served /\ Len(answers) = served
  BY <1>1 DEF HttpInv, HttpTypes
<1>3. /\ orders' \in Seq(Http!States) /\ Len(orders') = served + 1
      /\ orders'[served + 1] = "sent" /\ \A i \in 1..served : orders'[i] = orders[i]
  <2>1. "sent" \in Http!States  BY DEF Http!States
  <2> QED  BY <1>1, <1>2, <2>1, OrderAdded DEF HttpInv, HttpTypes
<1>4. ~Free' /\ OneWaits'
  <2>1. httpRequest'.order # Http!None.order  BY <1>1, <1>2 DEF Http!None
  <2>2. httpRequest' \in [kind : Http!CreateFirst \cup Http!ParseFirst,
                         order : {served'}, event : BOOLEAN]
    BY <1>1
  <2>3. ~httpRequest'.event  BY <1>1
  <2> QED  BY <1>1, <1>2, <1>3, <2>1, <2>2, <2>3 DEF OneWaits, Free
<1>5. HttpTypes'  BY <1>1, <1>2, <1>3, <1>4 DEF HttpInv, HttpTypes
<1>6. HeardInTime'
  <2>1. DOMAIN answers = 1..served  BY <1>2 DEF HttpInv, HttpTypes
  <2> QED  BY <1>1, <1>3, <2>1 DEF HttpInv, HeardInTime
<1>7. Http!SuccessMeansDone' /\ Http!StrayOnlyAfterTimeout' /\ Http!OnlyUsersLeak'
  BY <1>1 DEF HttpInv, Http!SuccessMeansDone, Http!StrayOnlyAfterTimeout, Http!OnlyUsersLeak
<1> QED  BY <1>4, <1>5, <1>6, <1>7 DEF HttpInv

\* The order that is on its way is the one on_http waits for, unless its wait
\* has timed out.
LEMMA OnItsWay ==
    ASSUME HttpInv, NEW o \in 1..served, dead = "no", orders[o] \notin Settled
    PROVE  /\ o \in timedOut \/ httpRequest.order = o
           /\ o \in DOMAIN answers => o \in timedOut
           /\ ~Free /\ httpRequest.order = o => ~httpRequest.event
<1>1. o \in DOMAIN answers => o \in timedOut
  BY DEF HttpInv, HeardInTime
<1>2. DOMAIN answers = 1..Len(answers) /\ served \in Nat
  BY DEF HttpInv, HttpTypes
<1>3. o \notin DOMAIN answers => ~Free /\ o = served
  BY <1>2 DEF HttpInv, HttpTypes
<1>4. ~Free => httpRequest.order = served
  BY DEF HttpInv, OneWaits
<1>5. httpRequest.event /\ ~Free => orders[served] \in Settled
  BY DEF HttpInv, OneWaits, Settled
<1> QED  BY <1>1, <1>3, <1>4, <1>5

\* The manager, or the sink on its behalf, moves an order that is on its way.
Moved(o, state) ==
    /\ dead = "no" /\ orders[o] \notin Settled
    /\ orders' = Http!Set(o, state)
    /\ httpStray' => httpStray \/ httpRequest.order # o
    /\ UNCHANGED <<served, answers, leaks, short, timedOut, dead>>
    /\ \/ httpRequest' = httpRequest
       \/ /\ httpRequest.order = o
          /\ httpRequest' = [httpRequest EXCEPT !.event = TRUE]
          /\ state \in {"ended executed", "ended rejected"}

\* A moved order keeps the invariant: it is the one waited for, or one of a request that left.
LEMMA MovedStep ==
    ASSUME HttpInv, NEW o \in 1..served, NEW state \in Http!States \ {"none"}, Moved(o, state)
    PROVE  HttpInv'
<1> USE SampleAssumption
<1>1. /\ dead = "no" /\ orders[o] \notin Settled
      /\ orders' = Http!Set(o, state)
      /\ UNCHANGED <<served, answers, leaks, short, timedOut, dead>>
  BY DEF Moved
<1>2. served \in Nat /\ Len(orders) = served /\ DOMAIN answers \subseteq 1..served
  BY DEF HttpInv, HttpTypes
<1>3. /\ orders' \in Seq(Http!States) /\ Len(orders') = served
      /\ orders'[o] = state /\ \A i \in 1..served : i # o => orders'[i] = orders[i]
  <2>1. o \in 1..Len(orders) /\ state \in Http!States /\ orders \in Seq(Http!States)
    BY <1>2 DEF HttpInv, HttpTypes
  <2> QED  BY <1>1, <1>2, <2>1, OrderSet
<1>4. /\ o \in timedOut \/ httpRequest.order = o
      /\ o \in DOMAIN answers => o \in timedOut
      /\ ~Free /\ httpRequest.order = o => ~httpRequest.event
  BY <1>1, OnItsWay
<1>5. (Free <=> Free') /\ OneWaits'
  <2>1. CASE httpRequest' = httpRequest
    <3>1. Free <=> Free'  BY <2>1 DEF Free
    <3>2. CASE Free  BY <3>1, <3>2 DEF OneWaits
    <3>3. CASE ~Free
      <4>1. /\ httpRequest \in [kind : Http!CreateFirst \cup Http!ParseFirst,
                               order : {served}, event : BOOLEAN]
            /\ served # 0 /\ orders[served] # "none"
            /\ httpRequest.event => orders[served] \in {"ended executed", "ended rejected"}
        BY <3>3 DEF HttpInv, OneWaits
      <4>2. served \in 1..served /\ httpRequest.order = served
        <5>1. httpRequest.order = served  BY <4>1
        <5>2. served # 0  BY <4>1
        <5> QED  BY <1>2, <5>1, <5>2
      <4>3. CASE o = served
        <5>1. ~httpRequest.event  BY <1>4, <3>3, <4>2, <4>3
        <5>2. orders'[served] # "none"  BY <1>3, <4>3
        <5> QED  BY <1>1, <2>1, <3>1, <4>1, <5>1, <5>2 DEF OneWaits
      <4>4. CASE o # served
        <5>1. orders'[served] = orders[served]  BY <1>3, <4>2, <4>4
        <5> QED  BY <1>1, <2>1, <3>1, <4>1, <5>1 DEF OneWaits
      <4> QED  BY <4>3, <4>4
    <3> QED  BY <3>2, <3>3, <3>1
  <2>2. CASE /\ httpRequest.order = o
             /\ httpRequest' = [httpRequest EXCEPT !.event = TRUE]
             /\ state \in {"ended executed", "ended rejected"}
    <3>1. httpRequest # Http!None
      <4>1. Http!None.order = 0  BY DEF Http!None
      <4>2. o # 0  BY <1>2
      <4>3. httpRequest.order = o  BY <2>2
      <4> QED  BY <4>1, <4>2, <4>3
    <3>2. /\ httpRequest \in [kind : Http!CreateFirst \cup Http!ParseFirst,
                             order : {served}, event : BOOLEAN]
          /\ served # 0
      BY <3>1 DEF HttpInv, OneWaits, Free
    <3>3. httpRequest' \in [kind : Http!CreateFirst \cup Http!ParseFirst,
                           order : {served}, event : BOOLEAN]
      BY <2>2, <3>2
    <3>4. httpRequest' # Http!None
      <4>1. Http!None.order = 0  BY DEF Http!None
      <4>2. httpRequest'.order = served  BY <3>3
      <4> QED  BY <3>2, <4>1, <4>2
    <3>5. orders'[served] \in {"ended executed", "ended rejected"}
      <4>1. o = served  BY <2>2, <3>2
      <4> QED  BY <1>3, <2>2, <4>1
    <3> QED  BY <1>1, <3>1, <3>2, <3>3, <3>4, <3>5 DEF OneWaits, Free
  <2> QED  BY <2>1, <2>2 DEF Moved
<1>6. HttpTypes'  BY <1>1, <1>2, <1>3, <1>5 DEF HttpInv, HttpTypes
<1>7. HeardInTime'
  BY <1>1, <1>2, <1>3, <1>4 DEF HttpInv, HeardInTime
<1>8. Http!StrayOnlyAfterTimeout'
  BY <1>1, <1>4 DEF HttpInv, Http!StrayOnlyAfterTimeout, Moved
<1>9. Http!SuccessMeansDone' /\ Http!OnlyUsersLeak'
  BY <1>1 DEF HttpInv, Http!SuccessMeansDone, Http!OnlyUsersLeak
<1> QED  BY <1>5, <1>6, <1>7, <1>8, <1>9 DEF HttpInv

\* The steps of the manager and of its sink are such moves.
LEMMA SinkStep ==
    ASSUME HttpInv, NEW o \in 1..served,
           \/ \E how \in {"executed", "rejected"} : Http!Execute(o, how)
           \/ Http!Assign(o) \/ Http!SetEvent(o)
    PROVE  HttpInv'
<1>1. ASSUME NEW how \in {"executed", "rejected"}, Http!Execute(o, how) PROVE HttpInv'
  <2>1. Moved(o, how) /\ how \in Http!States \ {"none"}
    BY <1>1 DEF Moved, Http!Execute, Settled, Http!States
  <2> QED  BY <2>1, MovedStep
<1>2. CASE Http!Assign(o)
  <2>1. CASE orders[o] = "executed"
    <3>1. Moved(o, "told executed") /\ "told executed" \in Http!States \ {"none"}
      BY <1>2, <2>1 DEF Moved, Http!Assign, Settled, Http!States
    <3> QED  BY <3>1, MovedStep
  <2>2. CASE orders[o] = "rejected"
    <3>1. Moved(o, "told rejected") /\ "told rejected" \in Http!States \ {"none"}
      BY <1>2, <2>2 DEF Moved, Http!Assign, Settled, Http!States
    <3> QED  BY <3>1, MovedStep
  <2> QED  BY <1>2, <2>1, <2>2 DEF Http!Assign
<1>3. CASE Http!SetEvent(o)
  <2>1. CASE orders[o] = "told executed"
    <3>1. Moved(o, "ended executed") /\ "ended executed" \in Http!States \ {"none"}
      BY <1>3, <2>1 DEF Moved, Http!SetEvent, Settled, Http!States
    <3> QED  BY <3>1, MovedStep
  <2>2. CASE orders[o] = "told rejected"
    <3>1. Moved(o, "ended rejected") /\ "ended rejected" \in Http!States \ {"none"}
      BY <1>3, <2>2 DEF Moved, Http!SetEvent, Settled, Http!States
    <3> QED  BY <3>1, MovedStep
  <2> QED  BY <1>3, <2>1, <2>2 DEF Http!SetEvent, Http!Told
<1> QED  BY <1>1, <1>2, <1>3

\* The two ends of a wait.
Ended(a) ==
    /\ Reply(a)
    /\ a.answer = "success" => a.done
    /\ httpRequest' = Http!None /\ UNCHANGED <<served, orders, short, httpStray, leaks>>
    /\ \/ /\ timedOut' = timedOut /\ orders[served] \in Settled
          /\ orders[served] = "ended executed" => a.answer = "success"
       \/ timedOut' = timedOut \cup {served}

\* The end of a wait, answered or not, keeps the invariant.
LEMMA EndedStep ==
    ASSUME HttpInv, ~Free, NEW a \in Answered, Ended(a)
    PROVE  HttpInv'
<1> USE SampleAssumption
<1>1. /\ served \in Nat /\ served # 0 /\ dead = "no" /\ Len(answers) = served - 1
      /\ answers \in Seq(Answered) /\ DOMAIN answers = 1..(served - 1)
  <2>1. served # 0 /\ dead = "no"  BY DEF HttpInv, OneWaits
  <2>2. served \in Nat /\ answers \in Seq(Answered) /\ Len(answers) = served - 1
    BY DEF HttpInv, HttpTypes
  <2> QED  BY <2>1, <2>2
<1>2. /\ answers' \in Seq(Answered) /\ Len(answers') = served /\ DOMAIN answers' = 1..served
      /\ answers'[served] = a /\ \A i \in 1..(served - 1) : answers'[i] = answers[i]
  <2>1. answers' = Append(answers, a)  BY DEF Ended, Reply
  <2> QED  BY <1>1, <2>1, AnswerAdded
<1>3. Free' /\ OneWaits'  BY DEF Ended, Free, OneWaits
<1>4. /\ served' = served /\ orders' = orders /\ short' = short /\ httpStray' = httpStray
      /\ leaks' = leaks /\ dead' = "no"
  BY <1>1 DEF Ended, Reply
<1>5. timedOut \subseteq timedOut' /\ timedOut' \subseteq 1..served
  <2>1. timedOut' = timedOut \/ timedOut' = timedOut \cup {served}  BY DEF Ended
  <2>2. timedOut \subseteq 1..served  BY DEF HttpInv, HttpTypes
  <2>3. served \in 1..served  BY <1>1
  <2> QED  BY <2>1, <2>2, <2>3
<1>6. HttpTypes'  BY <1>1, <1>2, <1>3, <1>4, <1>5 DEF HttpInv, HttpTypes
<1>7. \A i \in 1..served : i \in 1..(served - 1) \/ i = served  BY <1>1
<1>8. HeardInTime'
  <2>1. ASSUME NEW i \in 1..(served - 1), i \notin timedOut
        PROVE  /\ orders[i] \in Settled
               /\ orders[i] = "ended executed" => answers'[i].answer = "success"
    BY <1>1, <1>2, <2>1 DEF HttpInv, HeardInTime
  <2>2. served \notin timedOut' => /\ orders[served] \in Settled
                                   /\ orders[served] = "ended executed" => a.answer = "success"
    BY DEF Ended
  <2> QED  BY <1>2, <1>4, <1>5, <1>7, <2>1, <2>2 DEF HeardInTime
<1>9. Http!SuccessMeansDone'
  <2>1. a.answer = "success" => a.done  BY DEF Ended
  <2> QED  BY <1>1, <1>2, <1>7, <2>1 DEF HttpInv, Http!SuccessMeansDone
<1>10. Http!StrayOnlyAfterTimeout' /\ Http!OnlyUsersLeak'
  BY <1>4, <1>5 DEF HttpInv, Http!StrayOnlyAfterTimeout, Http!OnlyUsersLeak
<1> QED  BY <1>3, <1>6, <1>8, <1>9, <1>10 DEF HttpInv

\* An order was executed or it was not.
LEMMA ExecutedOrNot == \A o : Http!Executed(o) \in BOOLEAN
<1>1. \A x, S : (x \in S) \in BOOLEAN
  OBVIOUS
<1> QED  BY <1>1 DEF Http!Executed

\* What a handler answers at the end of its wait.
LEMMA EndIsEnded ==
    ASSUME HttpInv, ~Free, NEW answer \in {"success", "empty", "failure"},
           Http!EndOrder(answer), answer = "success" => Http!Executed(served),
           \/ /\ timedOut' = timedOut /\ orders[served] \in Settled
              /\ orders[served] = "ended executed" => answer = "success"
           \/ timedOut' = timedOut \cup {served}
    PROVE  HttpInv'
<1> DEFINE a == [kind |-> httpRequest.kind, answer |-> answer, done |-> Http!Executed(served)]
<1>1. httpRequest.order = served /\ httpRequest.kind \in Kinds
  BY DEF HttpInv, OneWaits, Kinds, Http!g_service_interface_apimap
<1>2. Http!Executed(served) \in BOOLEAN
  BY ExecutedOrNot
<1>3. a \in Answered  BY <1>1, <1>2 DEF Answered
<1>4. a.answer = answer /\ (a.done <=> Http!Executed(served))
  BY <1>2
<1>5. /\ answers' = Append(answers, a) /\ dead' = dead
      /\ leaks' = leaks
  BY <1>1 DEF Http!EndOrder, Http!Answer
<1>6. httpRequest' = Http!None /\ UNCHANGED <<served, orders, short, httpStray>>
  BY DEF Http!EndOrder
<1> HIDE DEF a
<1>7. Ended(a)  BY <1>4, <1>5, <1>6 DEF Ended, Reply
<1> QED  BY <1>3, <1>7, EndedStep

\* The wait of on_http ends one of these two ways.
LEMMA WaitStep ==
    ASSUME HttpInv, Http!WaitAnswered \/ Http!WaitTimesOut PROVE HttpInv'
<1>1. \A k : Http!Silence(k) \in {"empty", "failure"}
  BY DEF Http!Silence
<1>2. ~Free
  <2>1. ~Http!None.event  BY DEF Http!None
  <2> QED  BY <2>1 DEF Http!WaitAnswered, Http!WaitTimesOut, Free
<1>3. httpRequest.order = served
  BY <1>2 DEF HttpInv, OneWaits
<1>4. CASE Http!WaitTimesOut
  <2>1. Http!EndOrder(Http!Silence(httpRequest.kind)) /\ timedOut' = timedOut \cup {served}
    BY <1>3, <1>4 DEF Http!WaitTimesOut
  <2> QED  BY <1>1, <1>2, <2>1, EndIsEnded
<1>5. CASE Http!WaitAnswered
  <2>1. timedOut' = timedOut /\ orders[served] \in {"ended executed", "ended rejected"}
    BY <1>2, <1>5 DEF Http!WaitAnswered, HttpInv, OneWaits
  <2>2. CASE orders[served] = "ended executed"
    <3>1. Http!EndOrder("success") /\ Http!Executed(served)
      BY <1>3, <1>5, <2>2 DEF Http!WaitAnswered, Http!Executed
    <3> QED  BY <1>2, <2>1, <2>2, <3>1, EndIsEnded DEF Settled
  <2>3. CASE orders[served] = "ended rejected"
    <3>1. Http!EndOrder(Http!Silence(httpRequest.kind))
      BY <1>3, <1>5, <2>3 DEF Http!WaitAnswered
    <3> QED  BY <1>1, <1>2, <2>1, <2>3, <3>1, EndIsEnded DEF Settled
  <2> QED  BY <2>1, <2>2, <2>3
<1> QED  BY <1>4, <1>5

\* No request has come.
LEMMA HttpInit == Http!Init => HttpInv
<1> SUFFICES ASSUME Http!Init PROVE HttpInv
  OBVIOUS
<1> USE SampleAssumption DEF Http!Init
<1>1. HttpTypes  BY DEF HttpTypes, Free
<1>2. OneWaits /\ HeardInTime  BY DEF OneWaits, Free, HeardInTime
<1>3. Http!SuccessMeansDone /\ Http!StrayOnlyAfterTimeout /\ Http!OnlyUsersLeak
  BY DEF Http!SuccessMeansDone, Http!StrayOnlyAfterTimeout, Http!OnlyUsersLeak
<1> QED  BY <1>1, <1>2, <1>3 DEF HttpInv

\* Every step of the interface keeps its invariant.
LEMMA HttpStep == HttpInv /\ [Http!Next]_Http!vars => HttpInv'
<1> SUFFICES ASSUME HttpInv, [Http!Next]_Http!vars PROVE HttpInv'
  OBVIOUS
<1>1. CASE Simple  BY <1>1, SimpleIsImmediate, ImmediateStep
<1>2. CASE Ordered  BY <1>2, OrderIsImmediateOrSent, ImmediateStep, SendStep
<1>3. CASE Http!WaitAnswered \/ Http!WaitTimesOut  BY <1>3, WaitStep
<1>4. CASE \E o \in 1..served : \/ \E how \in {"executed", "rejected"} : Http!Execute(o, how)
                                \/ Http!Assign(o) \/ Http!SetEvent(o)
  BY <1>4, SinkStep
<1>5. CASE UNCHANGED Http!vars
  <2>1. HttpTypes' /\ (Free <=> Free') /\ OneWaits' /\ HeardInTime'
    BY <1>5 DEF HttpInv, HttpTypes, Free, OneWaits, HeardInTime, Http!vars
  <2>2. Http!SuccessMeansDone' /\ Http!StrayOnlyAfterTimeout' /\ Http!OnlyUsersLeak'
    BY <1>5 DEF HttpInv, Http!SuccessMeansDone, Http!StrayOnlyAfterTimeout, Http!OnlyUsersLeak,
       Http!vars
  <2> QED  BY <2>1, <2>2 DEF HttpInv
<1> QED  BY <1>1, <1>2, <1>3, <1>4, <1>5 DEF Http!Next, Simple, Ordered

\* What the invariant says of the clients that were told.
LEMMA HttpSound == HttpInv => HttpIsSound
<1> SUFFICES ASSUME HttpInv PROVE HttpIsSound
  OBVIOUS
<1>1. Http!TypeOK
  <2>1. \A i \in DOMAIN answers : answers[i].kind \in Kinds
    <3>1. \A i \in DOMAIN answers : answers[i] \in Answered  BY DEF HttpInv, HttpTypes
    <3> QED  BY <3>1 DEF Answered
  <2>2. \A i \in DOMAIN answers : answers[i].kind \in Http!g_service_interface_apimap
                                      \cup {"unknown path", "other method", "options"}
    BY <2>1 DEF Kinds
  <2>3. ~Free => httpRequest.order = served /\ orders[served] # "none"
    BY DEF HttpInv, OneWaits
  <2> QED  BY <2>2, <2>3 DEF HttpInv, HttpTypes, Free, Http!TypeOK
<1>2. Http!UntoldOnlyByTimeout
  <2>1. \A o : Http!Executed(o) /\ orders[o] \in Settled => orders[o] = "ended executed"
    BY DEF Http!Executed, Settled
  <2> QED  BY <2>1 DEF HttpInv, HeardInTime, Http!UntoldOnlyByTimeout
<1> QED  BY <1>1, <1>2 DEF HttpInv, HttpIsSound, Http!HttpIsSound

\* on_http, whatever the manager does and however long the waits: every request
\* but the last has its answer, success means done but for two requests, and a
\* client who was not told of an executed order is one whose wait timed out.
THEOREM HttpHolds == Http!Spec => []HttpIsSound
<1>1. HttpInv => HttpIsSound  BY HttpSound
<1> QED  BY <1>1, HttpInit, HttpStep, PTL DEF Http!Spec

-----------------------------------------------------------------------------
(* SampleServer: the session map and the push thread's walk through it.     *)

\* The sessions are those of connections that are known; the iterator points
\* into the map or to its end.
Walks ==
    /\ sampleContext \in [Guids -> {"none", "added", "open", "closing", "closed", "deleted"}]
    /\ DOMAIN m_SessionList \subseteq {g \in Guids : sampleContext[g] \notin {"none", "added"}}
    /\ it = 0 \/ it \in DOMAIN m_SessionList
    /\ sampleAt \in {"found", "loop", "send"} => it # 0
    /\ sampleAt = "send" <=> tick # 0
    /\ sampleAt = "clear" => it = 0
    /\ Sample!OpenHasSession

\* How the queue was set, and by which constructor.
Built ==
    /\ constructor = "void" \/ (constructor = "params" /\ queueSet)
    /\ sampleAt = "send" => queueSet
    /\ sampleAt = "crashed" => constructor = "void"
    /\ constructor = "void" /\ ~queueSet => \A g \in Guids : received[g] = <<>>

\* Where the ticks are: each is somewhere, and no tick is in two places; those
\* in the queue are younger than the one in hand, and that one than all that
\* were received.
TickTypes ==
    /\ ticks \in Nat /\ deque \in Seq(1..ticks) /\ tick \in 0..ticks
    /\ received \in [Guids -> Seq(1..ticks)] /\ lost \subseteq 1..ticks

Somewhere(t) ==
    \/ \E i \in DOMAIN deque : deque[i] = t
    \/ t = tick \/ t \in lost
    \/ \E g \in Guids : \E j \in DOMAIN received[g] : received[g][j] = t

NoTickIsGone == \A t \in 1..ticks : Somewhere(t)

QueueInOrder == \A i, j \in DOMAIN deque : i < j => deque[i] < deque[j]

QueueIsLast ==
    \A i \in DOMAIN deque :
        /\ tick < deque[i] /\ deque[i] \notin lost
        /\ \A g \in Guids : \A j \in DOMAIN received[g] : received[g][j] < deque[i]

HandIsNext ==
    tick # 0 => /\ tick \notin lost
                /\ \A g \in Guids : \A j \in DOMAIN received[g] : received[g][j] < tick

ReceivedIsKept == \A g \in Guids : \A j \in DOMAIN received[g] : received[g][j] \notin lost

OneReceiver ==
    \A g, h \in Guids : \A i \in DOMAIN received[g], j \in DOMAIN received[h] :
        received[g][i] = received[h][j] => g = h

TicksAre ==
    /\ TickTypes /\ NoTickIsGone /\ QueueInOrder /\ QueueIsLast
    /\ HandIsNext /\ ReceivedIsKept /\ OneReceiver /\ Sample!TicksInOrder

PushInv == Walks /\ Built /\ TicksAre

\* The server runs, nobody is connected and no tick has come.
LEMMA PushInit == Sample!Init => PushInv
<1> SUFFICES ASSUME Sample!Init PROVE PushInv
  OBVIOUS
<1> USE SampleAssumption
<1>1. Walks  BY DEF Sample!Init, Sample!MyIOCP, Walks, Sample!OpenHasSession
<1>2. Built  BY DEF Sample!Init, Sample!MyIOCP, Built
<1>3. TickTypes /\ \A g \in Guids : received[g] = <<>>
  BY DEF Sample!Init, TickTypes
<1>4. TicksAre
  BY <1>3 DEF Sample!Init, TicksAre, NoTickIsGone, QueueInOrder, QueueIsLast, HandIsNext,
     ReceivedIsKept, OneReceiver, Sample!TicksInOrder
<1> QED  BY <1>1, <1>2, <1>4 DEF PushInv

\* The first guid of some is one of them, and there is none before it.
LEMMA FirstOfThem ==
    ASSUME NEW S, S \subseteq Guids
    PROVE  Sample!First(S) = 0 \/ Sample!First(S) \in S
<1>1. CASE S = {}  BY <1>1 DEF Sample!First
<1>2. CASE S # {}
  <2>1. \E g \in S : \A h \in S : g <= h
    <3>1. S \in SUBSET Nat  BY SampleAssumption
    <3> QED  BY <1>2, <3>1, LeastNatural
  <2> QED  BY <1>2, <2>1 DEF Sample!First
<1> QED  BY <1>1, <1>2

\* The iterator moves to the end of the session list or to a session in it.
LEMMA AfterIsThere == ASSUME Walks PROVE Sample!After(it) = 0 \/ Sample!After(it) \in DOMAIN m_SessionList \ {it}
<1> DEFINE S == {h \in DOMAIN m_SessionList : h > it}
<1>1. S \subseteq Guids /\ S \subseteq DOMAIN m_SessionList  BY DEF Walks
<1>2. it \notin S
  <2>1. it = 0 \/ it \in Guids  BY DEF Walks
  <2>2. Guids \subseteq Nat  BY SampleAssumption
  <2>3. it \in Guids => it \in Nat  BY <2>2
  <2>4. it = 0 => it \in Nat  OBVIOUS
  <2> QED  BY <2>1, <2>3, <2>4
<1>3. Sample!After(it) = Sample!First(S)  BY DEF Sample!After
<1> HIDE DEF S
<1> QED  BY <1>1, <1>2, <1>3, FirstOfThem

\* Steps that leave the ticks alone, and what is left of a connection.
LEMMA TicksKept ==
    ASSUME TicksAre, UNCHANGED <<deque, ticks, tick, received, lost>> PROVE TicksAre'
BY DEF TicksAre, TickTypes, NoTickIsGone, Somewhere, QueueInOrder, QueueIsLast, HandIsNext,
   ReceivedIsKept, OneReceiver, Sample!TicksInOrder

\* A step that neither builds, sets the queue nor hands a tick leaves Built alone.
LEMMA BuiltKept ==
    ASSUME Built, sampleAt' = sampleAt \/ sampleAt' \notin {"send", "crashed"}, 
           UNCHANGED <<received, constructor, queueSet>>
    PROVE  Built'
BY DEF Built

\* The workers' notifications.
Notified(g) ==
    \/ Sample!AddContext(g) \/ Sample!NotifyNewConnection(g) \/ Sample!CloseClient(g)
    \/ Sample!NotifyDisconnectedClient(g) \/ Sample!ReleaseSocketContext(g)
    \/ \E s \in Sample!g_InterfaceMap : Sample!NotifyReceivedFormatPackage(g, s)

\* The notifications change the sessions only, and an open connection keeps its own.
LEMMA NotifiedStep == ASSUME PushInv, NEW g \in Guids, Notified(g) PROVE PushInv'
<1>1. UNCHANGED <<deque, ticks, tick, received, lost, sampleAt, it, constructor, queueSet>>
  BY DEF Notified, Sample!AddContext, Sample!NotifyNewConnection, Sample!CloseClient,
     Sample!NotifyDisconnectedClient, Sample!ReleaseSocketContext,
     Sample!NotifyReceivedFormatPackage, Sample!push, Sample!built
<1>2. Built' /\ TicksAre'  BY <1>1, BuiltKept, TicksKept DEF PushInv
<1>3. \A s : DOMAIN Sample!SetSession(g, s) = DOMAIN m_SessionList
  BY DEF Sample!SetSession
<1>4. /\ \/ DOMAIN m_SessionList' = DOMAIN m_SessionList
         \/ DOMAIN m_SessionList' = DOMAIN m_SessionList \cup {g} /\ sampleContext'[g] = "open"
      /\ sampleContext' = sampleContext \/
            \E c \in {"added", "open", "closing", "closed", "deleted"} :
                /\ sampleContext' = [sampleContext EXCEPT ![g] = c]
                /\ c = "added" => sampleContext[g] = "none"
                /\ c = "open" => g \in DOMAIN m_SessionList'
  <2> USE DEF PushInv, Walks
  <2>1. CASE Sample!AddContext(g)  BY <2>1 DEF Sample!AddContext
  <2>2. CASE Sample!NotifyNewConnection(g)  BY <2>2 DEF Sample!NotifyNewConnection, Sample!Insert
  <2>3. CASE Sample!CloseClient(g)  BY <2>3 DEF Sample!CloseClient
  <2>4. CASE Sample!NotifyDisconnectedClient(g)
    BY <1>3, <2>4 DEF Sample!NotifyDisconnectedClient
  <2>5. CASE Sample!ReleaseSocketContext(g)  BY <2>5 DEF Sample!ReleaseSocketContext
  <2>6. CASE \E s \in Sample!g_InterfaceMap : Sample!NotifyReceivedFormatPackage(g, s)
    BY <1>3, <2>6 DEF Sample!NotifyReceivedFormatPackage
  <2> QED  BY <2>1, <2>2, <2>3, <2>4, <2>5, <2>6 DEF Notified
<1>5. Walks'  BY <1>1, <1>4 DEF PushInv, Walks, Sample!OpenHasSession
<1> QED  BY <1>2, <1>5 DEF PushInv

\* The push thread's walk: steps that take no tick.
Walking ==
    \/ Sample!Wake \/ Sample!GetContext \/ Sample!Erase \/ Sample!Subscriber \/ Sample!NoSubscriber
    \/ Sample!Drained \/ Sample!UseUnsetQueue \/ Sample!EndRound

\* These change neither a tick nor what was received.
LEMMA WalkingStep == ASSUME PushInv, Walking PROVE PushInv'
<1>1. UNCHANGED <<deque, ticks, tick, received, lost, sampleContext, constructor, queueSet>>
  BY DEF Walking, Sample!Wake, Sample!GetContext, Sample!Erase, Sample!Subscriber,
     Sample!NoSubscriber, Sample!Drained, Sample!UseUnsetQueue, Sample!EndRound, Sample!built
<1>2. TicksAre'  BY <1>1, TicksKept DEF PushInv
<1>3. Built'
  <2>1. CASE Sample!UseUnsetQueue
    BY <1>1, <2>1 DEF PushInv, Built, Sample!UseUnsetQueue
  <2>2. CASE ~Sample!UseUnsetQueue
    <3>1. sampleAt' = sampleAt \/ sampleAt' \notin {"send", "crashed"}
      BY <2>2 DEF Walking, Sample!Wake, Sample!GetContext, Sample!Erase, Sample!Subscriber,
         Sample!NoSubscriber, Sample!Drained, Sample!EndRound
    <3> QED  BY <1>1, <3>1, BuiltKept DEF PushInv
  <2> QED  BY <2>1, <2>2
<1>4. Sample!After(it) = 0 \/ Sample!After(it) \in DOMAIN m_SessionList \ {it}
  BY AfterIsThere DEF PushInv
<1>5. Walks'
  <2> USE <1>1 DEF PushInv, Walks, Sample!OpenHasSession
  <2>1. CASE Sample!Wake
    <3>1. DOMAIN m_SessionList \subseteq Guids  OBVIOUS
    <3>2. it' = 0 \/ it' \in DOMAIN m_SessionList  BY <2>1, <3>1, FirstOfThem DEF Sample!Wake
    <3> QED  BY <2>1, <3>2 DEF Sample!Wake
  <2>2. CASE Sample!GetContext  BY <2>2 DEF Sample!GetContext
  <2>3. CASE Sample!Erase
    <3>1. DOMAIN m_SessionList' = DOMAIN m_SessionList \ {it}  BY <2>3 DEF Sample!Erase
    <3>2. it' = 0 \/ it' \in DOMAIN m_SessionList'  BY <1>4, <2>3, <3>1 DEF Sample!Erase
    <3>3. sampleContext[it] # "open" /\ sampleAt' = "visit" /\ sampleAt = "visit"
      BY <2>3 DEF Sample!Erase, Sample!InTable
    <3> QED  BY <3>1, <3>2, <3>3
  <2>4. CASE Sample!Subscriber  BY <2>4 DEF Sample!Subscriber
  <2>5. CASE Sample!NoSubscriber  BY <1>4, <2>5 DEF Sample!NoSubscriber
  <2>6. CASE Sample!Drained  BY <1>4, <2>6 DEF Sample!Drained
  <2>7. CASE Sample!UseUnsetQueue  BY <2>7 DEF Sample!UseUnsetQueue
  <2>8. CASE Sample!EndRound  BY <2>8 DEF Sample!EndRound
  <2> QED  BY <2>1, <2>2, <2>3, <2>4, <2>5, <2>6, <2>7, <2>8 DEF Walking
<1> QED  BY <1>2, <1>3, <1>5 DEF PushInv

\* Nothing moves but how the queue was set.
LEMMA WalksKept ==
    ASSUME Walks, UNCHANGED <<sampleContext, m_SessionList, sampleAt, it, tick>> PROVE Walks'
BY DEF Walks, Sample!OpenHasSession

\* Setting the queue changes nothing else.
LEMMA setDequeParamsStep == ASSUME PushInv, Sample!setDequeParams PROVE PushInv'
<1>1. UNCHANGED <<deque, ticks, tick, received, lost, sampleContext, m_SessionList, sampleAt, it, constructor>>
  BY DEF Sample!setDequeParams, Sample!push
<1>2. Walks' /\ TicksAre'  BY <1>1, TicksKept, WalksKept DEF PushInv
<1>3. Built'  BY <1>1 DEF PushInv, Built, Sample!setDequeParams
<1> QED  BY <1>2, <1>3 DEF PushInv

\* The queue with one more tick, and without its first.
LEMMA TickAppended ==
    ASSUME ticks \in Nat, deque \in Seq(1..ticks)
    PROVE  /\ Append(deque, ticks + 1) \in Seq(1..(ticks + 1))
           /\ DOMAIN Append(deque, ticks + 1) = DOMAIN deque \cup {Len(deque) + 1}
           /\ Append(deque, ticks + 1)[Len(deque) + 1] = ticks + 1
           /\ \A i \in DOMAIN deque : /\ Append(deque, ticks + 1)[i] = deque[i]
                                      /\ i \in Nat /\ i < Len(deque) + 1
                                      /\ deque[i] \in 1..ticks /\ deque[i] < ticks + 1
OBVIOUS

\* A new tick is later than all others and goes behind them in the queue.
LEMMA OnTickStep == ASSUME PushInv, Sample!OnTick PROVE PushInv'
<1>1. /\ ticks' = ticks + 1 /\ deque' = Append(deque, ticks + 1)
      /\ UNCHANGED <<sampleContext, m_SessionList, sampleAt, it, tick, received, lost, constructor, queueSet>>
  BY DEF Sample!OnTick, Sample!Queue, Sample!push, Sample!built
<1>2. Walks' /\ Built'  BY <1>1, WalksKept DEF PushInv, Built
<1>3. TickTypes  BY DEF PushInv, TicksAre
<1>4. /\ deque' \in Seq(1..(ticks + 1))
      /\ DOMAIN deque' = DOMAIN deque \cup {Len(deque) + 1}
      /\ deque'[Len(deque) + 1] = ticks + 1
      /\ \A i \in DOMAIN deque : deque'[i] = deque[i] /\ deque[i] < ticks + 1
      /\ \A i \in DOMAIN deque : i \in Nat /\ i < Len(deque) + 1
  BY <1>1, <1>3, TickAppended DEF TickTypes
<1>5. ticks \in Nat /\ tick \in 0..ticks /\ lost \subseteq 1..ticks
      /\ \A g \in Guids : \A j \in DOMAIN received[g] : received[g][j] \in 1..ticks
  BY <1>3 DEF TickTypes
<1>6. TickTypes'
  <2>1. 1..ticks \subseteq 1..(ticks + 1) /\ 0..ticks \subseteq 0..(ticks + 1)  BY <1>5
  <2>2. received' \in [Guids -> Seq(1..(ticks + 1))]  BY <1>1, <1>3, <2>1 DEF TickTypes
  <2> QED  BY <1>1, <1>4, <1>5, <2>1, <2>2 DEF TickTypes
<1>7. NoTickIsGone'
  <2>1. ASSUME NEW t \in 1..ticks PROVE Somewhere(t)'
    <3>1. Somewhere(t)  BY DEF PushInv, TicksAre, NoTickIsGone
    <3> QED  BY <1>1, <1>4, <3>1 DEF Somewhere
  <2>2. ASSUME NEW t, t = ticks + 1 PROVE Somewhere(t)'
    <3>1. \E i \in DOMAIN deque' : deque'[i] = ticks + 1  BY <1>4
    <3> QED  BY <2>2, <3>1 DEF Somewhere
  <2>3. \A t \in 1..(ticks + 1) : t \in 1..ticks \/ t = ticks + 1  BY <1>5
  <2> QED  BY <1>1, <2>1, <2>2, <2>3 DEF NoTickIsGone
<1>8. QueueInOrder'
  <2>1. QueueInOrder  BY DEF PushInv, TicksAre
  <2>2. \A i \in DOMAIN deque : ~(Len(deque) + 1 < i)  BY <1>4
  <2>3. ~(Len(deque) + 1 < Len(deque) + 1)  BY <1>3 DEF TickTypes
  <2> QED  BY <1>4, <2>1, <2>2, <2>3 DEF QueueInOrder
<1>9. QueueIsLast'
  <2>1. QueueIsLast  BY DEF PushInv, TicksAre
  <2>2. /\ tick < ticks + 1 /\ ticks + 1 \notin lost
        /\ \A g \in Guids : \A j \in DOMAIN received[g] : received[g][j] < ticks + 1
    BY <1>5
  <2> QED  BY <1>1, <1>4, <2>1, <2>2 DEF QueueIsLast
<1>10. HandIsNext' /\ ReceivedIsKept' /\ OneReceiver' /\ Sample!TicksInOrder'
  BY <1>1 DEF PushInv, TicksAre, HandIsNext, ReceivedIsKept, OneReceiver, Sample!TicksInOrder
<1> QED  BY <1>2, <1>6, <1>7, <1>8, <1>9, <1>10 DEF PushInv, TicksAre

\* Nobody was in the map: what was queued is lost.
LEMMA ClearStep == ASSUME PushInv, Sample!Clear PROVE PushInv'
<1>1. /\ sampleAt = "clear" /\ sampleAt' = "asleep" /\ deque' = <<>>
      /\ lost' = lost \cup {deque[i] : i \in DOMAIN deque}
      /\ UNCHANGED <<sampleContext, m_SessionList, ticks, it, tick, received, constructor, queueSet>>
  BY DEF Sample!Clear, Sample!built
<1>2. Walks' /\ Built'  BY <1>1, BuiltKept DEF PushInv, Walks, Sample!OpenHasSession
<1>3. tick = 0  BY <1>1 DEF PushInv, Walks
<1>4. TickTypes  BY DEF PushInv, TicksAre
<1>5. TickTypes'
  <2>1. \A i \in DOMAIN deque : deque[i] \in 1..ticks  BY <1>4 DEF TickTypes
  <2>2. deque' \in Seq(1..ticks)  BY <1>1
  <2> QED  BY <1>1, <1>4, <2>1, <2>2 DEF TickTypes
<1>6. NoTickIsGone'  BY <1>1 DEF PushInv, TicksAre, NoTickIsGone, Somewhere
<1>7. QueueInOrder' /\ QueueIsLast' /\ HandIsNext'
  BY <1>1, <1>3 DEF QueueInOrder, QueueIsLast, HandIsNext
<1>8. ReceivedIsKept'
  <2>1. \A i \in DOMAIN deque : \A g \in Guids : \A j \in DOMAIN received[g] : received[g][j] # deque[i]
    <3>1. \A i \in DOMAIN deque : deque[i] \in Nat  BY <1>4 DEF TickTypes
    <3>2. \A g \in Guids : \A j \in DOMAIN received[g] : received[g][j] \in Nat  BY <1>4 DEF TickTypes
    <3> QED  BY <3>1, <3>2 DEF PushInv, TicksAre, QueueIsLast
  <2> QED  BY <1>1, <2>1 DEF PushInv, TicksAre, ReceivedIsKept
<1>9. OneReceiver' /\ Sample!TicksInOrder'
  BY <1>1 DEF PushInv, TicksAre, OneReceiver, Sample!TicksInOrder
<1> QED  BY <1>2, <1>5, <1>6, <1>7, <1>8, <1>9 DEF PushInv, TicksAre

\* The queue without its first tick.
LEMMA TickTaken ==
    ASSUME NEW n \in Nat, deque \in Seq(1..n), deque # <<>>
    PROVE  /\ Tail(deque) \in Seq(1..n) /\ Head(deque) = deque[1] /\ 1 \in DOMAIN deque
           /\ \A i \in DOMAIN Tail(deque) : /\ Tail(deque)[i] = deque[i + 1]
                                            /\ i + 1 \in DOMAIN deque /\ 1 < i + 1 /\ i \in Int
           /\ \A i \in DOMAIN deque : i = 1 \/ (i - 1 \in DOMAIN Tail(deque) /\ (i - 1) + 1 = i)
OBVIOUS

\* The tick that is taken is the first of the queue, earlier than what stays there.
LEMMA TakeStep == ASSUME PushInv, Sample!Take PROVE PushInv'
<1>1. /\ sampleAt = "loop" /\ queueSet /\ deque # <<>> /\ sampleAt' = "send"
      /\ tick' = Head(deque) /\ deque' = Tail(deque)
      /\ UNCHANGED <<sampleContext, m_SessionList, ticks, it, received, lost, constructor, queueSet>>
  BY DEF Sample!Take, Sample!built
<1>2. TickTypes  BY DEF PushInv, TicksAre
<1>3. /\ deque' \in Seq(1..ticks) /\ tick' = deque[1] /\ 1 \in DOMAIN deque
      /\ \A i \in DOMAIN deque' : deque'[i] = deque[i + 1] /\ i + 1 \in DOMAIN deque /\ 1 < i + 1 /\ i \in Int
      /\ \A i \in DOMAIN deque : i = 1 \/ (i - 1 \in DOMAIN deque' /\ (i - 1) + 1 = i)
  BY <1>1, <1>2, TickTaken DEF TickTypes
<1>4. tick' \in 1..ticks /\ tick' # 0 /\ ticks \in Nat
  BY <1>2, <1>3 DEF TickTypes
<1>5. Walks' /\ Built'
  BY <1>1, <1>4 DEF PushInv, Walks, Sample!OpenHasSession, Built
<1>6. TickTypes'  BY <1>1, <1>2, <1>3, <1>4 DEF TickTypes
<1>7. NoTickIsGone'
  <2>1. ASSUME NEW t \in 1..ticks PROVE Somewhere(t)'
    <3>1. Somewhere(t) /\ t # tick
      <4>1. tick = 0  BY <1>1 DEF PushInv, Walks
      <4> QED  BY <4>1 DEF PushInv, TicksAre, NoTickIsGone
    <3>2. ASSUME NEW i \in DOMAIN deque, deque[i] = t PROVE Somewhere(t)'
      <4>1. CASE i = 1  BY <1>3, <3>2, <4>1 DEF Somewhere
      <4>2. CASE i # 1
        <5>1. i - 1 \in DOMAIN deque' /\ deque'[i - 1] = deque[i]  BY <1>3, <4>2
        <5> QED  BY <3>2, <5>1 DEF Somewhere
      <4> QED  BY <4>1, <4>2
    <3>3. CASE t \in lost  BY <1>1, <3>3 DEF Somewhere
    <3>4. CASE \E g \in Guids : \E j \in DOMAIN received[g] : received[g][j] = t
      BY <1>1, <3>4 DEF Somewhere
    <3> QED  BY <3>1, <3>2, <3>3, <3>4 DEF Somewhere
  <2> QED  BY <1>1, <2>1 DEF NoTickIsGone
<1>8. QueueInOrder'
  <2>1. QueueInOrder  BY DEF PushInv, TicksAre
  <2>2. ASSUME NEW i \in DOMAIN deque', NEW j \in DOMAIN deque', i < j PROVE deque'[i] < deque'[j]
    <3>1. i + 1 < j + 1  BY <1>3, <2>2
    <3> QED  BY <1>3, <2>1, <3>1 DEF QueueInOrder
  <2> QED  BY <2>2 DEF QueueInOrder
<1>9. QueueIsLast'
  <2>1. QueueIsLast /\ QueueInOrder  BY DEF PushInv, TicksAre
  <2>2. ASSUME NEW i \in DOMAIN deque'
        PROVE  /\ tick' < deque'[i] /\ deque'[i] \notin lost
               /\ \A g \in Guids : \A j \in DOMAIN received[g] : received[g][j] < deque'[i]
    <3>1. deque'[i] = deque[i + 1] /\ i + 1 \in DOMAIN deque /\ 1 < i + 1  BY <1>3
    <3>2. deque[1] < deque[i + 1]  BY <1>3, <2>1, <3>1 DEF QueueInOrder
    <3> QED  BY <1>3, <2>1, <3>1, <3>2 DEF QueueIsLast
  <2> QED  BY <1>1, <2>2 DEF QueueIsLast
<1>10. HandIsNext'
  BY <1>1, <1>3 DEF PushInv, TicksAre, QueueIsLast, HandIsNext
<1>11. ReceivedIsKept' /\ OneReceiver' /\ Sample!TicksInOrder'
  BY <1>1 DEF PushInv, TicksAre, ReceivedIsKept, OneReceiver, Sample!TicksInOrder
<1> QED  BY <1>5, <1>6, <1>7, <1>8, <1>9, <1>10, <1>11 DEF PushInv, TicksAre

\* What a connection received, with one more tick.
Handed == [received EXCEPT ![it] = Append(@, tick)]

\* A tick handed to a connection is later than those handed before it.
LEMMA HandedTick ==
    ASSUME ticks \in Nat, received \in [Guids -> Seq(1..ticks)], it \in Guids, tick \in 1..ticks
    PROVE  /\ Handed \in [Guids -> Seq(1..ticks)]
           /\ \A g \in Guids : g # it => Handed[g] = received[g]
           /\ DOMAIN Handed[it] = DOMAIN received[it] \cup {Len(received[it]) + 1}
           /\ Handed[it][Len(received[it]) + 1] = tick
           /\ \A j \in DOMAIN received[it] : /\ Handed[it][j] = received[it][j]
                                             /\ j < Len(received[it]) + 1 /\ j \in Nat
           /\ Len(received[it]) \in Nat
<1>1. received[it] \in Seq(1..ticks)  OBVIOUS
<1>2. Append(received[it], tick) \in Seq(1..ticks)  BY <1>1
<1>3. /\ Handed \in [Guids -> Seq(1..ticks)] /\ Handed[it] = Append(received[it], tick)
      /\ \A g \in Guids : g # it => Handed[g] = received[g]
  BY <1>2 DEF Handed
<1>4. /\ DOMAIN Append(received[it], tick) = DOMAIN received[it] \cup {Len(received[it]) + 1}
      /\ Append(received[it], tick)[Len(received[it]) + 1] = tick
      /\ \A j \in DOMAIN received[it] : /\ Append(received[it], tick)[j] = received[it][j]
                                        /\ j < Len(received[it]) + 1 /\ j \in Nat
      /\ Len(received[it]) \in Nat
  BY <1>1
<1> QED  BY <1>3, <1>4

\* The tick in hand is sent to the session, or lost with its connection.
LEMMA SendExStep == ASSUME PushInv, Sample!SendEx PROVE PushInv'
<1>1. /\ sampleAt = "send" /\ sampleAt' = "loop" /\ tick' = 0
      /\ UNCHANGED <<sampleContext, m_SessionList, deque, ticks, it, constructor, queueSet>>
      /\ \/ received' = Handed /\ lost' = lost
         \/ received' = received /\ lost' = lost \cup {tick}
  BY DEF Sample!SendEx, Sample!built, Handed
<1>2. TickTypes /\ tick \in 1..ticks /\ it \in Guids /\ queueSet
  <2>1. TickTypes /\ tick # 0  BY <1>1 DEF PushInv, TicksAre, Walks
  <2>2. it \in Guids /\ queueSet  BY <1>1 DEF PushInv, Walks, Built
  <2> QED  BY <2>1, <2>2 DEF TickTypes
<1>3. Walks' /\ Built'
  BY <1>1, <1>2 DEF PushInv, Walks, Sample!OpenHasSession, Built
<1>4. QueueInOrder' /\ HandIsNext'
  BY <1>1 DEF PushInv, TicksAre, QueueInOrder, HandIsNext
<1>5. QueueIsLast /\ HandIsNext /\ ReceivedIsKept /\ OneReceiver /\ NoTickIsGone /\ Sample!TicksInOrder
  BY DEF PushInv, TicksAre
<1>6. \A i \in DOMAIN deque : deque[i] \in Nat /\ 0 < deque[i]  BY <1>2 DEF TickTypes
<1>7. \A g \in Guids : \A j \in DOMAIN received[g] :
          received[g][j] \in Nat /\ received[g][j] < tick /\ received[g][j] # tick
  BY <1>2, <1>5 DEF TickTypes, HandIsNext
<1>8. CASE received' = received /\ lost' = lost \cup {tick}
  <2>1. TickTypes'  BY <1>1, <1>2, <1>8 DEF TickTypes
  <2>2. NoTickIsGone'  BY <1>1, <1>5, <1>8 DEF NoTickIsGone, Somewhere
  <2>3. QueueIsLast'
    <3>1. \A i \in DOMAIN deque : deque[i] # tick  BY <1>2, <1>5, <1>6 DEF QueueIsLast
    <3> QED  BY <1>1, <1>5, <1>6, <1>8, <3>1 DEF QueueIsLast
  <2>4. ReceivedIsKept'  BY <1>1, <1>5, <1>7, <1>8 DEF ReceivedIsKept
  <2>5. OneReceiver' /\ Sample!TicksInOrder'
    BY <1>1, <1>5, <1>8 DEF OneReceiver, Sample!TicksInOrder
  <2> QED  BY <1>3, <1>4, <2>1, <2>2, <2>3, <2>4, <2>5 DEF PushInv, TicksAre
<1>9. CASE received' = Handed /\ lost' = lost
  <2> DEFINE last == Len(received[it]) + 1
  <2>1. /\ received' \in [Guids -> Seq(1..ticks)]
        /\ \A g \in Guids : g # it => received'[g] = received[g]
        /\ DOMAIN received'[it] = DOMAIN received[it] \cup {last}
        /\ received'[it][last] = tick
        /\ \A j \in DOMAIN received[it] : received'[it][j] = received[it][j] /\ j < last /\ j \in Nat
        /\ last \in Nat
    BY <1>2, <1>9, HandedTick DEF TickTypes
  <2> HIDE DEF last
  <2>2. \A g \in Guids : \A j \in DOMAIN received'[g] :
            \/ j \in DOMAIN received[g] /\ received'[g][j] = received[g][j]
            \/ g = it /\ j = last /\ received'[g][j] = tick
    BY <2>1
  <2>3. \A g \in Guids : \A j \in DOMAIN received[g] :
            j \in DOMAIN received'[g] /\ received'[g][j] = received[g][j]
    BY <2>1
  <2>4. TickTypes'  BY <1>1, <1>2, <1>9, <2>1 DEF TickTypes
  <2>5. NoTickIsGone'
    <3>1. ASSUME NEW t \in 1..ticks PROVE Somewhere(t)'
      <4>1. Somewhere(t)  BY <1>5 DEF NoTickIsGone
      <4>2. CASE t = tick
        <5>1. last \in DOMAIN received'[it] /\ received'[it][last] = t  BY <2>1, <4>2
        <5> QED  BY <1>2, <5>1 DEF Somewhere
      <4>3. CASE \E g \in Guids : \E j \in DOMAIN received[g] : received[g][j] = t
        <5>1. \E g \in Guids : \E j \in DOMAIN received'[g] : received'[g][j] = t  BY <2>3, <4>3
        <5> QED  BY <5>1 DEF Somewhere
      <4>4. CASE t \in lost \/ \E i \in DOMAIN deque : deque[i] = t
        BY <1>1, <1>9, <4>4 DEF Somewhere
      <4> QED  BY <4>1, <4>2, <4>3, <4>4 DEF Somewhere
    <3> QED  BY <1>1, <3>1 DEF NoTickIsGone
  <2>6. QueueIsLast'
    <3>1. ASSUME NEW i \in DOMAIN deque, NEW g \in Guids, NEW j \in DOMAIN received'[g]
          PROVE  received'[g][j] < deque[i]
      BY <1>5, <2>2 DEF QueueIsLast
    <3> QED  BY <1>1, <1>5, <1>6, <1>9, <3>1 DEF QueueIsLast
  <2>7. ReceivedIsKept'
    <3>1. tick \notin lost  BY <1>2, <1>5 DEF HandIsNext
    <3> QED  BY <1>5, <1>9, <2>2, <3>1 DEF ReceivedIsKept
  <2>8. OneReceiver'
    <3>1. ASSUME NEW g \in Guids, NEW h \in Guids,
                 NEW i \in DOMAIN received'[g], NEW j \in DOMAIN received'[h],
                 received'[g][i] = received'[h][j]
          PROVE  g = h
      <4>1. CASE i \in DOMAIN received[g] /\ received'[g][i] = received[g][i]
        <5>1. received'[h][j] # tick  BY <1>7, <3>1, <4>1
        <5> QED  BY <1>5, <2>2, <3>1, <4>1, <5>1 DEF OneReceiver
      <4>2. CASE g = it /\ received'[g][i] = tick
        <5>1. ~(j \in DOMAIN received[h] /\ received'[h][j] = received[h][j])  BY <1>7, <3>1, <4>2
        <5> QED  BY <2>2, <4>2, <5>1
      <4> QED  BY <2>2, <4>1, <4>2
    <3> QED  BY <3>1 DEF OneReceiver
  <2>9. Sample!TicksInOrder'
    <3>1. ASSUME NEW g \in Guids, NEW i \in DOMAIN received'[g], NEW j \in DOMAIN received'[g], i < j
          PROVE  received'[g][i] < received'[g][j]
      <4>1. CASE i \in DOMAIN received[g] /\ j \in DOMAIN received[g]
        BY <1>5, <2>3, <3>1, <4>1 DEF Sample!TicksInOrder
      <4>2. CASE i \in DOMAIN received[g] /\ g = it /\ j = last /\ received'[g][j] = tick
        BY <1>7, <2>3, <4>2
      <4>3. CASE g = it /\ i = last
        <5>1. \A k \in DOMAIN received'[it] : ~(last < k)  BY <2>1
        <5> QED  BY <3>1, <4>3, <5>1
      <4> QED  BY <2>2, <4>1, <4>2, <4>3
    <3> QED  BY <3>1 DEF Sample!TicksInOrder
  <2> QED  BY <1>3, <1>4, <2>4, <2>5, <2>6, <2>7, <2>8, <2>9 DEF PushInv, TicksAre
<1> QED  BY <1>1, <1>8, <1>9

\* Every step of the sample server keeps the invariant of the push thread.
LEMMA PushStep == PushInv /\ [Sample!Next]_Sample!vars => PushInv'
<1> SUFFICES ASSUME PushInv, [Sample!Next]_Sample!vars PROVE PushInv'
  OBVIOUS
<1>1. ASSUME NEW g \in Guids, Notified(g) PROVE PushInv'  BY <1>1, NotifiedStep
<1>2. CASE Sample!OnTick  BY <1>2, OnTickStep
<1>3. CASE Sample!setDequeParams  BY <1>3, setDequeParamsStep
<1>4. CASE Sample!Push
  <2>1. CASE Walking  BY <2>1, WalkingStep
  <2>2. CASE Sample!Clear  BY <2>2, ClearStep
  <2>3. CASE Sample!Take  BY <2>3, TakeStep
  <2>4. CASE Sample!SendEx  BY <2>4, SendExStep
  <2> QED  BY <1>4, <2>1, <2>2, <2>3, <2>4 DEF Sample!Push, Walking
<1>5. CASE UNCHANGED Sample!vars
  <2>1. UNCHANGED <<deque, ticks, tick, received, lost, sampleContext, m_SessionList, sampleAt, it,
                    constructor, queueSet>>
    BY <1>5 DEF Sample!vars, Sample!push, Sample!built
  <2> QED  BY <2>1, TicksKept, WalksKept, BuiltKept DEF PushInv
<1> QED
  BY <1>1, <1>2, <1>3, <1>4, <1>5 DEF Sample!Next, Sample!PushOfParams, Sample!PushOfVoid, Notified

\* The cardinality of the module's own FiniteSets.
LEMMA CardinalityOfSample == \A S : Sample!Cardinality(S) = Cardinality(S)
BY DEF Sample!Cardinality, Cardinality

\* At most one, and none.
LEMMA OfOne == \A x : Cardinality({x}) = 1
BY FS_Singleton
\* What has no members counts zero.
LEMMA OfNone == \A S : S = {} => Cardinality(S) = 0
BY FS_EmptySet

\* A tick is in one of its four places only.
LEMMA OnePlace == ASSUME PushInv PROVE Sample!EachTickOnce
<1>1. TickTypes /\ NoTickIsGone /\ QueueInOrder /\ QueueIsLast /\ HandIsNext /\ ReceivedIsKept /\ OneReceiver
  BY DEF PushInv, TicksAre
<1>2. ASSUME NEW t \in 1..ticks
      PROVE  Cardinality(Sample!Holders(t)) + Cardinality({t} \cap lost)
               + Cardinality({i \in DOMAIN deque : deque[i] = t}) + Cardinality({t} \cap {tick}) = 1
  <2> DEFINE holders == Sample!Holders(t)
             wasLost == {t} \cap lost
             queued == {i \in DOMAIN deque : deque[i] = t}
             inHand == {t} \cap {tick}
  <2>1. t \in Nat /\ t # 0  BY <1>1 DEF TickTypes
  <2>2. \A i \in DOMAIN deque : /\ deque[i] \in Nat /\ deque[i] # tick /\ i \in Nat
                                /\ deque[i] \notin lost
                                /\ \A g \in Guids : \A j \in DOMAIN received[g] : received[g][j] # deque[i]
    <3>1. \A i \in DOMAIN deque : deque[i] \in Nat /\ i \in Nat  BY <1>1 DEF TickTypes
    <3>2. tick \in Nat /\ \A g \in Guids : \A j \in DOMAIN received[g] : received[g][j] \in Nat
      BY <1>1 DEF TickTypes
    <3> QED  BY <1>1, <3>1, <3>2 DEF QueueIsLast
  <2>3. tick # 0 => /\ tick \notin lost
                    /\ \A g \in Guids : \A j \in DOMAIN received[g] : received[g][j] # tick
    <3>1. tick \in Nat /\ \A g \in Guids : \A j \in DOMAIN received[g] : received[g][j] \in Nat
      BY <1>1 DEF TickTypes
    <3> QED  BY <1>1, <3>1 DEF HandIsNext
  <2>4. CASE \E i \in DOMAIN deque : deque[i] = t
    <3>1. PICK k \in DOMAIN deque : deque[k] = t  BY <2>4
    <3>2. \A i \in DOMAIN deque : deque[i] = t => i = k
      <4>1. ASSUME NEW i \in DOMAIN deque, deque[i] = t, i # k PROVE FALSE
        <5>1. i < k \/ k < i  BY <2>2, <4>1
        <5>2. deque[i] < deque[k] \/ deque[k] < deque[i]  BY <1>1, <5>1 DEF QueueInOrder
        <5> QED  BY <2>1, <3>1, <4>1, <5>2
      <4> QED  BY <4>1
    <3>3. queued = {k}  BY <3>1, <3>2
    <3>4. wasLost = {} /\ inHand = {} /\ holders = {}  BY <2>2, <3>1 DEF Sample!Holders
    <3> HIDE DEF holders, wasLost, queued, inHand
    <3>5. Cardinality(queued) = 1 /\ Cardinality(wasLost) = 0 /\ Cardinality(inHand) = 0 /\ Cardinality(holders) = 0
      BY <3>3, <3>4, OfOne, OfNone
    <3>6. Cardinality(holders) + Cardinality(wasLost) + Cardinality(queued) + Cardinality(inHand) = 1
      BY <3>5
    <3> QED  BY <3>6 DEF holders, wasLost, queued, inHand
  <2>5. CASE t = tick
    <3>1. inHand = {t}  BY <2>5
    <3>2. wasLost = {} /\ queued = {} /\ holders = {}  BY <2>1, <2>2, <2>3, <2>5 DEF Sample!Holders
    <3> HIDE DEF holders, wasLost, queued, inHand
    <3>3. Cardinality(queued) = 0 /\ Cardinality(wasLost) = 0 /\ Cardinality(inHand) = 1 /\ Cardinality(holders) = 0
      BY <3>1, <3>2, OfOne, OfNone
    <3>4. Cardinality(holders) + Cardinality(wasLost) + Cardinality(queued) + Cardinality(inHand) = 1
      BY <3>3
    <3> QED  BY <3>4 DEF holders, wasLost, queued, inHand
  <2>6. CASE t \in lost
    <3>1. wasLost = {t}  BY <2>6
    <3>2. inHand = {} /\ queued = {} /\ holders = {}
      BY <1>1, <2>1, <2>2, <2>3, <2>6 DEF Sample!Holders, ReceivedIsKept
    <3> HIDE DEF holders, wasLost, queued, inHand
    <3>3. Cardinality(queued) = 0 /\ Cardinality(wasLost) = 1 /\ Cardinality(inHand) = 0 /\ Cardinality(holders) = 0
      BY <3>1, <3>2, OfOne, OfNone
    <3>4. Cardinality(holders) + Cardinality(wasLost) + Cardinality(queued) + Cardinality(inHand) = 1
      BY <3>3
    <3> QED  BY <3>4 DEF holders, wasLost, queued, inHand
  <2>7. CASE \E g \in Guids : \E j \in DOMAIN received[g] : received[g][j] = t
    <3>1. PICK g \in Guids : \E j \in DOMAIN received[g] : received[g][j] = t  BY <2>7
    <3>2. holders = {g}  BY <1>1, <3>1 DEF Sample!Holders, OneReceiver
    <3>3. wasLost = {} /\ inHand = {} /\ queued = {}
      BY <1>1, <2>1, <2>2, <2>3, <3>1 DEF ReceivedIsKept
    <3> HIDE DEF holders, wasLost, queued, inHand
    <3>4. Cardinality(queued) = 0 /\ Cardinality(wasLost) = 0 /\ Cardinality(inHand) = 0 /\ Cardinality(holders) = 1
      BY <3>2, <3>3, OfOne, OfNone
    <3>5. Cardinality(holders) + Cardinality(wasLost) + Cardinality(queued) + Cardinality(inHand) = 1
      BY <3>4
    <3> QED  BY <3>5 DEF holders, wasLost, queued, inHand
  <2>8. Somewhere(t)  BY <1>1 DEF NoTickIsGone
  <2> QED  BY <2>4, <2>5, <2>6, <2>7, <2>8 DEF Somewhere
<1> QED  BY <1>2, CardinalityOfSample DEF Sample!EachTickOnce

\* What the invariant says of sessions and ticks.
LEMMA PushSound == PushInv => PushIsSound
<1> SUFFICES ASSUME PushInv PROVE PushIsSound
  OBVIOUS
<1>1. Sample!EachTickOnce  BY OnePlace
<1>2. Sample!TypeOK /\ Sample!OpenHasSession  BY DEF PushInv, Walks, Sample!TypeOK
<1>3. Sample!UnsetQueueIsVoid  BY DEF PushInv, Built, Sample!UnsetQueueIsVoid
<1>4. Sample!TicksInOrder  BY DEF PushInv, TicksAre
<1> QED  BY <1>1, <1>2, <1>3, <1>4 DEF PushIsSound, Sample!PushIsSound

\* The push thread among the workers, for any number of connections and ticks:
\* an open connection keeps its session, ticks arrive in order, and each tick is
\* in one place and one only.
THEOREM PushHolds == Sample!Spec => []PushIsSound
<1>1. PushInv => PushIsSound  BY PushSound
<1> QED  BY <1>1, PushInit, PushStep, PTL DEF Sample!Spec

-----------------------------------------------------------------------------
(* MarketStart: the three functions step by step.                           *)

\* The place of each step in its function; what start_main_original never does
\* has a place behind its end.
Length(p) == IF p = "original" THEN 6 ELSE 14
ConstructAt(p, s) == IF p = "tick_order" /\ s = 2 THEN 5 ELSE s + 1
AcceptAt(p, s) == IF p = "original" THEN s + 3 ELSE s + 7
ThreadAt(p, s, k) ==
    (IF k = "quotes" THEN 1 ELSE 0)
        + (IF p = "original" THEN 7 ELSE IF s = 2 THEN 6
           ELSE IF p = "tick_order" THEN 3 ELSE 4)
DetachAt(p, s, k) ==
    (IF k = "quotes" THEN 1 ELSE 0)
        + (IF p = "original" THEN 9 ELSE IF (p = "tick_order") = (s = 2) THEN 10 ELSE 12)

Is(p, i, what, s) == Start!Steps(p)[i].what = what /\ Start!Steps(p)[i].server = s
IsOf(p, i, what, s, k) == Is(p, i, what, s) /\ Start!Steps(p)[i].kind = k

\* The steps of each function are where these operators say, and nowhere else.
LEMMA StepPlaces ==
    ASSUME NEW p \in Start!Programs, NEW i \in 1..Length(p),
           NEW s \in Start!Servers, NEW k \in Start!Kinds
    PROVE  /\ Is(p, i, "construct", s) <=> i = ConstructAt(p, s)
           /\ Is(p, i, "accept", s) <=> i = AcceptAt(p, s)
           /\ IsOf(p, i, "thread", s, k) <=> i = ThreadAt(p, s, k)
           /\ IsOf(p, i, "detach", s, k) <=> i = DetachAt(p, s, k)
           /\ Start!Steps(p)[i].what = "run" <=> i = Length(p)
           /\ Start!Steps(p)[i].what = "address" <=> i = 1
<1> USE DEF Is, IsOf, Start!Servers, Start!Kinds, Length, ConstructAt, AcceptAt, ThreadAt,
            DetachAt, Start!Steps, Start!Address, Start!Construct, Start!Thread,
            Start!Accept, Start!Detach, Start!Run, Start!Step
<1>1. CASE p = "multithread"
  BY <1>1 DEF Start!start_main_multithread
<1>2. CASE p = "original"
  BY <1>2 DEF Start!start_main_original
<1>3. CASE p = "tick_order"
  BY <1>3 DEF Start!start_tick_order
<1> QED BY <1>1, <1>2, <1>3 DEF Start!Programs

\* A server is constructed before it listens and before its threads start, and the
\* functions that have threads detach them before run.
LEMMA StepOrder ==
    ASSUME NEW p \in Start!Programs, NEW s \in Start!Servers, NEW k \in Start!Kinds
    PROVE  /\ Length(p) \in Nat
           /\ ConstructAt(p, s) \in 2..5 /\ AcceptAt(p, s) \in 4..9
           /\ ThreadAt(p, s, k) \in 3..8 /\ DetachAt(p, s, k) \in 9..13
           /\ ConstructAt(p, s) < AcceptAt(p, s) /\ AcceptAt(p, s) < Length(p)
           /\ ConstructAt(p, s) < ThreadAt(p, s, k)
           /\ ThreadAt(p, s, k) < DetachAt(p, s, k)
           /\ p # "original" => DetachAt(p, s, k) < Length(p)
           /\ p = "original" => ThreadAt(p, s, k) > Length(p)
BY DEF Start!Programs, Start!Servers, Start!Kinds, Length, ConstructAt, AcceptAt, ThreadAt,
       DetachAt

\* What the steps behind startPc have done to a server and its threads.
ServerAt(s) ==
    IF startPc <= ConstructAt(program, s) THEN "none"
    ELSE IF startPc <= AcceptAt(program, s) THEN "alive" ELSE "listening"
ThreadOf(s, k) ==
    IF startPc <= ThreadAt(program, s, k) THEN "none"
    ELSE IF startPc <= DetachAt(program, s, k) THEN "attached" ELSE "detached"

StartTypes ==
    /\ program \in Start!Programs /\ startPc \in 0..Length(program)
    /\ startPc = 0 <=> outcome # "none"
    /\ server \in [Start!Servers -> {"none", "alive", "listening", "destroyed"}]
    /\ subscriber \in [Start!Servers -> BOOLEAN]
    /\ startThread \in [Start!Servers -> [Start!Kinds -> {"none", "attached", "detached"}]]
    /\ m_actions \in [Start!Servers -> 0..MaxActions]

\* While the function runs, its place decides everything; when it is left, no
\* server is alive.
StartRuns ==
    startPc # 0 =>
        /\ ~startStray
        /\ \A s \in Start!Servers :
            /\ server[s] = ServerAt(s)
            /\ subscriber[s] <=> startPc > AcceptAt(program, s)
            /\ \A k \in Start!Kinds : startThread[s][k] = ThreadOf(s, k)
StartLeft == startPc = 0 => \A s \in Start!Servers : server[s] \in {"none", "destroyed"}

ContextIsFirst ==
    startContext = {} \/ \E n \in {2, 3, 4, 5, 6} : startContext = Start!FirstSettings(n)

StartInv == StartTypes /\ StartRuns /\ StartLeft /\ ContextIsFirst

\* The function has done none of its steps.
LEMMA StartInit == Start!Init => StartInv
<1> SUFFICES ASSUME Start!Init PROVE StartInv
  OBVIOUS
<1> USE DEF Start!Init
<1>1. StartTypes
  <2>1. program \in Start!Programs /\ startPc \in 0..Length(program)
    BY DEF Start!Programs, Length
  <2>2. 0 \in 0..MaxActions
    BY SampleAssumption
  <2> QED BY <2>1, <2>2 DEF StartTypes
<1>2. StartRuns
  <2> SUFFICES ASSUME NEW s \in Start!Servers, NEW k \in Start!Kinds
               PROVE  /\ server[s] = ServerAt(s)
                      /\ subscriber[s] <=> startPc > AcceptAt(program, s)
                      /\ startThread[s][k] = ThreadOf(s, k)
    BY DEF StartRuns, Start!Kinds
  <2> QED BY StepOrder DEF ServerAt, ThreadOf
<1> QED BY <1>1, <1>2 DEF StartInv, StartLeft, ContextIsFirst

\* Leaving the function keeps the invariant.
LEMMA StartLeaves ==
    ASSUME StartInv, NEW o \in {"returned", "thrown"}, Start!Leave(o)
    PROVE  StartInv'
<1> USE DEF StartInv, Start!Leave, Start!Outside
<1>1. StartTypes'
  <2>1. program' \in Start!Programs /\ startPc' \in 0..Length(program')
    BY StepOrder DEF StartTypes, Start!Servers, Start!Kinds
  <2>2. server' \in [Start!Servers -> {"none", "alive", "listening", "destroyed"}]
    BY DEF StartTypes
  <2>3. startThread' \in [Start!Servers -> [Start!Kinds -> {"none", "attached", "detached"}]]
    BY DEF StartTypes
  <2> QED BY <2>1, <2>2, <2>3 DEF StartTypes
<1>2. StartRuns' /\ StartLeft'
  BY DEF StartRuns, StartLeft, StartTypes, Start!Servers
<1>3. ContextIsFirst'
  BY DEF ContextIsFirst
<1> QED BY <1>1, <1>2, <1>3

\* One step further, a server and a thread are what they were unless the step was
\* theirs.
LEMMA StartAdvances ==
    ASSUME StartInv, startPc # 0, Start!Goes, startPc < Length(program),
           NEW s \in Start!Servers, NEW k \in Start!Kinds
    PROVE  LET step(what) == Is(program, startPc, what, s)
               stepOf(what) == IsOf(program, startPc, what, s, k)
           IN  /\ step("construct") => ServerAt(s)' = "alive"
               /\ step("accept") => ServerAt(s)' = "listening"
               /\ ~step("construct") /\ ~step("accept") => ServerAt(s)' = ServerAt(s)
               /\ (startPc' > AcceptAt(program', s)) <=>
                    step("accept") \/ startPc > AcceptAt(program, s)
               /\ stepOf("thread") => ThreadOf(s, k)' = "attached"
               /\ stepOf("detach") => ThreadOf(s, k)' = "detached"
               /\ ~stepOf("thread") /\ ~stepOf("detach") =>
                    ThreadOf(s, k)' = ThreadOf(s, k)
<1>1. program \in Start!Programs /\ startPc \in 1..Length(program) /\ Length(program) \in Nat
  BY StepOrder DEF StartInv, StartTypes
<1>2. program' = program /\ startPc' = startPc + 1
  BY DEF Start!Goes
<1>3. /\ Is(program, startPc, "construct", s) <=> startPc = ConstructAt(program, s)
      /\ Is(program, startPc, "accept", s) <=> startPc = AcceptAt(program, s)
      /\ IsOf(program, startPc, "thread", s, k) <=> startPc = ThreadAt(program, s, k)
      /\ IsOf(program, startPc, "detach", s, k) <=> startPc = DetachAt(program, s, k)
  BY <1>1, StepPlaces
<1>4. /\ ConstructAt(program, s) \in Nat /\ AcceptAt(program, s) \in Nat
      /\ ThreadAt(program, s, k) \in Nat /\ DetachAt(program, s, k) \in Nat
      /\ ConstructAt(program, s) < AcceptAt(program, s)
      /\ ThreadAt(program, s, k) < DetachAt(program, s, k)
  BY <1>1, StepOrder
<1> QED BY <1>1, <1>2, <1>3, <1>4 DEF ServerAt, ThreadOf

\* The places of a function that runs; only run is at its end.
LEMMA StartPlaces ==
    ASSUME StartInv, startPc # 0
    PROVE  /\ startPc \in 1..Length(program) /\ Length(program) \in Nat
           /\ Start!Steps(program)[startPc].what # "run" => startPc < Length(program)
<1>1. startPc \in 1..Length(program) /\ Length(program) \in Nat /\ program \in Start!Programs
  BY StepOrder DEF StartInv, StartTypes, Start!Servers, Start!Kinds
<1>2. Start!Steps(program)[startPc].what = "run" <=> startPc = Length(program)
  BY <1>1, StepPlaces DEF Start!Servers, Start!Kinds
<1> QED BY <1>1, <1>2

StateTypes ==
    /\ server \in [Start!Servers -> {"none", "alive", "listening", "destroyed"}]
    /\ subscriber \in [Start!Servers -> BOOLEAN]
    /\ startThread \in [Start!Servers -> [Start!Kinds -> {"none", "attached", "detached"}]]

\* What a step of the function that goes on has to show.
LEMMA StartGoes ==
    ASSUME StartInv, Start!Goes, startPc # 0, startPc < Length(program),
           StateTypes', StartRuns'
    PROVE  StartInv'
<1>1. startPc' \in 1..Length(program) /\ program' = program
  BY StartPlaces DEF Start!Goes
<1>2. StartTypes'
  BY <1>1 DEF StartInv, StartTypes, StateTypes, Start!Goes, Start!Outside
<1>3. StartLeft' /\ ContextIsFirst'
  BY <1>1 DEF StartInv, StartLeft, ContextIsFirst, Start!Goes, Start!Outside
<1> QED BY <1>2, <1>3 DEF StartInv

\* Each step of the function that goes on keeps the invariant.
LEMMA StartSteps ==
    ASSUME StartInv,
           \/ Start!FromString /\ UNCHANGED Start!started
           \/ Start!CMarketServer \/ Start!DetachThread
           \/ Start!StartThread \/ Start!start_accept,
           Start!Goes
    PROVE  StartInv'
<1> DEFINE what == Start!Steps(program)[startPc].what
           of == Start!Steps(program)[startPc].server
           kindOf == Start!Steps(program)[startPc].kind
<1>1. startPc # 0 /\ what \in {"address", "construct", "thread", "accept", "detach"}
  BY DEF Start!FromString, Start!CMarketServer, Start!DetachThread, Start!StartThread,
         Start!start_accept, Start!At
<1>2. startPc < Length(program)
  BY <1>1, StartPlaces
<1>3. startStray' = startStray /\ ~startStray
  BY <1>1 DEF Start!Goes, Start!Outside, StartInv, StartRuns
<1>4. StateTypes
  BY DEF StartInv, StartTypes, StateTypes
<1>5. \A s \in Start!Servers :
        /\ server[s] = ServerAt(s)
        /\ subscriber[s] <=> startPc > AcceptAt(program, s)
        /\ \A k \in Start!Kinds : startThread[s][k] = ThreadOf(s, k)
  BY <1>1 DEF StartInv, StartRuns
<1>6. \A s \in Start!Servers, k \in Start!Kinds :
         /\ what = "construct" /\ of = s => ServerAt(s)' = "alive"
         /\ what = "accept" /\ of = s => ServerAt(s)' = "listening"
         /\ ~(what \in {"construct", "accept"} /\ of = s) => ServerAt(s)' = ServerAt(s)
         /\ (startPc' > AcceptAt(program', s)) <=>
                (what = "accept" /\ of = s) \/ startPc > AcceptAt(program, s)
         /\ what = "thread" /\ of = s /\ kindOf = k => ThreadOf(s, k)' = "attached"
         /\ what = "detach" /\ of = s /\ kindOf = k => ThreadOf(s, k)' = "detached"
         /\ ~(what \in {"thread", "detach"} /\ of = s /\ kindOf = k) =>
                ThreadOf(s, k)' = ThreadOf(s, k)
  BY <1>1, <1>2, StartAdvances DEF Is, IsOf
<1> HIDE DEF what, of, kindOf
<1>7. CASE what = "address" /\ UNCHANGED Start!started
  <2>1. StateTypes'
    BY <1>4, <1>7 DEF StateTypes, Start!started
  <2>2. StartRuns'
    BY <1>3, <1>5, <1>6, <1>7 DEF StartRuns, Start!started, Start!Kinds
  <2> QED BY <1>1, <1>2, <2>1, <2>2, StartGoes
<1>8. CASE what = "construct" /\ server' = [server EXCEPT ![of] = "alive"]
           /\ UNCHANGED <<subscriber, startThread>>
  <2>1. StateTypes'
    BY <1>4, <1>8 DEF StateTypes
  <2>2. StartRuns'
    BY <1>3, <1>4, <1>5, <1>6, <1>8 DEF StartRuns, StateTypes, Start!Kinds
  <2> QED BY <1>1, <1>2, <2>1, <2>2, StartGoes
<1>9. CASE what = "accept" /\ server' = [server EXCEPT ![of] = "listening"]
           /\ subscriber' = [subscriber EXCEPT ![of] = TRUE]
           /\ UNCHANGED startThread
  <2>1. StateTypes'
    BY <1>4, <1>9 DEF StateTypes
  <2>2. StartRuns'
    BY <1>3, <1>4, <1>5, <1>6, <1>9 DEF StartRuns, StateTypes, Start!Kinds
  <2> QED BY <1>1, <1>2, <2>1, <2>2, StartGoes
<1>10. ASSUME NEW t \in {"attached", "detached"},
              what = (IF t = "attached" THEN "thread" ELSE "detach"),
              startThread' = [startThread EXCEPT ![of][kindOf] = t],
              UNCHANGED <<server, subscriber>>
       PROVE  StartInv'
  <2>1. StateTypes'
    BY <1>4, <1>10 DEF StateTypes
  <2>2. StartRuns'
    BY <1>3, <1>4, <1>5, <1>6, <1>10 DEF StartRuns, StateTypes, Start!Kinds
  <2> QED BY <1>1, <1>2, <2>1, <2>2, StartGoes
<1>11. ~Start!Leave("returned") /\ ~Start!Leave("thrown")
  BY <1>1, StartPlaces DEF Start!Leave, Start!Goes
<1>12. CASE Start!FromString /\ UNCHANGED Start!started
  BY <1>7, <1>12 DEF what, Start!FromString, Start!At
<1>13. CASE Start!CMarketServer
  BY <1>8, <1>13 DEF what, of, Start!CMarketServer, Start!At, Start!Of
<1>14. CASE Start!DetachThread
  BY <1>10, <1>14 DEF what, of, kindOf, Start!DetachThread, Start!At, Start!Of, Start!Kind
<1>15. CASE Start!StartThread
  BY <1>10, <1>11, <1>15 DEF what, of, kindOf, Start!StartThread, Start!At, Start!Of, Start!Kind
<1>16. CASE Start!start_accept
  BY <1>9, <1>11, <1>16 DEF what, of, Start!start_accept, Start!At, Start!Of
<1> QED BY <1>12, <1>13, <1>14, <1>15, <1>16

\* A thread that began has its server, also after the function was left.
LEMMA ThreadsHaveServers ==
    ASSUME StartInv, startPc # 0, NEW s \in Start!Servers, NEW k \in Start!Kinds,
           startThread[s][k] # "none"
    PROVE  server[s] \in {"alive", "listening"}
<1>1. startPc > ThreadAt(program, s, k)
  BY StartPlaces, StepOrder DEF StartInv, StartTypes, StartRuns, ThreadOf
<1>2. startPc > ConstructAt(program, s)
  BY <1>1, StartPlaces, StepOrder DEF StartInv, StartTypes
<1> QED BY <1>2, StartPlaces, StepOrder DEF StartInv, StartTypes, StartRuns, ServerAt

\* The steps of io_service::run and of the threads.
LEMMA StartServes ==
    ASSUME StartInv,
           \/ Start!on_tls_init_sslv23
           \/ \E s \in Start!Servers :
                \/ Start!on_open(s) \/ Start!process_messages(s)
                \/ Start!process_realtimequote_messages(s)
    PROVE  StartInv'
<1>1. UNCHANGED <<program, startPc, outcome, Start!started>>
  BY DEF Start!on_tls_init_sslv23, Start!on_open, Start!process_messages,
         Start!process_realtimequote_messages
<1>2. StartLeft'
  BY <1>1 DEF StartInv, StartLeft, Start!started
<1>3. m_actions' \in [Start!Servers -> 0..MaxActions]
  <2>1. m_actions \in [Start!Servers -> 0..MaxActions] /\ MaxActions \in Nat
    BY SampleAssumption DEF StartInv, StartTypes
  <2> QED BY <2>1 DEF Start!on_tls_init_sslv23, Start!on_open, Start!process_messages,
                      Start!process_realtimequote_messages
<1>4. StartTypes'
  BY <1>1, <1>3 DEF StartInv, StartTypes, Start!started
<1>5. ContextIsFirst'
  BY DEF StartInv, ContextIsFirst, Start!on_tls_init_sslv23, Start!on_open,
         Start!process_messages, Start!process_realtimequote_messages
<1>6. ASSUME startPc # 0 PROVE ~startStray'
  <2>1. \A s \in Start!Servers : \A k \in Start!Kinds :
            startThread[s][k] # "none" => server[s] # "destroyed"
    BY <1>6, ThreadsHaveServers
  <2>2. ~startStray
    BY <1>6 DEF StartInv, StartRuns
  <2> QED BY <2>1, <2>2 DEF Start!on_tls_init_sslv23, Start!on_open, Start!process_messages,
               Start!process_realtimequote_messages, Start!Kinds
<1>7. StartRuns'
  BY <1>1, <1>6 DEF StartInv, StartRuns, Start!started, ServerAt, ThreadOf
<1> QED BY <1>2, <1>4, <1>5, <1>7 DEF StartInv

\* Each step of the start, and each thread it left running, keeps the invariant.
LEMMA StartNext == StartInv /\ [Start!Next]_startVars => StartInv'
<1> SUFFICES ASSUME StartInv, [Start!Next]_startVars PROVE StartInv'
  OBVIOUS
<1>1. ASSUME Start!FromString \/ Start!StartThread \/ Start!start_accept
             \/ Start!CMarketServer \/ Start!DetachThread
      PROVE  StartInv'
  <2>1. \/ \E o \in {"returned", "thrown"} : Start!Leave(o)
        \/ /\ \/ Start!FromString /\ UNCHANGED Start!started
              \/ Start!CMarketServer \/ Start!DetachThread
              \/ Start!StartThread \/ Start!start_accept
           /\ Start!Goes
    BY <1>1 DEF Start!FromString, Start!StartThread, Start!start_accept,
                Start!CMarketServer, Start!DetachThread
  <2> QED BY <2>1, StartLeaves, StartSteps
<1>2. CASE Start!on_tls_init_sslv23
  BY <1>2, StartServes
<1>3. CASE \E s \in Start!Servers :
                \/ Start!on_open(s) \/ Start!process_messages(s)
                \/ Start!process_realtimequote_messages(s)
  BY <1>3, StartServes
<1>4. CASE UNCHANGED startVars
  BY <1>4 DEF startVars, StartInv, StartTypes, StartRuns, StartLeft, ContextIsFirst,
              ServerAt, ThreadOf
<1>5. CASE Start!on_http
  BY <1>5, StartLeaves DEF Start!on_http
<1> QED BY <1>1, <1>2, <1>3, <1>4, <1>5 DEF Start!Next

\* At io_service::run every step before it was done.
LEMMA AtRun ==
    ASSUME StartInv, Start!At("run"), NEW s \in Start!Servers, NEW k \in Start!Kinds
    PROVE  /\ server[s] = "listening" /\ subscriber[s]
           /\ (startThread[s][k] = "detached") = (program # "original")
<1>1. startPc # 0 /\ startPc \in 1..Length(program) /\ program \in Start!Programs
  BY StartPlaces DEF Start!At, StartInv, StartTypes
<1>2. startPc = Length(program)
  BY <1>1, StepPlaces DEF Start!At
<1>3. /\ server[s] = ServerAt(s)
      /\ subscriber[s] <=> startPc > AcceptAt(program, s)
      /\ startThread[s][k] = ThreadOf(s, k)
  BY <1>1 DEF StartInv, StartRuns
<1>4. /\ startPc > AcceptAt(program, s) /\ startPc > ConstructAt(program, s)
      /\ program # "original" => startPc > DetachAt(program, s, k)
      /\ program # "original" => startPc > ThreadAt(program, s, k)
      /\ program = "original" => startPc <= ThreadAt(program, s, k)
      /\ AcceptAt(program, s) \in Nat /\ ConstructAt(program, s) \in Nat
      /\ DetachAt(program, s, k) \in Nat /\ ThreadAt(program, s, k) \in Nat
      /\ startPc \in Nat
  BY <1>1, <1>2, StepOrder
<1>5. server[s] = "listening" /\ subscriber[s]
  BY <1>3, <1>4 DEF ServerAt
<1>6. program = "original" => startThread[s][k] # "detached"
  BY <1>3, <1>4 DEF ThreadOf
<1>7. program # "original" => startThread[s][k] = "detached"
  BY <1>3, <1>4 DEF ThreadOf
<1> QED BY <1>5, <1>6, <1>7

\* A context that got its ciphers got everything before them.
LEMMA FirstOfSettings ==
    ASSUME NEW n \in {2, 3, 4, 5, 6}, "ciphers" \in Start!FirstSettings(n)
    PROVE  {"chain", "key", "dh"} \subseteq Start!FirstSettings(n)
<1>1. /\ Start!Settings[1] = "options" /\ Start!Settings[2] = "password"
      /\ Start!Settings[3] = "chain" /\ Start!Settings[4] = "key"
      /\ Start!Settings[5] = "dh" /\ Start!Settings[6] = "ciphers"
  BY DEF Start!Settings
<1>2. PICK i \in 1..n : Start!Settings[i] = "ciphers"
  BY DEF Start!FirstSettings
<1>3. n = 6
  BY <1>1, <1>2
<1>4. 3 \in 1..n /\ 4 \in 1..n /\ 5 \in 1..n
  BY <1>3
<1> QED BY <1>1, <1>4 DEF Start!FirstSettings

\* What the invariant says of threads and of the servers under them.
LEMMA StartSafe == StartInv => Start!StartIsSound
<1> SUFFICES ASSUME StartInv PROVE Start!StartIsSound
  OBVIOUS
<1>1. Start!TypeOK
  BY DEF StartInv, StartTypes, Start!TypeOK
<1>2. Start!StrayOnlyAfterFailure
  <2>1. startStray => outcome # "none"
    BY DEF StartInv, StartTypes, StartRuns
  <2>2. outcome = "none" => startPc # 0
    BY DEF StartInv, StartTypes
  <2> QED BY <2>1, <2>2, ThreadsHaveServers DEF Start!StrayOnlyAfterFailure
<1>3. Start!ServesBothOrNone
  <2>1. \A s \in Start!Servers : Start!At("run") => server[s] = "listening" /\ subscriber[s]
    BY AtRun DEF Start!Kinds
  <2>2. outcome # "none" => \A s \in Start!Servers : server[s] # "listening"
    BY DEF StartInv, StartTypes, StartLeft
  <2> QED BY <2>1, <2>2 DEF Start!ServesBothOrNone
<1>4. Start!QueuesAreServed
  BY AtRun DEF Start!QueuesAreServed
<1>5. Start!CiphersComeLast
  BY FirstOfSettings DEF StartInv, ContextIsFirst, Start!CiphersComeLast
<1> QED BY <1>1, <1>2, <1>3, <1>4, <1>5 DEF Start!StartIsSound

\* Every step of the three functions that start the market server.
LEMMA StartAlways == Start!Spec => []Start!StartIsSound
<1>1. [Start!Next]_Start!vars => [Start!Next]_startVars
  BY DEF Start!vars, Start!started, startVars
<1> QED BY <1>1, StartInit, StartNext, StartSafe, PTL DEF Start!Spec

-----------------------------------------------------------------------------
(* SampleMain: the statements of _tmain, with ticks and the zone in between. *)

\* What the zones and the times of the bars are does not matter, but that they are
\* numbers, and that there is a bar.
LEMMA ZonesAndBars ==
    ZoneBiases \subseteq Int /\ BarTimes \in Seq(Int) /\ Len(BarTimes) > 0
BY DEF ZoneBiases, BarTimes

\* Who was given the queue, and how the connection and the server stand.
MainPlaces ==
    /\ mainAt \in {"set", "start", "request", "convert", "build", "startup", "forever",
                   "returned"}
    /\ mainAt # "set" => "tick" \in queueOf
    /\ mainSubscribed => mainAt # "set"
    /\ pushing => "iocp" \in queueOf
    /\ pushing <=> iocp # "none"
    /\ iocp # "none" <=> mainAt \in {"startup", "forever"}
    /\ mainAt \in {"convert", "build", "startup", "forever"} => connection = "connected"
    /\ mainAt = "request" => connection = "connected"
    /\ ~unset

\* The array of the bars: its own one bar before the answer, the interface's array
\* with the first ones converted after it.
MainArray ==
    /\ bias \in Int /\ changes \in {0, 1}
    /\ bars \in Seq(Int) /\ converted \in 0..Len(bars)
    /\ mainAt \in {"set", "start", "request", "returned"} => converted = 0 /\ leaked = 0
    /\ mainAt \in {"set", "start", "request", "returned"} => mainRequest = <<>>
    /\ mainAt = "convert" \/ converted > 0 => Len(bars) = Len(BarTimes)
    /\ mainAt = "convert" => leaked = 1
    /\ mainAt = "convert" => \A i \in (converted + 1)..Len(bars) : bars[i] = BarTimes[i]
    /\ mainAt \in {"build", "startup", "forever"} =>
        leaked = (IF converted = 0 THEN 1 ELSE 2)

\* The offset of a bar that was converted.
OffsetOf(i) == BarTimes[i] - bars[i]

\* The first m bars have the offset of a zone that is gone, the others that of the
\* zone of now; before the change there are only the others.
MainOffsets ==
    \E m \in 0..converted, old \in Int :
        /\ \A i \in 1..converted : OffsetOf(i) = (IF i <= m THEN old ELSE bias * 60)
        /\ changes = 0 => m = 0

MainRequestSent ==
    changes = 0 /\ mainRequest # <<>> => mainRequest[1] = 1 + bias * 60

MainInv == MainPlaces /\ MainArray /\ MainOffsets /\ MainRequestSent

\* The program has begun and holds nothing.
LEMMA MainInit == Main!Init => MainInv
<1> SUFFICES ASSUME Main!Init PROVE MainInv
  OBVIOUS
<1> USE ZonesAndBars DEF Main!Init
<1>1. MainPlaces /\ MainRequestSent
  BY DEF MainPlaces, MainRequestSent
<1>2. MainArray
  BY DEF MainArray
<1>3. MainOffsets
  BY DEF MainOffsets
<1> QED BY <1>1, <1>2, <1>3 DEF MainInv

\* Everything but the array: the order of the statements.
LEMMA MainPlacesStep ==
    ASSUME MainInv, [Main!Next]_mainVars
    PROVE  MainPlaces'
<1> USE DEF MainInv, MainPlaces, Main!world, Main!chart
<1>1. CASE Main!SetDequeParams \/ Main!Subscribe \/ Main!Start
  BY <1>1 DEF Main!SetDequeParams, Main!Subscribe, Main!Start
<1>2. CASE Main!ChartRequest \/ Main!MTChartBarToLocale \/ Main!EndOfBlock
  BY <1>2 DEF Main!ChartRequest, Main!MTChartBarToLocale, Main!EndOfBlock
<1>3. CASE Main!MyIOCP \/ Main!Startup
  BY <1>3 DEF Main!MyIOCP, Main!Startup
<1>4. CASE Main!OnTick \/ Main!Push
  <2>1. ~unset'
    <3>1. CASE Main!OnTick
      <4>1. "tick" \in queueOf
        BY <3>1 DEF Main!OnTick
      <4> QED BY <3>1, <4>1, Zenon DEF Main!OnTick
    <3>2. CASE Main!Push
      <4>1. "iocp" \in queueOf
        BY <3>2 DEF Main!Push
      <4> QED BY <3>2, <4>1, Zenon DEF Main!Push
    <3> QED BY <1>4, <3>1, <3>2
  <2>2. UNCHANGED <<mainAt, queueOf, connection, mainSubscribed, iocp, pushing>>
    BY <1>4 DEF Main!OnTick, Main!Push
  <2> QED BY <2>1, <2>2
<1>6. CASE Main!ZoneChanges
  BY <1>6 DEF Main!ZoneChanges
<1>5. CASE Main!Sleep \/ UNCHANGED mainVars
  BY <1>5 DEF Main!Sleep, Main!vars, mainVars
<1> QED BY <1>1, <1>2, <1>3, <1>4, <1>5, <1>6 DEF Main!Next

\* A step that keeps the chart and the zone.
LEMMA MainKeeps ==
    ASSUME MainInv, UNCHANGED <<bias, changes, mainRequest, bars, converted>>
    PROVE  MainOffsets' /\ MainRequestSent'
BY DEF MainInv, MainOffsets, MainRequestSent, OffsetOf

\* Each step of main and each tick of the trading thread keeps the invariant.
LEMMA MainNext == MainInv /\ [Main!Next]_mainVars => MainInv'
<1> SUFFICES ASSUME MainInv, [Main!Next]_mainVars PROVE MainInv'
  OBVIOUS
<1> MainPlaces'
  BY MainPlacesStep
<1> USE ZonesAndBars DEF Main!world, Main!chart
<1> SUFFICES MainArray' /\ MainOffsets' /\ MainRequestSent'
  BY DEF MainInv
<1> DEFINE along ==
      \/ mainAt' = mainAt
      \/ mainAt \in {"set", "start"} /\ mainAt' \in {"start", "request", "returned"}
      \/ mainAt \in {"build", "startup"} /\ mainAt' \in {"startup", "forever"}
<1>1. CASE along /\ UNCHANGED <<bias, changes, mainRequest, bars, converted, leaked>>
  BY <1>1, MainKeeps DEF MainArray, MainInv
<1>2. CASE Main!ChartRequest
  <2>1. MainArray'
    BY <1>2 DEF Main!ChartRequest, MainArray, MainInv
  <2>2. converted' = 0 /\ converted = 0
    BY <1>2 DEF Main!ChartRequest, MainArray, MainInv
  <2>3. MainOffsets'
    BY <2>2 DEF MainOffsets
  <2>4. MainRequestSent'
    BY <1>2 DEF Main!ChartRequest, MainRequestSent, MainInv, MainArray, Main!LocaleToRemote, Main!MakeLocalTime, Main!MinutesInHour
  <2> QED BY <2>1, <2>3, <2>4
<1>3. CASE Main!MTChartBarToLocale
  <2> DEFINE c == converted + 1
  <2>1. /\ c \in 1..Len(bars) /\ converted' = c /\ c \in Nat /\ converted \in Nat
        /\ Len(bars) = Len(BarTimes) /\ Len(bars) \in Nat /\ bars \in Seq(Int)
        /\ UNCHANGED <<mainAt, bias, changes, mainRequest, leaked>>
        /\ mainAt = "convert" /\ leaked = 1 /\ bias \in Int /\ changes \in {0, 1}
    BY <1>3 DEF Main!MTChartBarToLocale, MainArray, MainInv
  <2>2. /\ bars' \in Seq(Int) /\ Len(bars') = Len(bars)
        /\ bars'[c] = bars[c] - bias * 60
        /\ \A i \in 1..Len(bars) : i # c => bars'[i] = bars[i]
    <3>1. bars' = [bars EXCEPT ![c] = bars[c] - bias * 60]
      BY <1>3 DEF Main!MTChartBarToLocale, Main!RemoteToLocale, Main!MinutesInHour
    <3>2. bars[c] - bias * 60 \in Int
      BY <2>1
    <3> QED BY <2>1, <3>1, <3>2
  <2>3. \A i \in c..Len(bars) : bars[i] = BarTimes[i]
    BY <2>1 DEF MainArray, MainInv
  <2> HIDE DEF c
  <2>4. MainArray'
    <3>1. \A i \in (c + 1)..Len(bars) : bars'[i] = BarTimes[i]
      BY <2>1, <2>2, <2>3
    <3>2. converted' \in 0..Len(bars')
      BY <2>1, <2>2
    <3> QED BY <2>1, <2>2, <3>1, <3>2 DEF MainArray
  <2>5. MainOffsets'
    <3>1. PICK m \in 0..converted, old \in Int :
            /\ \A i \in 1..converted : OffsetOf(i) = (IF i <= m THEN old ELSE bias * 60)
            /\ changes = 0 => m = 0
      BY DEF MainInv, MainOffsets
    <3>2. m \in 0..c /\ converted = c - 1
      BY <2>1, <3>1 DEF c
    <3>3. ASSUME NEW i \in 1..c
          PROVE  BarTimes[i] - bars'[i] = (IF i <= m THEN old ELSE bias * 60)
      <4>1. CASE i = c
        <5>1. bars[c] = BarTimes[c] /\ bars'[c] = bars[c] - bias * 60 /\ BarTimes[c] \in Int
          BY <2>1, <2>2, <2>3
        <5>2. ~(c <= m)
          BY <2>1, <3>1, <3>2
        <5> QED BY <2>1, <4>1, <5>1, <5>2
      <4>2. CASE i # c
        <5>1. i \in 1..converted /\ bars'[i] = bars[i]
          BY <2>1, <2>2, <3>2, <4>2
        <5> QED BY <3>1, <5>1 DEF OffsetOf
      <4> QED BY <4>1, <4>2
    <3>4. \A i \in 1..converted' : OffsetOf(i)' = (IF i <= m THEN old ELSE bias' * 60)
      BY <2>1, <3>3 DEF OffsetOf
    <3> QED BY <2>1, <3>1, <3>2, <3>4 DEF MainOffsets
  <2>6. MainRequestSent'
    BY <2>1 DEF MainRequestSent, MainInv
  <2> QED BY <2>4, <2>5, <2>6
<1>4. CASE Main!EndOfBlock
  <2>1. MainArray'
    BY <1>4 DEF Main!EndOfBlock, MainArray, MainInv
  <2> QED BY <1>4, <2>1, MainKeeps DEF Main!EndOfBlock
<1>5. CASE Main!ZoneChanges
  <2>1. MainArray'
    BY <1>5 DEF Main!ZoneChanges, MainArray, MainInv
  <2>2. PICK m \in 0..converted, old \in Int :
            /\ \A i \in 1..converted : OffsetOf(i) = (IF i <= m THEN old ELSE bias * 60)
            /\ changes = 0 => m = 0
    BY DEF MainInv, MainOffsets
  <2>3. m = 0 /\ changes' = 1 /\ bias * 60 \in Int /\ converted \in Nat
    BY <1>5, <2>2 DEF Main!ZoneChanges, MainInv, MainArray
  <2>4. \A i \in 1..converted : OffsetOf(i) = bias * 60
    BY <2>2, <2>3
  <2>5. \A i \in 1..converted' :
            OffsetOf(i)' = (IF i <= converted' THEN bias * 60 ELSE bias' * 60)
    BY <1>5, <2>4 DEF Main!ZoneChanges, OffsetOf
  <2>6. MainOffsets'
    BY <1>5, <2>3, <2>5 DEF MainOffsets, Main!ZoneChanges
  <2>7. MainRequestSent'
    BY <2>3 DEF MainRequestSent
  <2> QED BY <2>1, <2>6, <2>7
<1>6. CASE Main!SetDequeParams \/ Main!Subscribe \/ Main!Start
  BY <1>1, <1>6 DEF Main!SetDequeParams, Main!Subscribe, Main!Start
<1>7. CASE Main!MyIOCP \/ Main!Startup
  BY <1>1, <1>7 DEF Main!MyIOCP, Main!Startup
<1>8. CASE Main!OnTick \/ Main!Push \/ Main!Sleep \/ UNCHANGED mainVars
  BY <1>1, <1>8 DEF Main!OnTick, Main!Push, Main!Sleep, Main!vars, mainVars
<1> QED BY <1>2, <1>3, <1>4, <1>5, <1>6, <1>7, <1>8 DEF Main!Next

\* Three bars in a row have at most two offsets.
LEMMA TwoOffsets ==
    ASSUME MainInv, NEW i \in 1..converted, NEW j \in 1..converted, NEW k \in 1..converted,
           i < j, j < k, OffsetOf(i) = OffsetOf(k)
    PROVE  OffsetOf(j) = OffsetOf(i)
<1>1. PICK m \in 0..converted, old \in Int :
        \A n \in 1..converted : OffsetOf(n) = (IF n <= m THEN old ELSE bias * 60)
  BY DEF MainInv, MainOffsets
<1>2. /\ OffsetOf(i) = (IF i <= m THEN old ELSE bias * 60)
      /\ OffsetOf(j) = (IF j <= m THEN old ELSE bias * 60)
      /\ OffsetOf(k) = (IF k <= m THEN old ELSE bias * 60)
  BY <1>1
<1>3. converted \in Nat
  BY DEF MainInv, MainArray
<1>4. i \in Nat /\ j \in Nat /\ k \in Nat /\ m \in Nat
  BY <1>3
<1>5. CASE k <= m
  BY <1>2, <1>4, <1>5
<1>6. CASE ~(i <= m)
  BY <1>2, <1>4, <1>6
<1>7. CASE i <= m /\ ~(k <= m)
  <2>1. OffsetOf(i) = old /\ OffsetOf(k) = bias * 60
    BY <1>2, <1>7
  <2> QED BY <1>2, <2>1
<1> QED BY <1>5, <1>6, <1>7

\* What the invariant says of the queue and of those who look at it.
LEMMA MainSafe == MainInv => Main!MainIsSound
<1> SUFFICES ASSUME MainInv PROVE Main!MainIsSound
  OBVIOUS
<1>1. Main!TypeOK
  BY DEF MainInv, MainPlaces, MainArray, Main!TypeOK
<1>2. Main!QueueIsSet /\ Main!ServesConnected
  BY DEF MainInv, MainPlaces, Main!QueueIsSet, Main!ServesConnected
<1>3. Main!BarsRoundTrip
  <2> SUFFICES ASSUME changes = 0
               PROVE  /\ \A i \in 1..converted : bars[i] + bias * 60 = BarTimes[i]
                      /\ mainRequest # <<>> => mainRequest[1] - bias * 60 = 1
    BY DEF Main!BarsRoundTrip, Main!LocaleToRemote, Main!RemoteToLocale,
           Main!MakeLocalTime, Main!MinutesInHour
  <2>1. ASSUME NEW i \in 1..converted
        PROVE  bars[i] + bias * 60 = BarTimes[i]
    <3>1. OffsetOf(i) = bias * 60
      BY DEF MainInv, MainOffsets
    <3>2. bars[i] \in Int /\ BarTimes[i] \in Int /\ bias * 60 \in Int
      BY ZonesAndBars DEF MainInv, MainArray
    <3> QED BY <3>1, <3>2 DEF OffsetOf
  <2>2. mainRequest # <<>> => mainRequest[1] - bias * 60 = 1
    BY DEF MainInv, MainArray, MainRequestSent
  <2> QED BY <2>1, <2>2
<1>4. Main!BarsMixAtMostTwo
  BY TwoOffsets DEF Main!BarsMixAtMostTwo, OffsetOf
<1>5. Main!AnswersLeak
  BY DEF MainInv, MainArray, Main!AnswersLeak
<1> QED BY <1>1, <1>2, <1>3, <1>4, <1>5 DEF Main!MainIsSound

\* The sample program, whatever of its start fails.
LEMMA MainAlways == Main!Spec => []Main!MainIsSound
<1>1. [Main!Next]_Main!vars => [Main!Next]_mainVars
  BY DEF Main!vars, Main!world, Main!chart, mainVars
<1> QED BY <1>1, MainInit, MainNext, MainSafe, PTL DEF Main!Spec

\* The start of the market server and of the sample's program, whatever fails:
\* threads have their servers while the function runs, both servers or none are
\* served, and the queue is set before anybody looks at it.
THEOREM StartHolds == Start!Spec /\ Main!Spec => []StartIsSound
<1>1. Start!StartIsSound /\ Main!MainIsSound => StartIsSound
  BY DEF StartIsSound
<1> QED BY <1>1, StartAlways, MainAlways, PTL

-----------------------------------------------------------------------------
(* RedisClients: sync_test.                                                 *)

\* Whoever's value is in redis, or was read there, has sent it; the key is missing
\* behind a SET only after a restart.
RedisInv ==
    /\ redisAt \in [Callers -> {"connect", "set", "get", "done"}]
    /\ code \in [Callers -> {"none", "EXIT_SUCCESS", "EXIT_FAILURE", "exception"}]
    /\ redisPrinted \in [Callers -> Callers \cup {0}] /\ key \in Callers \cup {0}
    /\ restarts \in Nat
    /\ \A c \in Callers : code[c] # "none" <=> redisAt[c] = "done"
    /\ key \in Callers => redisAt[key] \in {"get", "done"}
    /\ key = 0 /\ restarts = 0 => \A c \in Callers : redisAt[c] # "get"
    /\ \A c \in Callers : code[c] = "EXIT_SUCCESS" =>
        /\ redisPrinted[c] \in Callers => redisAt[redisPrinted[c]] \in {"get", "done"}
        /\ redisPrinted[c] = 0 => restarts > 0

\* No caller has begun.
LEMMA RedisInit == Redis!Init => RedisInv
BY SampleAssumption DEF Redis!Init, RedisInv, Redis!None

\* The callers of sync_test, with restarts of redis in between.
LEMMA RedisNext ==
    ASSUME RedisInv, [Redis!Next]_redisVars
    PROVE  RedisInv'
<1> USE SampleAssumption DEF RedisInv, Redis!None, Redis!Return, Redis!Fails
<1>1. ASSUME NEW c \in Callers, Redis!Connect(c)
      PROVE  RedisInv'
  BY <1>1 DEF Redis!Connect
<1>2. ASSUME NEW c \in Callers, Redis!Set(c)
      PROVE  RedisInv'
  BY <1>2 DEF Redis!Set
<1>3. ASSUME NEW c \in Callers, Redis!Get(c)
      PROVE  RedisInv'
  <2>1. /\ redisAt[c] = "get" /\ redisAt' = [redisAt EXCEPT ![c] = "done"]
        /\ key' = key /\ restarts' = restarts
        /\ \/ /\ redisPrinted' = [redisPrinted EXCEPT ![c] = key]
              /\ code' = [code EXCEPT ![c] = "EXIT_SUCCESS"]
           \/ /\ redisPrinted' = redisPrinted
              /\ \E r \in {"EXIT_FAILURE", "exception"} : code' = [code EXCEPT ![c] = r]
    BY <1>3 DEF Redis!Get
  <2>2. \A d \in Callers : redisAt[d] \in {"get", "done"} => redisAt'[d] \in {"get", "done"}
    BY <2>1
  <2>3. ASSUME NEW d \in Callers, code'[d] = "EXIT_SUCCESS"
        PROVE  /\ redisPrinted'[d] \in Callers => redisAt'[redisPrinted'[d]] \in {"get", "done"}
               /\ redisPrinted'[d] = 0 => restarts' > 0
    <3>1. CASE d = c
      <4>1. redisPrinted'[d] = key
        BY <2>1, <2>3, <3>1
      <4>2. key \in Callers => redisAt[key] \in {"get", "done"}
        OBVIOUS
      <4>3. key = 0 => restarts > 0
        BY <2>1
      <4> QED BY <2>1, <2>2, <4>1, <4>2, <4>3
    <3>2. CASE d # c
      <4>1. redisPrinted'[d] = redisPrinted[d] /\ code[d] = "EXIT_SUCCESS"
        BY <2>1, <2>3, <3>2
      <4> QED BY <2>1, <2>2, <4>1
    <3> QED BY <3>1, <3>2
  <2>4. /\ redisAt' \in [Callers -> {"connect", "set", "get", "done"}]
        /\ code' \in [Callers -> {"none", "EXIT_SUCCESS", "EXIT_FAILURE", "exception"}]
        /\ redisPrinted' \in [Callers -> Callers \cup {0}]
    BY <2>1
  <2>5. \A d \in Callers : code'[d] # "none" <=> redisAt'[d] = "done"
    BY <2>1
  <2>6. key' = 0 /\ restarts' = 0 => \A d \in Callers : redisAt'[d] # "get"
    BY <2>1
  <2> QED BY <2>1, <2>2, <2>3, <2>4, <2>5, <2>6
<1>4. CASE Redis!RedisRestarts
  BY <1>4 DEF Redis!RedisRestarts
<1>5. CASE UNCHANGED redisVars
  BY <1>5 DEF redisVars
<1> QED BY <1>1, <1>2, <1>3, <1>4, <1>5
        DEF Redis!Next

\* What the invariant says of the values that are printed.
LEMMA RedisSafe == RedisInv => Redis!ClientsAreSound
<1> SUFFICES ASSUME RedisInv PROVE Redis!ClientsAreSound
  OBVIOUS
<1>1. Redis!TypeOK
  BY DEF RedisInv, Redis!TypeOK
<1>2. Redis!AlonePrintsOwn
  BY DEF RedisInv, Redis!AlonePrintsOwn, Redis!None
<1> QED BY <1>1, <1>2 DEF Redis!ClientsAreSound

\* The redis clients, in whatever order they are called.
LEMMA RedisAlways == Redis!Spec => []Redis!ClientsAreSound
<1>1. [Redis!Next]_Redis!vars => [Redis!Next]_redisVars
  BY DEF Redis!vars, redisVars
<1> QED BY <1>1, RedisNext, RedisInit, RedisSafe, PTL DEF Redis!Spec

-----------------------------------------------------------------------------
(* EventAdapter: the record, the watchers and the rounds of the loop.       *)

\* What exists before Attach, after one that failed, and after Cleanup.
AdapterRecord ==
    /\ adapter \in Adapter!Adapters
    /\ adapterContext \in {"live", "freed"} /\ data \in {"NULL", "attached"}
    /\ functions \in BOOLEAN
    /\ record \in {"none", "live", "closing", "freed", "leaked"}
    /\ watched \subseteq Adapter!Events
    /\ ~functions => record = "none"
    /\ data = "NULL" => record \in {"none", "leaked"}
    /\ record \in {"none", "leaked"} => data = "NULL"
    /\ record # "live" => watched = {}
    /\ record \in {"closing", "leaked"} => adapter = "libuv"
    /\ record = "live" => adapterContext = "live"
    /\ record \in {"closing", "freed"} => adapterContext = "freed"
    /\ record = "live" /\ adapter # "libevent" => flags = watched
    /\ crashed => record \in {"none", "leaked"}

\* What the loop has still to run, and for whom.
AdapterLoop ==
    /\ turn \subseteq Adapter!Events
    /\ adapterContext = "freed" => turn = {}
    /\ polled # {} => adapter = "libuv"
    /\ adapterStray => adapter = "libuv" /\ adapterContext = "freed"

AdapterInv == AdapterRecord /\ AdapterLoop

\* Nothing is attached to an event loop.
LEMMA AdapterInit == Adapter!Init => AdapterInv
BY DEF Adapter!Init, AdapterInv, AdapterRecord, AdapterLoop, Adapter!Adapters

\* Attaching, whatever the memory and uv_poll_init allow.
LEMMA AdapterAttach ==
    ASSUME AdapterInv, Adapter!Attach
    PROVE  AdapterInv'
<1>1. AdapterLoop'
  BY DEF Adapter!Attach, Adapter!loop, AdapterInv, AdapterLoop
<1>2. /\ ~functions /\ ~crashed /\ adapterContext = "live" /\ record = "none"
      /\ data = "NULL" /\ watched = {}
      /\ UNCHANGED <<adapter, watched, adapterContext>>
  BY DEF Adapter!Attach, AdapterInv, AdapterRecord
<1>3. CASE Adapter!Attached
  BY <1>1, <1>2, <1>3 DEF Adapter!Attached, AdapterInv, AdapterRecord
<1>4. CASE Adapter!NoMemory
  BY <1>1, <1>2, <1>4 DEF Adapter!NoMemory, Adapter!memory, AdapterInv, AdapterRecord
<1>5. CASE adapter = "libuv" /\ Adapter!redisLibuvAttach
  BY <1>1, <1>2, <1>3, <1>5 DEF Adapter!redisLibuvAttach, AdapterInv, AdapterRecord
<1> QED BY <1>3, <1>4, <1>5 DEF Adapter!Attach, Adapter!redisAeAttach,
           Adapter!redisLibevAttach, Adapter!redisLibeventAttach

\* Starting and stopping to watch keep the record's flags and the watchers equal.
LEMMA AdapterChanges ==
    ASSUME AdapterInv, Adapter!Changes, record = "live"
    PROVE  /\ watched' \subseteq Adapter!Events
           /\ adapter # "libevent" => flags' = watched'
<1> USE DEF AdapterInv, AdapterRecord, Adapter!Events
<1>1. CASE adapter = "ae"
  BY <1>1 DEF Adapter!Changes, Adapter!redisAeAddRead, Adapter!redisAeForceAddRead,
              Adapter!redisAeDelRead, Adapter!redisAeAddWrite, Adapter!redisAeDelWrite,
              Adapter!FlaggedAdd, Adapter!FlaggedDel
<1>2. CASE adapter = "libev"
  BY <1>2 DEF Adapter!Changes, Adapter!redisLibevAddRead, Adapter!redisLibevDelRead,
              Adapter!redisLibevAddWrite, Adapter!redisLibevDelWrite,
              Adapter!FlaggedAdd, Adapter!FlaggedDel
<1>3. CASE adapter = "libevent"
  BY <1>3 DEF Adapter!Changes, Adapter!redisLibeventAddRead, Adapter!redisLibeventDelRead,
              Adapter!redisLibeventAddWrite, Adapter!redisLibeventDelWrite
<1>4. CASE adapter = "libuv"
  BY <1>4 DEF Adapter!Changes, Adapter!redisLibuvAddRead, Adapter!redisLibuvDelRead,
              Adapter!redisLibuvAddWrite, Adapter!redisLibuvDelWrite, Adapter!Poll
<1> QED BY <1>1, <1>2, <1>3, <1>4 DEF Adapter!Adapters

\* Starting or stopping a watcher, with memory or without, keeps the invariant.
LEMMA AdapterChange ==
    ASSUME AdapterInv, Adapter!Change
    PROVE  AdapterInv'
<1>1. AdapterLoop'
  BY DEF Adapter!Change, AdapterInv, AdapterLoop
<1>2. CASE data = "NULL"
  BY <1>1, <1>2 DEF Adapter!Change, Adapter!memory, AdapterInv, AdapterRecord
<1>3. CASE data # "NULL"
  <2>1. record = "live"
    BY <1>3 DEF Adapter!Change, AdapterInv, AdapterRecord
  <2>2. Adapter!Changes /\ UNCHANGED <<adapter, functions, data, record, adapterContext, crashed>>
    BY <1>3 DEF Adapter!Change, Adapter!memory
  <2>3. /\ watched' \subseteq Adapter!Events
        /\ adapter # "libevent" => flags' = watched'
    BY <2>1, <2>2, AdapterChanges
  <2>4. AdapterRecord'
    BY <2>1, <2>2, <2>3 DEF AdapterInv, AdapterRecord
  <2> QED BY <1>1, <2>4 DEF AdapterInv
<1> QED BY <1>2, <1>3

\* Cleaning up ends the watching, also by the adapters that trust their flags.
LEMMA AdapterCleanup ==
    ASSUME AdapterInv, Adapter!Cleanup
    PROVE  AdapterInv'
<1>1. AdapterLoop'
  BY DEF Adapter!Cleanup, AdapterInv, AdapterLoop
<1>2. CASE data = "NULL"
  BY <1>1, <1>2 DEF Adapter!Cleanup, AdapterInv, AdapterRecord
<1>3. CASE data # "NULL"
  <2>1. record = "live"
    BY <1>3 DEF Adapter!Cleanup, AdapterInv, AdapterRecord
  <2>2. watched' = {} /\ record' \in {"freed", "closing"}
        /\ (record' = "closing" => adapter = "libuv")
    BY <1>3, <2>1 DEF Adapter!Cleanup, Adapter!redisAeCleanup, Adapter!redisLibevCleanup,
        Adapter!redisLibeventCleanup, Adapter!redisLibuvCleanup, AdapterInv, AdapterRecord
  <2>3. AdapterRecord'
    BY <1>3, <2>1, <2>2 DEF Adapter!Cleanup, AdapterInv, AdapterRecord
  <2> QED BY <1>1, <2>3 DEF AdapterInv
<1> QED BY <1>2, <1>3

\* A round, its callbacks, and redisLibuvPoll, whose second handler may meet a
\* context that its first one freed.
LEMMA AdapterLoops ==
    ASSUME AdapterInv,
           \/ Adapter!on_close \/ Adapter!Round \/ Adapter!redisLibuvPoll
           \/ Adapter!HandlerReturns \/ \E e \in Adapter!Events : Adapter!RunCallback(e)
           \/ UNCHANGED adapterVars
    PROVE  AdapterInv'
<1> USE DEF AdapterInv, Adapter!memory, Adapter!loop
<1>1. CASE Adapter!on_close
  BY <1>1 DEF Adapter!on_close, AdapterRecord, AdapterLoop
<1>2. CASE Adapter!Round
  <2>1. PICK ready \in (SUBSET watched) \ {{}} :
            IF adapter = "libuv"
            THEN polled' = ready /\ UNCHANGED <<turn, watched>>
            ELSE /\ turn' = ready
                 /\ watched' = IF adapter = "libevent" THEN watched \ ready ELSE watched
                 /\ UNCHANGED polled
    BY <1>2 DEF Adapter!Round
  <2>2. watched # {}
    <3>1. ready \subseteq watched /\ ready # {}
      OBVIOUS
    <3> QED BY <3>1
  <2>3. record = "live" /\ adapterContext = "live"
    BY <2>2 DEF AdapterRecord
  <2> QED BY <1>2, <2>1, <2>3 DEF Adapter!Round, AdapterRecord, AdapterLoop
<1>3. CASE Adapter!redisLibuvPoll
  <2>1. adapterStray' => adapter = "libuv" /\ adapterContext = "freed"
    BY <1>3 DEF Adapter!redisLibuvPoll, Adapter!HandleEvent, AdapterLoop
  <2> QED BY <1>3, <2>1 DEF Adapter!redisLibuvPoll, AdapterRecord, AdapterLoop
<1>4. CASE Adapter!HandlerReturns
  BY <1>4 DEF Adapter!HandlerReturns, AdapterRecord, AdapterLoop
<1>5. ASSUME NEW e \in Adapter!Events, Adapter!RunCallback(e)
      PROVE  AdapterInv'
  <2>1. adapterContext # "freed"
    BY <1>5 DEF Adapter!RunCallback, AdapterLoop
  <2>2. Adapter!HandleEvent
    BY <1>5 DEF Adapter!RunCallback, Adapter!redisAeReadEvent, Adapter!redisAeWriteEvent,
        Adapter!redisLibevReadEvent, Adapter!redisLibevWriteEvent,
        Adapter!redisLibeventReadEvent, Adapter!redisLibeventWriteEvent
  <2>3. adapterStray' => adapter = "libuv" /\ adapterContext = "freed"
    BY <2>1, <2>2 DEF Adapter!HandleEvent, AdapterLoop
  <2> QED BY <1>5, <2>3 DEF Adapter!RunCallback, AdapterRecord, AdapterLoop
<1>6. CASE UNCHANGED adapterVars
  BY <1>6 DEF adapterVars, AdapterRecord, AdapterLoop
<1> QED BY <1>1, <1>2, <1>3, <1>4, <1>5, <1>6

\* What the invariant says of watchers and freed memory.
LEMMA AdapterSafe == AdapterInv => Adapter!AdaptersAreSound
BY DEF AdapterInv, AdapterRecord, AdapterLoop, Adapter!AdaptersAreSound, Adapter!TypeOK,
       Adapter!FlagsMatchWatchers, Adapter!StrayOnlyInLibuvPoll,
       Adapter!NothingOutlivesContext, Adapter!CrashOnlyAfterFailedAttach

\* The adapters, in whatever order hiredis and the loop call them.
LEMMA AdapterAlways == Adapter!Spec => []Adapter!AdaptersAreSound
<1>1. [Adapter!Next]_Adapter!vars => [Adapter!Next]_adapterVars
  BY DEF Adapter!vars, Adapter!memory, Adapter!loop, adapterVars
<1>2. AdapterInv /\ [Adapter!Next]_adapterVars => AdapterInv'
  BY AdapterAttach, AdapterChange, AdapterCleanup, AdapterLoops DEF Adapter!Next
<1> QED BY <1>1, <1>2, AdapterInit, AdapterSafe, PTL DEF Adapter!Spec

-----------------------------------------------------------------------------
(* HandleOwner: every operation settles one owner.                          *)

OwnerTypes ==
    /\ kind \in [Objects -> Owner!Kinds \cup {"none"}]
    /\ m_handle \in [Objects -> Owner!Values]
    /\ failed \in [Objects -> BOOLEAN]
    /\ open \subseteq Owner!Handles

OwnerInv ==
    /\ OwnerTypes
    /\ \A o \in Objects : kind[o] = "none" => m_handle[o] = Owner!NULL
    /\ Owner!OwnersAreExclusive /\ Owner!LeaksAreOverwritten /\ Owner!FailedIsEmpty

\* No handle is open and no owner has one.
LEMMA OwnerInit == Owner!Init => OwnerInv
BY DEF Owner!Init, OwnerInv, OwnerTypes, Owner!OwnersAreExclusive,
       Owner!LeaksAreOverwritten, Owner!FailedIsEmpty, Owner!Values, Owner!Valid,
       Owner!Invalid, Owner!NULL, Owner!INVALID

\* Only handles that Windows gives are valid, and those are all in Handles.
LEMMA ValidHandles ==
    /\ \A h \in Owner!Values : Owner!Valid(h) => h \in Owner!Handles
    /\ \A h \in Owner!Handles : Owner!Valid(h) /\ h \in Owner!Values
    /\ ~Owner!Valid(Owner!NULL) /\ ~Owner!Valid(Owner!INVALID)
    /\ Owner!NULL \in Owner!Values /\ Owner!INVALID \in Owner!Values
BY SampleAssumption DEF Owner!Values, Owner!Valid, Owner!Handles, Owner!NULL, Owner!INVALID

\* An operation on o: the others keep what they have.
OthersKeep(o) ==
    \A p \in Objects \ {o} :
        kind'[p] = kind[p] /\ m_handle'[p] = m_handle[p] /\ failed'[p] = failed[p]

\* What o has afterwards is new or invalid; what it had is closed, or it was
\* overwritten. Then the owners stay exclusive and nothing leaks unseen.
LEMMA OwnerSettles ==
    ASSUME OwnerInv, OwnerTypes', NEW o \in Objects, OthersKeep(o), NEW base,
           base = open \ {m_handle[o]} \/ (base = open /\ (Owner!Valid(m_handle[o]) => written')),
           Owner!Valid(m_handle[o])' => m_handle'[o] \notin base,
           open' = IF Owner!Valid(m_handle'[o]) THEN base \cup {m_handle'[o]} ELSE base,
           kind'[o] = "none" => m_handle'[o] = Owner!NULL,
           failed'[o] => kind'[o] = "view" \/ ~Owner!Valid(m_handle'[o]),
           ~copied' /\ ~guessed' => ~copied /\ ~guessed,
           written => written', guessed => guessed',
           wrong' => wrong \/ Owner!Misses(o, m_handle[o])
    PROVE  OwnerInv'
<1> DEFINE old == m_handle[o]
           new == m_handle'[o]
<1>1. /\ old \in Owner!Values /\ new \in Owner!Values
      /\ \A p \in Objects : m_handle[p] \in Owner!Values /\ m_handle'[p] \in Owner!Values
  BY DEF OwnerInv, OwnerTypes
<1>2. ASSUME ~copied', ~guessed' PROVE Owner!OwnersAreExclusive'
  <2>1. /\ \A p \in Objects : Owner!Valid(m_handle[p]) => m_handle[p] \in open
        /\ \A p, q \in Objects : p # q /\ Owner!Valid(m_handle[p]) => m_handle[p] # m_handle[q]
        /\ ~wrong
    BY <1>2 DEF OwnerInv, Owner!OwnersAreExclusive
  <2>2. ~Owner!Misses(o, old)
    BY <2>1 DEF Owner!Misses, Owner!Owners
  <2>3. \A p \in Objects \ {o} : Owner!Valid(m_handle[p]) => m_handle[p] \in base
    BY <2>1
  <2>4. \A p \in Objects : Owner!Valid(m_handle'[p]) => m_handle'[p] \in open'
    BY <2>3 DEF OthersKeep
  <2>5. \A p, q \in Objects : p # q /\ Owner!Valid(m_handle'[p]) => m_handle'[p] # m_handle'[q]
    BY <2>1, <2>3 DEF OthersKeep, Owner!Valid
  <2> QED BY <2>2, <2>4, <2>5, <2>1 DEF Owner!OwnersAreExclusive, Owner!Valid
<1>3. Owner!LeaksAreOverwritten'
  <2> SUFFICES ASSUME NEW h \in open', Owner!Owners(h)' = {}, ~written', ~guessed'
               PROVE  FALSE
    BY DEF Owner!LeaksAreOverwritten
  <2>1. h # new \/ ~Owner!Valid(new)
    <3>1. h = new => kind'[o] = "none"
      BY DEF Owner!Owners
    <3> QED BY <3>1, ValidHandles
  <2>2. h \in base
    BY <2>1
  <2>3. h \in open /\ h # old
    <3>1. h \in open /\ h \in Owner!Handles
      BY <2>2 DEF OwnerInv, OwnerTypes
    <3>2. base # open => h # old
      BY <2>2
    <3>3. base = open => h # old
      BY <3>1, ValidHandles
    <3> QED BY <3>1, <3>2, <3>3
  <2>4. PICK p \in Objects : kind[p] # "none" /\ m_handle[p] = h
    BY <2>3 DEF OwnerInv, Owner!LeaksAreOverwritten, Owner!Owners
  <2>5. p # o
    BY <2>3, <2>4
  <2> QED BY <2>4, <2>5 DEF OthersKeep, Owner!Owners
<1>4. Owner!FailedIsEmpty'
  BY DEF OwnerInv, Owner!FailedIsEmpty, OthersKeep, Owner!Invalid, Owner!Valid
<1>5. \A p \in Objects : kind'[p] = "none" => m_handle'[p] = Owner!NULL
  BY DEF OwnerInv, OthersKeep
<1> QED BY <1>2, <1>3, <1>4, <1>5 DEF OwnerInv, Owner!OwnersAreExclusive, Owner!NULL

\* What an operation on o says of the handles it leaves open and of the causes.
Accounts(o, base) ==
    /\ \/ base = open \ {m_handle[o]}
       \/ base = open /\ (Owner!Valid(m_handle[o]) => written')
    /\ ~copied' /\ ~guessed' => ~copied /\ ~guessed
    /\ written => written'
    /\ guessed => guessed'
    /\ wrong' => wrong \/ Owner!Misses(o, m_handle[o])

\* An operation that closes what the owner has.
LEMMA ClosingAccounts ==
    ASSUME NEW o \in Objects, UNCHANGED Owner!causes,
           wrong' = (wrong \/ Owner!Misses(o, m_handle[o]))
    PROVE  Accounts(o, Owner!Closed(m_handle[o]))
<1>1. wrong' => wrong \/ Owner!Misses(o, m_handle[o])
  BY Zenon
<1> QED BY <1>1 DEF Accounts, Owner!causes, Owner!Closed

\* One of an owner that has nothing.
LEMMA EmptyAccounts ==
    ASSUME NEW o \in Objects, UNCHANGED <<Owner!causes, wrong>>, ~Owner!Valid(m_handle[o])
    PROVE  Accounts(o, open)
BY DEF Accounts, Owner!causes

\* One that overwrites what the owner has.
LEMMA OverwritingAccounts ==
    ASSUME NEW o \in Objects, UNCHANGED <<copied, guessed, wrong>>,
           written' = (written \/ Owner!Valid(m_handle[o]))
    PROVE  Accounts(o, open)
<1>1. (written => written') /\ (Owner!Valid(m_handle[o]) => written')
  BY Zenon
<1> QED BY <1>1 DEF Accounts

\* Owns: the object is an owner of h, which nobody had.
LEMMA OwnsSettles ==
    ASSUME OwnerInv, NEW o \in Objects, NEW k \in Owner!Kinds, NEW h \in Owner!Values,
           NEW base \in SUBSET Owner!Handles, Accounts(o, base), h \notin base,
           Owner!Owns(o, k, h, base)
    PROVE  OwnerInv'
<1>1. OwnerTypes' /\ OthersKeep(o) /\ kind'[o] = k /\ m_handle'[o] = h /\ ~failed'[o]
  BY ValidHandles DEF OwnerInv, OwnerTypes, OthersKeep, Owner!Owns
<1>2. open' = IF Owner!Valid(h) THEN base \cup {h} ELSE base
  BY DEF Owner!Owns
<1>3. k # "none"
  BY DEF Owner!Kinds
<1>4. Owner!Valid(m_handle[o])' => m_handle'[o] \notin base
  BY <1>1
<1> QED BY <1>1, <1>2, <1>3, <1>4, OwnerSettles DEF Accounts

\* Throws, and the operations that only close: the object keeps its class, with a
\* member that is no handle.
LEMMA ThrowsSettles ==
    ASSUME OwnerInv, NEW o \in Objects, NEW h \in Owner!Values, ~Owner!Valid(h),
           NEW base \in SUBSET Owner!Handles, Accounts(o, base), kind[o] # "none",
           m_handle' = [m_handle EXCEPT ![o] = h], open' = base, kind' = kind,
           failed' = failed \/ failed' = [failed EXCEPT ![o] = TRUE]
    PROVE  OwnerInv'
<1>1. OwnerTypes' /\ OthersKeep(o) /\ kind'[o] = kind[o] /\ m_handle'[o] = h
  BY DEF OwnerInv, OwnerTypes, OthersKeep
<1>2. open' = IF Owner!Valid(h) THEN base \cup {h} ELSE base
  OBVIOUS
<1>3. Owner!Valid(m_handle[o])' => m_handle'[o] \notin base
  BY <1>1 DEF Owner!Valid, Owner!NULL, Owner!INVALID
<1> QED BY <1>1, <1>2, <1>3, OwnerSettles DEF Accounts

\* A destructor.
LEMMA DestroySettles ==
    ASSUME OwnerInv, NEW o \in Objects, NEW k, Owner!Destroys(o, k)
    PROVE  OwnerInv'
<1>1. OwnerTypes' /\ OthersKeep(o) /\ kind'[o] = "none" /\ m_handle'[o] = Owner!NULL
      /\ ~failed'[o]
  BY ValidHandles DEF OwnerInv, OwnerTypes, OthersKeep, Owner!Destroys, Owner!Closed
<1>2. open' = Owner!Closed(m_handle[o]) /\ ~Owner!Valid(Owner!NULL)
  BY ValidHandles DEF Owner!Destroys
<1>3. Accounts(o, Owner!Closed(m_handle[o]))
  BY ClosingAccounts DEF Owner!Destroys
<1>4. Owner!Valid(m_handle[o])' => m_handle'[o] \notin Owner!Closed(m_handle[o])
  BY <1>1, <1>2 DEF Owner!Valid, Owner!NULL, Owner!INVALID
<1> QED BY <1>1, <1>2, <1>3, <1>4, OwnerSettles DEF Accounts, Owner!Closed

\* Nothing changes but, for a view, that its operation threw.
LEMMA ViewKeeps ==
    ASSUME OwnerInv, NEW o \in Objects, kind[o] = "view",
           Owner!Throws(o, m_handle[o], open), UNCHANGED Owner!causes,
           wrong' => wrong \/ Owner!Misses(o, m_handle[o])
    PROVE  OwnerInv'
<1>1. kind' = kind /\ m_handle' = m_handle /\ open' = open /\ failed' \in [Objects -> BOOLEAN]
      /\ \A p \in Objects \ {o} : failed'[p] = failed[p]
  BY DEF Owner!Throws, OwnerInv, OwnerTypes
<1>2. OwnerTypes'
  BY <1>1 DEF OwnerInv, OwnerTypes
<1>3. ~copied /\ ~guessed => ~Owner!Misses(o, m_handle[o])
  BY DEF OwnerInv, Owner!OwnersAreExclusive, Owner!Misses, Owner!Owners
<1>4. Owner!OwnersAreExclusive'
  BY <1>1, <1>3 DEF OwnerInv, Owner!OwnersAreExclusive, Owner!causes, Owner!Valid
<1>5. Owner!LeaksAreOverwritten'
  BY <1>1 DEF OwnerInv, Owner!LeaksAreOverwritten, Owner!Owners, Owner!causes
<1>6. Owner!FailedIsEmpty'
  BY <1>1 DEF OwnerInv, Owner!FailedIsEmpty, Owner!Invalid, Owner!Valid
<1> QED BY <1>1, <1>2, <1>4, <1>5, <1>6 DEF OwnerInv, Owner!NULL

\* Facts about the places where an operation finds its owner.
LEMMA OwnerFacts ==
    ASSUME OwnerInv, NEW o \in Objects
    PROVE  /\ m_handle[o] \in Owner!Values /\ open \in SUBSET Owner!Handles
           /\ Owner!Closed(m_handle[o]) \in SUBSET Owner!Handles
           /\ kind[o] = "none" => ~Owner!Valid(m_handle[o])
           /\ \A base : Owner!Fresh(base) \subseteq Owner!Handles \ base
           /\ Owner!Fresh(open) \subseteq Owner!Handles \ Owner!Closed(m_handle[o])
BY ValidHandles DEF OwnerInv, OwnerTypes, Owner!Closed, Owner!Fresh

\* The constructors.
LEMMA ConstructorsSettle ==
    ASSUME OwnerInv, NEW o \in Objects,
           \/ Owner!Construct(o) \/ Owner!SmartHandle(o) \/ Owner!SmartServiceHandle(o)
           \/ Owner!SmartRegistryHandle(o) \/ Owner!SmartFileMapHandle(o)
           \/ Owner!SmartFileView(o)
    PROVE  OwnerInv'
<1>1. /\ kind[o] = "none" /\ UNCHANGED <<Owner!causes, wrong>>
      /\ \/ Owner!NoObject(open)
         \/ \E k \in Owner!Kinds, h \in Owner!Fresh(open) \cup {Owner!NULL, Owner!INVALID} :
                Owner!Owns(o, k, h, open)
  <2> USE DEF Owner!Kinds
  <2>1. CASE Owner!Construct(o)
    <3>1. \A k \in Owner!Kinds : Owner!DefaultMember[k] \in {Owner!NULL, Owner!INVALID}
      BY DEF Owner!DefaultMember
    <3> QED BY <2>1, <3>1 DEF Owner!Construct
  <2>2. CASE Owner!SmartHandle(o)
    BY <2>2 DEF Owner!SmartHandle
  <2>3. CASE Owner!SmartServiceHandle(o)
    BY <2>3 DEF Owner!SmartServiceHandle
  <2>4. CASE Owner!SmartRegistryHandle(o)
    BY <2>4 DEF Owner!SmartRegistryHandle
  <2>5. CASE Owner!SmartFileMapHandle(o)
    BY <2>5 DEF Owner!SmartFileMapHandle
  <2>6. CASE Owner!SmartFileView(o)
    BY <2>6 DEF Owner!SmartFileView
  <2> QED BY <2>1, <2>2, <2>3, <2>4, <2>5, <2>6
<1>2. CASE Owner!NoObject(open)
  BY <1>1, <1>2 DEF Owner!NoObject, Owner!causes, OwnerInv, OwnerTypes, Owner!NULL,
      Owner!OwnersAreExclusive, Owner!LeaksAreOverwritten, Owner!FailedIsEmpty,
      Owner!Owners, Owner!Invalid, Owner!Valid
<1>3. ASSUME NEW k \in Owner!Kinds,
             NEW h \in Owner!Fresh(open) \cup {Owner!NULL, Owner!INVALID},
             Owner!Owns(o, k, h, open)
      PROVE  OwnerInv'
  <2>1. Accounts(o, open)
    BY <1>1, OwnerFacts, EmptyAccounts
  <2>2. h \in Owner!Values /\ h \notin open /\ open \in SUBSET Owner!Handles
    BY OwnerFacts, ValidHandles DEF Owner!Valid, Owner!NULL, Owner!INVALID
  <2> QED BY <1>3, <2>1, <2>2, OwnsSettles
<1> QED BY <1>1, <1>2, <1>3

\* The constructor that tests its member first may close anybody's handle: nothing
\* is claimed of the handles afterwards.
LEMMA ReportingSettles ==
    ASSUME OwnerInv, NEW o \in Objects, Owner!SmartHandle_Reporting(o)
    PROVE  OwnerInv'
<1>1. kind[o] = "none" /\ guessed'
  BY DEF Owner!SmartHandle_Reporting
<1>2. PICK after \in SUBSET Owner!Handles :
        Owner!NoObject(after)
        \/ \E h \in Owner!Fresh(open) : Owner!Owns(o, "handle", h, after)
  <2>1. PICK g \in Owner!Values :
            LET after == IF Owner!Valid(g) THEN Owner!Closed(g) ELSE open IN
            Owner!NoObject(after)
            \/ \E h \in Owner!Fresh(open) : Owner!Owns(o, "handle", h, after)
    BY DEF Owner!SmartHandle_Reporting
  <2>2. Owner!Closed(g) \in SUBSET Owner!Handles /\ open \in SUBSET Owner!Handles
    BY DEF OwnerInv, OwnerTypes, Owner!Closed
  <2> QED BY <2>1, <2>2
<1>3. Owner!OwnersAreExclusive' /\ Owner!LeaksAreOverwritten'
  BY <1>1 DEF Owner!OwnersAreExclusive, Owner!LeaksAreOverwritten
<1>4. CASE Owner!NoObject(after)
  BY <1>3, <1>4 DEF Owner!NoObject, OwnerInv, OwnerTypes, Owner!FailedIsEmpty,
                    Owner!Invalid, Owner!Valid, Owner!NULL
<1>5. ASSUME NEW h \in Owner!Fresh(open), Owner!Owns(o, "handle", h, after)
      PROVE  OwnerInv'
  <2>1. h \in Owner!Values /\ h \in Owner!Handles
    BY OwnerFacts, ValidHandles
  <2>2. OwnerTypes' /\ OthersKeep(o) /\ kind'[o] = "handle" /\ ~failed'[o]
    BY <1>5, <2>1 DEF OwnerInv, OwnerTypes, OthersKeep, Owner!Owns, Owner!Kinds
  <2>3. Owner!FailedIsEmpty'
    BY <2>2 DEF OwnerInv, OthersKeep, Owner!FailedIsEmpty, Owner!Invalid, Owner!Valid
  <2>4. \A p \in Objects : kind'[p] = "none" => m_handle'[p] = Owner!NULL
    BY <2>2 DEF OwnerInv, OthersKeep
  <2> QED BY <1>3, <2>2, <2>3, <2>4 DEF OwnerInv, Owner!NULL
<1> QED BY <1>2, <1>4, <1>5

\* A copy: two owners of one handle, so that nothing is claimed of closing it.
LEMMA CopySettles ==
    ASSUME OwnerInv, NEW o \in Objects, NEW p \in Objects, Owner!Copy(o, p)
    PROVE  OwnerInv'
<1>1. kind[o] = "none" /\ kind[p] # "none" /\ copied' /\ open' = open
      /\ UNCHANGED <<guessed, written>>
  BY DEF Owner!Copy
<1>2. OwnerTypes' /\ OthersKeep(o) /\ kind'[o] = kind[p] /\ ~failed'[o]
  BY <1>1 DEF Owner!Copy, OwnerInv, OwnerTypes, OthersKeep, Owner!Owns
<1>3. Owner!OwnersAreExclusive'
  BY <1>1 DEF Owner!OwnersAreExclusive
<1>4. Owner!LeaksAreOverwritten'
  <2>1. \A h : Owner!Owners(h) # {} => Owner!Owners(h)' # {}
    BY <1>1, <1>2 DEF Owner!Owners, OthersKeep
  <2> QED BY <1>1, <2>1 DEF OwnerInv, Owner!LeaksAreOverwritten
<1>5. Owner!FailedIsEmpty'
  BY <1>2 DEF OwnerInv, OthersKeep, Owner!FailedIsEmpty, Owner!Invalid, Owner!Valid
<1>6. \A q \in Objects : kind'[q] = "none" => m_handle'[q] = Owner!NULL
  BY <1>1, <1>2 DEF OwnerInv, OthersKeep
<1> QED BY <1>2, <1>3, <1>4, <1>5, <1>6 DEF OwnerInv, Owner!NULL

\* The operations that close what the owner has.
LEMMA ClosersSettle ==
    ASSUME OwnerInv, NEW o \in Objects,
           \/ Owner!Close(o) \/ Owner!Assign(o) \/ Owner!AssignDuplicate(o)
           \/ Owner!Unmap(o) \/ Owner!AssignMap(o) \/ Owner!UnmapViewOfFile(o)
           \/ Owner!AssignView(o)
    PROVE  OwnerInv'
<1> DEFINE after == Owner!Closed(m_handle[o])
           old == m_handle[o]
<1>1. /\ UNCHANGED Owner!causes /\ wrong' = (wrong \/ Owner!Misses(o, old))
      /\ kind[o] \in {"handle", "map", "view"}
  BY DEF Owner!Close, Owner!Assign, Owner!AssignDuplicate, Owner!Unmap, Owner!AssignMap,
         Owner!UnmapViewOfFile, Owner!AssignView
<1>2. Accounts(o, after)
  BY <1>1, ClosingAccounts
<1>3. /\ old \in Owner!Values /\ after \in SUBSET Owner!Handles
      /\ Owner!Fresh(open) \subseteq Owner!Handles \ after
      /\ Owner!Fresh(after) \subseteq Owner!Handles \ after
  BY OwnerFacts
<1>4. ASSUME NEW k \in Owner!Kinds, NEW h \in Owner!Handles \ after, Owner!Owns(o, k, h, after)
      PROVE  OwnerInv'
  BY <1>2, <1>3, <1>4, OwnsSettles, ValidHandles
<1>5. ASSUME NEW h \in Owner!Values, ~Owner!Valid(h),
             m_handle' = [m_handle EXCEPT ![o] = h], open' = after, kind' = kind,
             failed' = failed \/ failed' = [failed EXCEPT ![o] = TRUE]
      PROVE  OwnerInv'
  BY <1>1, <1>2, <1>3, <1>5, ThrowsSettles
<1>6. ASSUME NEW h \in Owner!Values, ~Owner!Valid(h), Owner!Throws(o, h, after)
      PROVE  OwnerInv'
  BY <1>5, <1>6 DEF Owner!Throws
<1>7. Owner!CloseMember(old) \in Owner!Values /\ ~Owner!Valid(Owner!CloseMember(old))
  BY <1>3, ValidHandles DEF Owner!CloseMember
<1> HIDE DEF after, old
<1>8. CASE Owner!Close(o)
  BY <1>5, <1>7, <1>8 DEF Owner!Close, after, old
<1>9. CASE Owner!Assign(o)
  BY <1>3, <1>4, <1>6, <1>9, ValidHandles DEF Owner!Assign, Owner!Kinds, after, old
<1>10. CASE Owner!AssignDuplicate(o)
  BY <1>3, <1>4, <1>6, <1>7, <1>10 DEF Owner!AssignDuplicate, Owner!Kinds, after, old
<1>11. CASE Owner!Unmap(o)
  BY <1>5, <1>11, ValidHandles DEF Owner!Unmap, after, old
<1>12. CASE Owner!AssignMap(o)
  BY <1>3, <1>4, <1>6, <1>12, ValidHandles DEF Owner!AssignMap, Owner!Kinds, after, old
<1>13. ASSUME Owner!Throws(o, old, open), kind[o] = "view"
       PROVE  OwnerInv'
  <2>1. wrong' => wrong \/ Owner!Misses(o, old)
    BY <1>1, Zenon
  <2> QED BY <1>1, <1>13, <2>1, ViewKeeps DEF old
<1>14. CASE Owner!UnmapViewOfFile(o)
  <2>1. Owner!Owns(o, "view", Owner!NULL, after) => OwnerInv'
    <3>1. Owner!NULL \notin after /\ Owner!NULL \in Owner!Values
      BY <1>3, ValidHandles
    <3> QED BY <1>2, <1>3, <3>1, OwnsSettles DEF Owner!Kinds
  <2> QED BY <1>13, <1>14, <2>1 DEF Owner!UnmapViewOfFile, after, old
<1>15. CASE Owner!AssignView(o)
  <2>1. \/ Owner!Throws(o, old, open) \/ Owner!Throws(o, Owner!NULL, after)
        \/ \E v \in Owner!Fresh(after) : Owner!Owns(o, "view", v, after)
    BY <1>15 DEF Owner!AssignView, after, old
  <2>2. kind[o] = "view"
    BY <1>15 DEF Owner!AssignView
  <2> QED BY <1>3, <1>4, <1>6, <1>13, <2>1, <2>2, ValidHandles DEF Owner!Kinds
<1> QED BY <1>8, <1>9, <1>10, <1>11, <1>12, <1>14, <1>15

\* The operations that close nothing: overwriting, and Remap.
LEMMA OverwritersSettle ==
    ASSUME OwnerInv, NEW o \in Objects,
           \/ Owner!WriteMember(o) \/ Owner!AssignService(o) \/ Owner!AssignKey(o)
           \/ Owner!RemapMap(o) \/ Owner!RemapView(o)
    PROVE  OwnerInv'
<1>1. open \in SUBSET Owner!Handles /\ Owner!Fresh(open) \subseteq Owner!Handles \ open
  BY OwnerFacts
<1>2. ASSUME Accounts(o, open), NEW k \in Owner!Kinds, NEW h \in Owner!Fresh(open),
             Owner!Owns(o, k, h, open)
      PROVE  OwnerInv'
  BY <1>1, <1>2, OwnsSettles, ValidHandles
<1>3. ASSUME Accounts(o, open), kind[o] # "none", Owner!Throws(o, Owner!NULL, open)
      PROVE  OwnerInv'
  BY <1>1, <1>3, ThrowsSettles, ValidHandles DEF Owner!Throws
<1>4. ASSUME NEW k \in Owner!Kinds, Owner!Overwrites(o, k)
      PROVE  OwnerInv'
  BY <1>2, <1>4, OverwritingAccounts DEF Owner!Overwrites
<1>5. CASE Owner!RemapMap(o)
  <2>1. Accounts(o, open)
    BY <1>5, OverwritingAccounts DEF Owner!RemapMap
  <2> QED BY <1>2, <1>3, <1>5, <2>1 DEF Owner!RemapMap, Owner!Kinds
<1>6. CASE Owner!RemapView(o)
  <2>1. CASE Owner!Throws(o, m_handle[o], open)
    BY <1>6, <2>1, ViewKeeps DEF Owner!RemapView
  <2>2. CASE Owner!Invalid(m_handle[o])
    <3>1. Accounts(o, open)
      BY <1>6, <2>2, EmptyAccounts DEF Owner!RemapView, Owner!Invalid
    <3> QED BY <1>2, <1>3, <1>6, <2>1, <3>1 DEF Owner!RemapView, Owner!Kinds
  <2> QED BY <1>6, <2>1, <2>2 DEF Owner!RemapView
<1> QED BY <1>4, <1>5, <1>6
        DEF Owner!WriteMember, Owner!AssignService, Owner!AssignKey, Owner!Kinds

\* Every operation of the owners keeps each handle with one owner.
LEMMA OwnerNext == OwnerInv /\ [Owner!Next]_ownerVars => OwnerInv'
<1> SUFFICES ASSUME OwnerInv, [Owner!Next]_ownerVars PROVE OwnerInv'
  OBVIOUS
<1>1. CASE UNCHANGED ownerVars
  BY <1>1 DEF ownerVars, OwnerInv, OwnerTypes, Owner!NULL, Owner!OwnersAreExclusive,
      Owner!LeaksAreOverwritten, Owner!FailedIsEmpty, Owner!Owners, Owner!Invalid, Owner!Valid
<1>2. CASE Owner!Next
  BY <1>2, ConstructorsSettle, ReportingSettles, CopySettles, ClosersSettle,
     OverwritersSettle, DestroySettles
  DEF Owner!Next, Owner!DestroyHandle, Owner!DestroyView, Owner!DestroyMap,
      Owner!DestroyService, Owner!DestroyKey
<1> QED BY <1>1, <1>2

\* The owners of handles, in whatever order they are used.
LEMMA OwnerAlways == Owner!Spec => []Owner!HandlesAreOwned
<1>1. [Owner!Next]_Owner!vars => [Owner!Next]_ownerVars
  BY DEF Owner!vars, Owner!causes, ownerVars
<1>2. OwnerInv => Owner!HandlesAreOwned
  BY DEF OwnerInv, OwnerTypes, Owner!HandlesAreOwned, Owner!TypeOK
<1> QED BY <1>1, <1>2, OwnerInit, OwnerNext, PTL DEF Owner!Spec

-----------------------------------------------------------------------------
(* JsonText: texts of tokens.                                               *)

Tokens == [sort : {"open", "close", "comma", "member"}, key : Int, kind : Json!Kinds]

\* The tokens are different ones.
LEMMA TokenFacts ==
    /\ Json!Open \in Tokens /\ Json!Close \in Tokens /\ Json!Comma \in Tokens
    /\ \A n \in Int, kd \in Json!Kinds :
        /\ Json!Member(n, kd) \in Tokens /\ Json!Member(n, kd).sort = "member"
        /\ Json!Member(n, kd).kind = kd /\ Json!Member(n, kd) # Json!Comma
        /\ Json!Member(n, kd) # Json!Close
    /\ Json!Open # Json!Close /\ Json!Comma # Json!Close /\ Json!Open # Json!Comma
    /\ Json!Comma.sort # "member"
BY DEF Tokens, Json!Open, Json!Close, Json!Comma, Json!Member, Json!Token, Json!Kinds

\* Members at the even places, none with a quote, and commas at the odd ones.
Alternates(t) ==
    \A i \in 2..Len(t) :
        IF i % 2 = 0 THEN t[i].sort = "member" /\ t[i].kind # "quoted" ELSE t[i] = Json!Comma

\* A text under construction, after the members a.
Grown(t, a) ==
    /\ t \in Seq(Tokens) /\ Len(t) >= 1 /\ t[1] = Json!Open
    /\ t[Len(t)] # Json!Close
    /\ a \in Seq([kind : Json!Kinds, comma : BOOLEAN])
    /\ Len(t) = 1 <=> a = <<>>
    /\ a # <<>> => IF a[Len(a)].comma THEN t[Len(t)] = Json!Comma
                                     ELSE t[Len(t)].sort = "member"
    /\ Alternates(t) <=>
        /\ \A i \in DOMAIN a : a[i].kind # "quoted"
        /\ \A i \in 1..(Len(a) - 1) : a[i].comma

\* The text alternates on its first part when a token is put behind it.
LEMMA AlternatesAppend ==
    ASSUME NEW t \in Seq(Tokens), NEW x \in Tokens, Len(t) >= 1
    PROVE  Alternates(Append(t, x)) <=>
            /\ Alternates(t)
            /\ IF Len(t) % 2 = 1 THEN x.sort = "member" /\ x.kind # "quoted" ELSE x = Json!Comma
<1> DEFINE u == Append(t, x)
<1>1. /\ u \in Seq(Tokens) /\ Len(u) = Len(t) + 1 /\ Len(t) \in Nat /\ u[Len(t) + 1] = x
      /\ \A i \in 1..Len(t) : u[i] = t[i]
  OBVIOUS
<1>2. (Len(t) + 1) % 2 = 0 <=> Len(t) % 2 = 1
  BY <1>1
<1> HIDE DEF u
<1>3. Alternates(u) => Alternates(t)
  BY <1>1 DEF Alternates
<1>4. Alternates(u) => IF Len(t) % 2 = 1 THEN x.sort = "member" /\ x.kind # "quoted" ELSE x = Json!Comma
  <2>1. Len(t) + 1 \in 2..Len(u)
    BY <1>1
  <2> QED BY <1>1, <1>2, <2>1 DEF Alternates
<1>5. ASSUME Alternates(t),
             IF Len(t) % 2 = 1 THEN x.sort = "member" /\ x.kind # "quoted" ELSE x = Json!Comma
      PROVE  Alternates(u)
  <2> SUFFICES ASSUME NEW i \in 2..Len(u)
               PROVE  IF i % 2 = 0 THEN u[i].sort = "member" /\ u[i].kind # "quoted"
                      ELSE u[i] = Json!Comma
    BY DEF Alternates
  <2>1. CASE i = Len(t) + 1
    BY <1>1, <1>2, <1>5, <2>1
  <2>2. CASE i \in 2..Len(t)
    BY <1>1, <1>5, <2>2 DEF Alternates
  <2> QED BY <1>1, <2>1, <2>2
<1> QED BY <1>3, <1>4, <1>5 DEF u

\* Places and their parity.
LEMMA Parity ==
    \A n \in Nat :
        /\ (n + 1) % 2 = 1 <=> n % 2 = 0
        /\ n + 1 = 2 <=> n = 1
        /\ n >= 1 /\ n # 1 => n \in 2..n
OBVIOUS

\* A text that alternates ends with a comma, or begins, at an odd place.
LEMMA GrownParity ==
    ASSUME NEW t, NEW a, Grown(t, a), Alternates(t)
    PROVE  Len(t) % 2 = 1 <=> (a = <<>> \/ a[Len(a)].comma)
<1>1. Len(t) \in Nat /\ Len(t) >= 1
  BY DEF Grown
<1>4. Len(t) = 1 <=> a = <<>>
  BY DEF Grown
<1>2. CASE a = <<>>
  <2>1. Len(t) = 1
    BY <1>2, <1>4, Zenon
  <2> QED BY <1>2, <2>1
<1>3. CASE a # <<>>
  <2>1. Len(t) \in 2..Len(t)
    <3>1. Len(t) # 1
      BY <1>3, <1>4, Zenon
    <3> QED BY <1>1, <3>1, Parity
  <2>2. IF Len(t) % 2 = 0 THEN t[Len(t)].sort = "member" ELSE t[Len(t)] = Json!Comma
    BY <2>1 DEF Alternates
  <2>3. a[Len(a)].comma => Len(t) % 2 = 1
    BY <1>1, <1>3, <2>2, TokenFacts DEF Grown
  <2>4. ~a[Len(a)].comma => Len(t) % 2 # 1
    BY <1>1, <1>3, <2>2, TokenFacts DEF Grown
  <2> QED BY <1>3, <2>3, <2>4
<1> QED BY <1>2, <1>3

Pieces == Seq([kind : Json!Kinds, comma : BOOLEAN])
Fine(a) ==
    /\ \A i \in DOMAIN a : a[i].kind # "quoted"
    /\ \A i \in 1..(Len(a) - 1) : a[i].comma

\* A member more, with its comma or without.
LEMMA FineAppend ==
    ASSUME NEW a \in Pieces, NEW p \in [kind : Json!Kinds, comma : BOOLEAN]
    PROVE  Fine(Append(a, p)) <=>
                Fine(a) /\ p.kind # "quoted" /\ (a = <<>> \/ a[Len(a)].comma)
<1> DEFINE b == Append(a, p)
<1>1. /\ b \in Pieces /\ Len(b) = Len(a) + 1 /\ Len(a) \in Nat /\ b[Len(a) + 1] = p
      /\ \A i \in 1..Len(a) : b[i] = a[i]
      /\ DOMAIN b = 1..Len(b) /\ DOMAIN a = 1..Len(a)
      /\ a = <<>> <=> Len(a) = 0
  BY DEF Pieces
<1> HIDE DEF b
<1>2. Fine(b) => Fine(a) /\ p.kind # "quoted" /\ (a = <<>> \/ a[Len(a)].comma)
  BY <1>1 DEF Fine
<1>3. ASSUME Fine(a), p.kind # "quoted", a = <<>> \/ a[Len(a)].comma
      PROVE  Fine(b)
  <2>1. ASSUME NEW i \in DOMAIN b PROVE b[i].kind # "quoted"
    <3>1. CASE i = Len(a) + 1
      BY <1>1, <1>3, <3>1
    <3>2. CASE i \in 1..Len(a)
      BY <1>1, <1>3, <3>2 DEF Fine
    <3> QED BY <1>1, <3>1, <3>2
  <2>2. ASSUME NEW i \in 1..(Len(b) - 1) PROVE b[i].comma
    <3>3. i \in 1..Len(a)
      BY <1>1
    <3>1. CASE i = Len(a)
      BY <1>1, <1>3, <3>1
    <3>2. CASE i \in 1..(Len(a) - 1)
      BY <1>1, <1>3, <3>2 DEF Fine
    <3>4. Len(a) \in Nat
      BY <1>1
    <3>5. i = Len(a) \/ i \in 1..(Len(a) - 1)
      BY <3>3, <3>4
    <3> QED BY <3>1, <3>2, <3>5
  <2> QED BY <2>1, <2>2 DEF Fine
<1> QED BY <1>2, <1>3 DEF b

\* One call of json_append without a comma makes the grown text longer by a member.
LEMMA GrownAppend ==
    ASSUME NEW t, NEW a, Grown(t, a), NEW n \in Int, NEW kd \in Json!Kinds,
           NEW c \in BOOLEAN
    PROVE  Grown(Json!Appended(t, n, kd, c), Append(a, [kind |-> kd, comma |-> c]))
<1> DEFINE m == Json!Member(n, kd)
           p == [kind |-> kd, comma |-> c]
           u == Append(t, m)
           v == Append(u, Json!Comma)
           b == Append(a, p)
<1>1. /\ m \in Tokens /\ m.sort = "member" /\ m.kind = kd /\ m # Json!Close /\ m # Json!Comma
      /\ p.kind = kd /\ (p.comma <=> c) /\ p \in [kind : Json!Kinds, comma : BOOLEAN]
  BY TokenFacts
<1> HIDE DEF m, p
<1>2. /\ u \in Seq(Tokens) /\ Len(u) = Len(t) + 1 /\ u[Len(u)] = m /\ u[1] = t[1]
      /\ Len(t) \in Nat /\ Len(t) >= 1 /\ t[1] = Json!Open /\ t \in Seq(Tokens)
  BY <1>1 DEF Grown
<1>3. /\ b \in Pieces /\ b # <<>> /\ b[Len(b)] = p /\ a \in Pieces
  BY <1>1 DEF Pieces, Grown
<1>4. Fine(b) <=> Fine(a) /\ kd # "quoted" /\ (a = <<>> \/ a[Len(a)].comma)
  BY <1>1, <1>3, FineAppend
<1>5. Alternates(t) <=> Fine(a)
  BY DEF Grown, Fine
<1>6. Alternates(u) <=> Fine(b)
  <2>1. Alternates(u) <=> Alternates(t) /\ Len(t) % 2 = 1 /\ kd # "quoted"
    BY <1>1, <1>2, AlternatesAppend
  <2>2. Alternates(t) => (Len(t) % 2 = 1 <=> (a = <<>> \/ a[Len(a)].comma))
    BY GrownParity
  <2> QED BY <1>4, <1>5, <2>1, <2>2
<1> HIDE DEF u
<1>7. /\ v \in Seq(Tokens) /\ Len(v) = Len(u) + 1 /\ v[Len(v)] = Json!Comma /\ v[1] = u[1]
  BY <1>2, TokenFacts
<1>8. Alternates(v) <=> Fine(b)
  <2>1. Alternates(u) => Len(u) % 2 = 0
    <3>1. Alternates(u) => Len(t) % 2 = 1
      BY <1>1, <1>2, AlternatesAppend DEF u
    <3> QED BY <1>2, <3>1
  <2>2. Alternates(v) <=> Alternates(u) /\ (Len(u) % 2 = 1 => FALSE)
    <3>1. Len(u) >= 1
      BY <1>2
    <3> QED BY <1>2, <3>1, AlternatesAppend, TokenFacts
  <2>3. Len(u) \in Nat
    BY <1>2
  <2> QED BY <1>6, <2>1, <2>2, <2>3
<1> HIDE DEF v, b
<1>9. Grown(u, b) \/ c
  <2> SUFFICES ASSUME ~c PROVE Grown(u, b)
    OBVIOUS
  <2>1. u[Len(u)] # Json!Close /\ Len(u) # 1 /\ Len(u) >= 1
    BY <1>1, <1>2
  <2>2. IF b[Len(b)].comma THEN u[Len(u)] = Json!Comma ELSE u[Len(u)].sort = "member"
    BY <1>1, <1>2, <1>3
  <2> QED BY <1>2, <1>3, <1>6, <2>1, <2>2 DEF Grown, Fine, Pieces
<1>10. Grown(v, b) \/ ~c
  <2> SUFFICES ASSUME c PROVE Grown(v, b)
    OBVIOUS
  <2>1. v[Len(v)] # Json!Close /\ Len(v) # 1 /\ Len(v) >= 1
    BY <1>2, <1>7, TokenFacts
  <2>2. IF b[Len(b)].comma THEN v[Len(v)] = Json!Comma ELSE v[Len(v)].sort = "member"
    BY <1>1, <1>3, <1>7
  <2> QED BY <1>2, <1>3, <1>7, <1>8, <2>1, <2>2 DEF Grown, Fine, Pieces
<1>11. Json!Appended(t, n, kd, c) = IF c THEN v ELSE u
  BY DEF Json!Appended, u, v, m
<1> QED BY <1>9, <1>10, <1>11 DEF b, p

\* The text that json_start makes.
LEMMA GrownStart == Grown(<<Json!Open>>, <<>>)
BY TokenFacts DEF Grown, Alternates

\* json_end: the text can be read exactly when the commas are right.
LEMMA GrownEnds ==
    ASSUME NEW t, NEW a, Grown(t, a)
    PROVE  /\ Json!IsObject(Append(t, Json!Close)) <=>
                \A i \in DOMAIN a :
                    /\ a[i].comma = (i < Len(a))
                    /\ a[i].kind # "quoted"
           /\ Len(Append(t, Json!Close)) >= 2
           /\ Append(t, Json!Close)[1] = Json!Open
           /\ Append(t, Json!Close)[Len(Append(t, Json!Close))] = Json!Close
<1> DEFINE u == Append(t, Json!Close)
<1>1. /\ u \in Seq(Tokens) /\ Len(u) = Len(t) + 1 /\ Len(t) \in Nat /\ Len(t) >= 1
      /\ u[Len(u)] = Json!Close /\ u[1] = Json!Open
      /\ \A i \in 1..Len(t) : u[i] = t[i]
  BY TokenFacts DEF Grown
<1> HIDE DEF u
<1>2. Json!IsObject(u) <=> Alternates(t) /\ (Len(t) = 1 \/ Len(t) % 2 = 0)
  <2>1. ASSUME Json!IsObject(u)
        PROVE  Alternates(t) /\ (Len(t) = 1 \/ Len(t) % 2 = 0)
    <3>1. Len(u) = 2 \/ Len(u) % 2 = 1
      BY <2>1 DEF Json!IsObject
    <3>4. Len(t) \in Nat /\ Len(u) = Len(t) + 1
      BY <1>1
    <3>2. Len(t) = 1 \/ Len(t) % 2 = 0
      BY <3>1, <3>4, Parity
    <3>3. ASSUME NEW i \in 2..Len(t)
          PROVE  IF i % 2 = 0 THEN t[i].sort = "member" /\ t[i].kind # "quoted"
                 ELSE t[i] = Json!Comma
      <4>1. i \in 2..(Len(u) - 1) /\ u[i] = t[i]
        BY <1>1
      <4> QED BY <2>1, <4>1 DEF Json!IsObject
    <3> QED BY <3>2, <3>3 DEF Alternates
  <2>2. ASSUME Alternates(t), Len(t) = 1 \/ Len(t) % 2 = 0
        PROVE  Json!IsObject(u)
    <3>1. Len(u) = 2 \/ Len(u) % 2 = 1
      BY <1>1, <2>2
    <3>2. ASSUME NEW i \in 2..(Len(u) - 1)
          PROVE  IF i % 2 = 0 THEN u[i].sort = "member" /\ u[i].kind # "quoted"
                 ELSE u[i] = Json!Comma
      <4>1. i \in 2..Len(t) /\ u[i] = t[i]
        BY <1>1
      <4> QED BY <2>2, <4>1 DEF Alternates
    <3> QED BY <1>1, <3>1, <3>2 DEF Json!IsObject
  <2> QED BY <2>1, <2>2
<1>3. Alternates(t) <=> Fine(a)
  BY DEF Grown, Fine
<1>4. Alternates(t) => ((Len(t) = 1 \/ Len(t) % 2 = 0) <=> (a = <<>> \/ ~a[Len(a)].comma))
  <2>1. Len(t) % 2 = 0 <=> ~(Len(t) % 2 = 1)
    BY <1>1
  <2> QED BY <2>1, GrownParity DEF Grown
<1>5. /\ a \in Pieces /\ DOMAIN a = 1..Len(a) /\ Len(a) \in Nat
      /\ a = <<>> <=> Len(a) = 0
  BY DEF Grown, Pieces
<1>6. (Fine(a) /\ (a = <<>> \/ ~a[Len(a)].comma)) <=>
        \A i \in DOMAIN a : a[i].comma = (i < Len(a)) /\ a[i].kind # "quoted"
  <2>1. \A i \in DOMAIN a : a[i].comma = (i < Len(a)) <=> (a[i].comma <=> i < Len(a))
    <3>2. \A i \in DOMAIN a : a[i] \in [kind : Json!Kinds, comma : BOOLEAN]
      <4>1. a \in Seq([kind : Json!Kinds, comma : BOOLEAN])
        BY <1>5 DEF Pieces
      <4> QED BY <1>5, <4>1, ElementOfSeq
    <3>1. \A i \in DOMAIN a : a[i].comma \in BOOLEAN
      BY <3>2
    <3> QED BY <3>1
  <2>2. ASSUME Fine(a), a = <<>> \/ ~a[Len(a)].comma, NEW i \in DOMAIN a
        PROVE  (a[i].comma <=> i < Len(a)) /\ a[i].kind # "quoted"
    <3>1. CASE i = Len(a)
      BY <1>5, <2>2, <3>1 DEF Fine
    <3>2. CASE i \in 1..(Len(a) - 1)
      BY <1>5, <2>2, <3>2 DEF Fine
    <3> QED BY <1>5, <3>1, <3>2
  <2>3. ASSUME \A i \in DOMAIN a : (a[i].comma <=> i < Len(a)) /\ a[i].kind # "quoted"
        PROVE  Fine(a) /\ (a = <<>> \/ ~a[Len(a)].comma)
    <3>1. ASSUME a # <<>> PROVE ~a[Len(a)].comma
      <4>1. Len(a) \in DOMAIN a
        BY <1>5, <3>1
      <4> QED BY <1>5, <2>3, <4>1
    <3>2. \A i \in 1..(Len(a) - 1) : a[i].comma
      BY <1>5, <2>3
    <3> QED BY <2>3, <3>1, <3>2 DEF Fine
  <2> QED BY <2>1, <2>2, <2>3
<1> QED BY <1>1, <1>2, <1>3, <1>4, <1>6 DEF u

\* A piece with its comma behind it.
Wanted(k) == [kind |-> k, comma |-> TRUE]
WithComma(t, n, k) == Json!Appended(t, n, k, TRUE)

\* With a comma it makes it longer by a member and a comma.
LEMMA GrownWithComma ==
    ASSUME NEW t, NEW a, Grown(t, a), NEW n \in Int, NEW kd \in Json!Kinds
    PROVE  Grown(WithComma(t, n, kd), Append(a, Wanted(kd)))
<1>1. \A c \in BOOLEAN :
        Grown(Json!Appended(t, n, kd, c), Append(a, [kind |-> kd, comma |-> c]))
  BY GrownAppend
<1>2. TRUE \in BOOLEAN
  OBVIOUS
<1> QED BY <1>1, <1>2, Zenon DEF Wanted, WithComma

\* Without the comma of its last member: the text before it, and its end.
LEMMA RepairedText ==
    ASSUME NEW u \in Seq(Tokens)
    PROVE  Json!Repaired(Append(Append(u, Json!Comma), Json!Close)) = Append(u, Json!Close)
<1> DEFINE v == Append(u, Json!Comma)
           w == Append(v, Json!Close)
<1>1. /\ Len(u) \in Nat /\ w \in Seq(Tokens) /\ Len(w) = Len(u) + 2
      /\ \A i \in 1..Len(u) : w[i] = u[i]
  BY TokenFacts
<1> HIDE DEF w
<1>2. Len(w) - 2 = Len(u)
  BY <1>1
<1>3. SubSeq(w, 1, Len(u)) = u
  <2>1. /\ SubSeq(w, 1, Len(u)) \in Seq(Tokens) /\ Len(SubSeq(w, 1, Len(u))) = Len(u)
        /\ \A i \in 1..Len(u) : SubSeq(w, 1, Len(u))[i] = w[i]
    BY <1>1
  <2> QED BY <1>1, <2>1
<1>4. Json!Repaired(w) = Append(u, Json!Close)
  BY <1>2, <1>3 DEF Json!Repaired
<1> QED BY <1>4 DEF w

\* json_data_make: whatever the data, the comma behind it makes the answer one that
\* read_json refuses; without it only data with a quote would.
LEMMA AnswersRefused ==
    ASSUME NEW d \in {"string", "quoted"}
    PROVE  /\ ~Json!IsObject(Json!Answer(d))
           /\ Json!IsObject(Json!Repaired(Json!Answer(d))) <=> d # "quoted"
           /\ Json!Answer(d) # <<>> /\ Json!Answer(d)[1] = Json!Open
           /\ Json!Answer(d)[Len(Json!Answer(d))] = Json!Close
<1>0. d \in Json!Kinds
  BY DEF Json!Kinds
<1> DEFINE t0 == <<Json!Open>>
           a0 == <<>>
           t1 == WithComma(t0, 1, "bare")
           t2 == WithComma(t1, 2, "string")
           t3 == WithComma(t2, 3, d)
           a1 == Append(a0, Wanted("bare"))
           a2 == Append(a1, Wanted("string"))
           a3 == Append(a2, Wanted(d))
           answer == Append(t3, Json!Close)
           plain == [kind |-> d, comma |-> FALSE]
           u == Json!Appended(t2, 3, d, FALSE)
           b3 == Append(a2, plain)
<1>13. t3 = Append(u, Json!Comma)
  BY DEF WithComma, Json!Appended
<1>1. Json!Answer(d) = answer
  BY DEF Json!Answer, WithComma
<1>12. Grown(t0, a0)
  BY GrownStart
<1>2. "bare" \in Json!Kinds /\ "string" \in Json!Kinds
  BY DEF Json!Kinds
<1> HIDE DEF t0, a0, t1, t2, t3, a1, a2, a3, answer, u, b3, plain
<1>3. Grown(t1, a1)
  BY <1>2, <1>12, GrownWithComma DEF t1, a1
<1>4. Grown(t2, a2)
  BY <1>2, <1>3, GrownWithComma DEF t2, a2
<1>5. Grown(t3, a3)
  BY <1>0, <1>4, GrownWithComma DEF t3, a3
<1>6. a2 \in Pieces /\ Wanted(d) \in [kind : Json!Kinds, comma : BOOLEAN]
  BY <1>0, <1>4 DEF Grown, Pieces, Wanted
<1>7. Len(a3) \in DOMAIN a3 /\ a3[Len(a3)] = Wanted(d) /\ Len(a3) \in Nat
  BY <1>6 DEF a3, Pieces
<1>8. a3[Len(a3)].comma = TRUE /\ ~(Len(a3) < Len(a3))
  BY <1>7 DEF Wanted
<1>9. /\ Json!IsObject(answer) <=>
            \A i \in DOMAIN a3 : a3[i].comma = (i < Len(a3)) /\ a3[i].kind # "quoted"
      /\ Len(answer) >= 2 /\ answer[1] = Json!Open /\ answer[Len(answer)] = Json!Close
  BY <1>5, GrownEnds DEF answer
<1>10. ~Json!IsObject(answer)
  <2> SUFFICES ASSUME Json!IsObject(answer) PROVE FALSE
    OBVIOUS
  <2>1. a3[Len(a3)].comma = (Len(a3) < Len(a3))
    BY <1>7, <1>9, Zenon
  <2> QED BY <1>8, <2>1, Zenon
<1>11. answer # <<>>
  BY <1>9
<1>14. Json!Repaired(answer) = Append(u, Json!Close) /\ Grown(u, b3)
  <2>1. Grown(u, b3)
    <3>1. \A c \in BOOLEAN :
            Grown(Json!Appended(t2, 3, d, c), Append(a2, [kind |-> d, comma |-> c]))
      BY <1>0, <1>4, GrownAppend
    <3> QED BY <3>1, Zenon DEF u, b3, plain
  <2>2. u \in Seq(Tokens)
    BY <2>1 DEF Grown
  <2> QED BY <1>13, <2>1, <2>2, RepairedText, Zenon DEF answer
<1>15. Json!IsObject(Append(u, Json!Close)) <=>
            \A i \in DOMAIN b3 : b3[i].comma = (i < Len(b3)) /\ b3[i].kind # "quoted"
  BY <1>14, GrownEnds
<1>16. /\ Len(b3) = 3 /\ DOMAIN b3 = 1..3
       /\ b3[1] = Wanted("bare") /\ b3[2] = Wanted("string") /\ b3[3] = plain
  BY DEF a0, a1, a2, b3
<1>17. (\A i \in DOMAIN b3 : b3[i].comma = (i < Len(b3)) /\ b3[i].kind # "quoted")
            <=> d # "quoted"
  <2>1. /\ b3[1].comma = TRUE /\ b3[1].kind # "quoted"
        /\ b3[2].comma = TRUE /\ b3[2].kind # "quoted"
        /\ b3[3].comma = FALSE /\ b3[3].kind = d
    BY <1>16 DEF Wanted, plain
  <2>2. /\ (1 < Len(b3)) = TRUE /\ (2 < Len(b3)) = TRUE /\ (3 < Len(b3)) = FALSE
        /\ \A i \in DOMAIN b3 : i = 1 \/ i = 2 \/ i = 3
        /\ 1 \in DOMAIN b3 /\ 2 \in DOMAIN b3 /\ 3 \in DOMAIN b3
    BY <1>16
  <2> HIDE DEF b3, plain
  <2> QED BY <2>1, <2>2, Zenon
<1> QED BY <1>1, <1>9, <1>10, <1>11, <1>14, <1>15, <1>17

\* A ptree writes texts that can be read.
LEMMA WrittenRead ==
    ASSUME NEW keys, Len(keys) \in Nat \ {0}
    PROVE  /\ Json!IsObject(Json!Written(keys))
           /\ Json!Written(keys) # <<>> /\ Json!Written(keys)[1] = Json!Open
           /\ Json!Written(keys)[Len(Json!Written(keys))] = Json!Close
<1> DEFINE last == 2 * Len(keys) + 1
           w == [i \in 1..last |-> IF i = 1 THEN Json!Open ELSE IF i = last THEN Json!Close
                           ELSE IF i % 2 = 0 THEN Json!Member(keys[i \div 2], "string")
                           ELSE Json!Comma]
<1>1. Json!Written(keys) = w
  BY DEF Json!Written
<1>2. last \in Nat /\ last >= 3 /\ last % 2 = 1
  OBVIOUS
<1>3. \A n : Json!Member(n, "string").sort = "member" /\ Json!Member(n, "string").kind # "quoted"
  BY DEF Json!Member
<1> HIDE DEF last
<1>4. DOMAIN w = 1..last /\ Len(w) = last
  BY <1>2
<1>5. w[1] = Json!Open /\ w[last] = Json!Close
  BY <1>2
<1>6. \A i \in 2..(last - 1) :
        w[i] = IF i % 2 = 0 THEN Json!Member(keys[i \div 2], "string") ELSE Json!Comma
  BY <1>2
<1> HIDE DEF w
<1>7. Json!IsObject(w)
  BY <1>2, <1>3, <1>4, <1>5, <1>6 DEF Json!IsObject
<1>8. w # <<>>
  BY <1>2, <1>4
<1> QED BY <1>1, <1>4, <1>5, <1>7, <1>8

-----------------------------------------------------------------------------
(* JsonText: the state between the calls.                                   *)

\* ParseJsonData finds a key when the text can be read and has it and every key
\* before it.
Found(k) ==
    /\ body # <<>> /\ Json!IsObject(body)
    /\ \A j \in Keys : j <= k => j \in Json!KeysOf(body)

JsonTexts ==
    /\ appended \in Pieces /\ Len(appended) \in 0..MaxMembers
    /\ \/ text = <<>>
       \/ Grown(text, appended)
       \/ \E t : Grown(t, appended) /\ text = Append(t, Json!Close)
    /\ body # <<>> => body[1] = Json!Open /\ body[Len(body)] = Json!Close
    /\ origin = "answer" =>
        /\ ~Json!IsObject(body)
        /\ text = <<>>
        /\ Json!IsObject(Json!Repaired(body)) <=> appended = <<>>
    /\ origin = "ptree" => Json!IsObject(body)

JsonParsed ==
    /\ odata \in [Keys -> {"empty", "set"}]
    /\ parsed \in {"none", "true", "false"}
    /\ \A k \in Keys : odata[k] = "set" => Found(k)
    /\ parsed = "true" => \A k \in Keys : odata[k] = "set"
    /\ parsed = "false" => \E k \in Keys : ~Found(k)

JsonInv == JsonTexts /\ JsonParsed

\* No text has been made and no data parsed.
LEMMA JsonInit == Json!Init => JsonInv
<1> SUFFICES ASSUME Json!Init PROVE JsonInv
  OBVIOUS
<1>1. JsonTexts
  <2>1. <<>> \in Pieces /\ Len(<<>>) \in 0..MaxMembers
    BY SampleAssumption DEF Pieces
  <2> QED BY <2>1 DEF Json!Init, JsonTexts, Json!None
<1>2. JsonParsed
  BY DEF Json!Init, JsonParsed, Json!NoData
<1> QED BY <1>1, <1>2 DEF JsonInv

\* A text that is begun or ended, as the code's guards see it.
LEMMA JsonGuards ==
    ASSUME JsonTexts, text # <<>>
    PROVE  /\ text[Len(text)] # Json!Close => Grown(text, appended)
           /\ text[Len(text)] = Json!Close =>
                \E t : Grown(t, appended) /\ text = Append(t, Json!Close)
<1>1. ASSUME NEW t, Grown(t, appended), text = Append(t, Json!Close)
      PROVE  text[Len(text)] = Json!Close
  BY <1>1, GrownEnds
<1>2. Grown(text, appended) => text[Len(text)] # Json!Close
  BY DEF Grown
<1> QED BY <1>1, <1>2 DEF JsonTexts

\* What does not touch the body keeps what was parsed.
LEMMA JsonKeepsParsed ==
    ASSUME JsonParsed, UNCHANGED <<body, odata, parsed>>
    PROVE  JsonParsed'
BY DEF JsonParsed, Found

\* A new body, or none: its reader begins anew.
LEMMA JsonBeginsAnew ==
    ASSUME odata' = Json!NoData, parsed' = "none"
    PROVE  JsonParsed'
BY DEF JsonParsed, Json!NoData

\* A text that is handed out is one the invariant knows how to read.
LEMMA JsonHandsOut ==
    ASSUME JsonInv, NEW t, NEW from \in {"answer", "ptree"},
           NEW members \in Pieces, Len(members) \in 0..MaxMembers,
           Json!HandOut(t, from, members),
           t # <<>>, t[1] = Json!Open, t[Len(t)] = Json!Close,
           from = "answer" =>
                ~Json!IsObject(t) /\ (Json!IsObject(Json!Repaired(t)) <=> members = <<>>),
           from = "ptree" => Json!IsObject(t)
    PROVE  JsonInv'
<1>1. JsonTexts'
  <2>1. /\ body' = t /\ origin' = from /\ text' = <<>> /\ appended' = members
    BY DEF Json!HandOut, Json!None
  <2>2. appended' \in Pieces /\ Len(appended') \in 0..MaxMembers
    BY <2>1
  <2>3. body' # <<>> => body'[1] = Json!Open /\ body'[Len(body')] = Json!Close
    BY <2>1
  <2>4. /\ origin' = "answer" =>
            /\ ~Json!IsObject(body') /\ text' = <<>>
            /\ Json!IsObject(Json!Repaired(body')) <=> appended' = <<>>
        /\ origin' = "ptree" => Json!IsObject(body')
    BY <2>1
  <2> QED BY <2>1, <2>2, <2>3, <2>4 DEF JsonTexts
<1>2. JsonParsed'
  BY JsonBeginsAnew DEF Json!HandOut
<1> QED BY <1>1, <1>2 DEF JsonInv

\* The texts of json_append.
LEMMA JsonBuilds ==
    ASSUME JsonInv,
           \/ Json!json_start \/ Json!json_end \/ Json!json_data_make
           \/ \E n \in Keys, kd \in Json!Kinds, c \in BOOLEAN : Json!json_append(n, kd, c)
    PROVE  JsonInv'
<1>1. CASE Json!json_start
  <2>1. <<>> \in Pieces /\ Len(<<>>) \in 0..MaxMembers
    BY SampleAssumption DEF Pieces
  <2>2. Grown(text', appended')
    BY <1>1, GrownStart DEF Json!json_start
  <2>3. JsonTexts'
    BY <1>1, <2>1, <2>2 DEF Json!json_start, JsonInv, JsonTexts, Json!None
  <2> QED BY <1>1, <2>3, JsonBeginsAnew DEF Json!json_start, JsonInv
<1>2. CASE Json!json_end
  <2>1. Grown(text, appended) /\ text' = Append(text, Json!Close) /\ appended' = appended
    BY <1>2, JsonGuards DEF Json!json_end, JsonInv, Json!None
  <2>2. \E t : Grown(t, appended') /\ text' = Append(t, Json!Close)
    BY <2>1
  <2>3. JsonTexts'
    <3>1. origin # "answer" /\ origin' = origin /\ body' = body
      BY <1>2 DEF Json!json_end, JsonInv, JsonTexts, Json!None
    <3> QED BY <1>2, <2>2, <3>1 DEF Json!json_end, JsonInv, JsonTexts
  <2> QED BY <1>2, <2>3, JsonKeepsParsed DEF Json!json_end, JsonInv
<1>3. CASE Json!json_data_make
  <2> DEFINE members == IF text = Json!None THEN <<>> ELSE appended
             d == IF members = <<>> THEN "string" ELSE "quoted"
  <2>1. Json!HandOut(Json!Answer(d), "answer", members)
    BY <1>3 DEF Json!json_data_make
  <2>2. members \in Pieces /\ Len(members) \in 0..MaxMembers
    BY SampleAssumption DEF JsonInv, JsonTexts, Pieces
  <2>3. d \in {"string", "quoted"} /\ (d # "quoted" <=> members = <<>>)
    OBVIOUS
  <2> HIDE DEF members, d
  <2> QED BY <2>1, <2>2, <2>3, AnswersRefused, JsonHandsOut
<1>4. ASSUME NEW n \in Keys, NEW kd \in Json!Kinds, NEW c \in BOOLEAN,
             Json!json_append(n, kd, c)
      PROVE  JsonInv'
  <2>1. Grown(text, appended)
    BY <1>4, JsonGuards DEF Json!json_append, JsonInv, Json!None
  <2>2. n \in Int
    BY SampleAssumption
  <2>3. /\ text' = Json!Appended(text, n, kd, c)
        /\ appended' = Append(appended, [kind |-> kd, comma |-> c])
    BY <1>4 DEF Json!json_append
  <2>4. Grown(text', appended')
    BY <2>1, <2>2, <2>3, GrownAppend
  <2>5. appended' \in Pieces /\ Len(appended') \in 0..MaxMembers
    BY <1>4, <2>3, SampleAssumption DEF JsonInv, JsonTexts, Pieces, Json!json_append
  <2>6. JsonTexts'
    <3>1. origin # "answer" /\ origin' = origin /\ body' = body
      BY <1>4 DEF Json!json_append, JsonInv, JsonTexts, Json!None
    <3> QED BY <2>4, <2>5, <3>1 DEF JsonInv, JsonTexts
  <2> QED BY <1>4, <2>6, JsonKeepsParsed DEF Json!json_append, JsonInv
<1> QED BY <1>1, <1>2, <1>3, <1>4

\* The texts of a ptree.
LEMMA JsonWrites ==
    ASSUME JsonInv,
           \/ \E valid \in [Keys -> BOOLEAN] : Json!common_CreateJsonData(valid)
           \/ Json!make_json \/ Json!make_json_kline
           \/ \E keys \in Json!KeyLists : Json!map2json(keys)
    PROVE  JsonInv'
<1>1. ASSUME NEW keys, Len(keys) \in Nat \ {0}, Json!HandOut(Json!Written(keys), "ptree", <<>>)
      PROVE  JsonInv'
  <2>1. <<>> \in Pieces /\ Len(<<>>) \in 0..MaxMembers
    BY SampleAssumption DEF Pieces
  <2> QED BY <1>1, <2>1, WrittenRead, JsonHandsOut
<1>2. CASE UNCHANGED jsonVars
  <2>1. JsonTexts'
    BY <1>2 DEF jsonVars, JsonInv, JsonTexts
  <2> QED BY <1>2, <2>1, JsonKeepsParsed DEF jsonVars, JsonInv
<1>3. Len(<<1, 2>>) \in Nat \ {0} /\ Len(<<1, 2, 3>>) \in Nat \ {0}
  OBVIOUS
<1>4. ASSUME NEW keys \in Json!KeyLists PROVE Len(keys) \in Nat \ {0}
  <2>1. PICK n \in 1..Json!Cardinality(Keys) : keys \in [1..n -> Keys]
    BY DEF Json!KeyLists
  <2>2. n \in Nat \ {0} /\ DOMAIN keys = 1..n
    BY <2>1
  <2> QED BY <2>1, <2>2
<1> QED BY <1>1, <1>2, <1>3, <1>4
        DEF Json!common_CreateJsonData, Json!make_json, Json!make_json_kline,
            Json!map2json, Json!vars, jsonVars

\* ParseJsonData may assign some keys; those are found in the text it was given.
LEMMA JsonParses ==
    ASSUME JsonInv, Json!ParseJsonData \/ Json!common_ParseJsonData \/ Json!test_json
    PROVE  JsonInv'
<1>1. CASE Json!test_json
  <2>1. JsonTexts'
    BY <1>1 DEF Json!test_json, JsonInv, JsonTexts
  <2> QED BY <1>1, <2>1, JsonKeepsParsed DEF Json!test_json, JsonInv
<1>2. CASE Json!ParseJsonData
  <2>1. JsonTexts'
    BY <1>2 DEF Json!ParseJsonData, JsonInv, JsonTexts
  <2>2. /\ odata' = [k \in Keys |-> IF Found(k) THEN "set" ELSE odata[k]]
        /\ parsed' = IF \A k \in Keys : Found(k) THEN "true" ELSE "false"
        /\ body' = body
    BY <1>2 DEF Json!ParseJsonData, Found, Json!None
  <2>3. \A k \in Keys : Found(k)' <=> Found(k)
    BY <2>2 DEF Found
  <2>4. JsonParsed'
    BY <2>2, <2>3 DEF JsonInv, JsonParsed
  <2> QED BY <2>1, <2>4 DEF JsonInv
<1> QED BY <1>1, <1>2 DEF Json!common_ParseJsonData

\* What the invariant says of the texts that can be read back.
LEMMA JsonSafe == JsonInv => Json!JsonIsSound
<1> SUFFICES ASSUME JsonInv PROVE Json!JsonIsSound
  OBVIOUS
<1>1. Json!TypeOK
  BY DEF JsonInv, JsonTexts, JsonParsed, Json!TypeOK, Json!None
<1>2. Json!CommasDecide
  <2> SUFFICES ASSUME Json!Ended
               PROVE  Json!IsObject(text) <=>
                        \A i \in DOMAIN appended :
                            /\ appended[i].comma = (i < Len(appended))
                            /\ appended[i].kind # "quoted"
    BY DEF Json!CommasDecide
  <2>1. PICK t : Grown(t, appended) /\ text = Append(t, Json!Close)
    BY JsonGuards DEF Json!Ended, Json!None, JsonInv
  <2> QED BY <2>1, GrownEnds
<1>3. Json!AnswersAreNotAsShown
  BY DEF JsonInv, JsonTexts, Json!AnswersAreNotAsShown
<1>4. Json!ParseStopsAtFirstMissing
  <2>1. ASSUME NEW k \in Keys, ~Found(k), NEW j \in Keys, j >= k
        PROVE  odata[j] = "empty"
    <3>1. \A i \in Keys : i <= k => i <= j
      BY <2>1, SampleAssumption
    <3>2. ~Found(j)
      BY <2>1, <3>1 DEF Found
    <3> QED BY <3>2 DEF JsonInv, JsonParsed
  <2> QED BY <2>1 DEF JsonInv, JsonParsed, Json!ParseStopsAtFirstMissing
<1> QED BY <1>1, <1>2, <1>3, <1>4 DEF Json!JsonIsSound

\* The JSON helpers, in whatever order they are called.
LEMMA JsonAlways == Json!Spec => []Json!JsonIsSound
<1>1. [Json!Next]_Json!vars => [Json!Next]_jsonVars
  BY DEF Json!vars, jsonVars
<1>2. JsonInv /\ [Json!Next]_jsonVars => JsonInv'
  <2> SUFFICES ASSUME JsonInv, [Json!Next]_jsonVars PROVE JsonInv'
    OBVIOUS
  <2>1. CASE UNCHANGED jsonVars
    <3>1. JsonTexts'
      BY <2>1 DEF jsonVars, JsonInv, JsonTexts
    <3> QED BY <2>1, <3>1, JsonKeepsParsed DEF jsonVars, JsonInv
  <2> QED BY <2>1, JsonBuilds, JsonWrites, JsonParses DEF Json!Next
<1> QED BY <1>1, <1>2, JsonInit, JsonSafe, PTL DEF Json!Spec

-----------------------------------------------------------------------------
\* The helpers, each with its own variables: which texts can be read, whose client
\* and whose value a caller of redis gets, what the adapters watch and free, and
\* that each handle has one owner, whatever is called in whatever order.
THEOREM HelpersHold ==
    Json!Spec /\ Redis!Spec /\ Adapter!Spec /\ Owner!Spec => []HelpersAreSound
<1>1. /\ Json!JsonIsSound /\ Redis!ClientsAreSound
      /\ Adapter!AdaptersAreSound /\ Owner!HandlesAreOwned
      => HelpersAreSound
  BY DEF HelpersAreSound
<1> QED BY <1>1, JsonAlways, RedisAlways, AdapterAlways, OwnerAlways, PTL

-----------------------------------------------------------------------------
(* The specification of the run.                                            *)

\* A step of it is a step of one module and leaves the others alone.
LEMMA SampleParts ==
    ASSUME [MCNext]_MCVars
    PROVE  /\ Http!Next \/ UNCHANGED httpVars
           /\ Sample!Next \/ UNCHANGED sampleVars
           /\ Trading!Next \/ UNCHANGED tradingVars
           /\ Session!Next \/ UNCHANGED sessionVars
           /\ Start!Next \/ UNCHANGED startVars
           /\ Main!Next \/ UNCHANGED mainVars
           /\ Json!Next \/ UNCHANGED jsonVars
           /\ Redis!Next \/ UNCHANGED redisVars
           /\ Adapter!Next \/ UNCHANGED adapterVars
           /\ Owner!Next \/ UNCHANGED ownerVars
<1>1. Http!Next \/ UNCHANGED httpVars
  BY DEF MCNext, MCVars
<1>2. Sample!Next \/ UNCHANGED sampleVars
  BY DEF MCNext, MCVars
<1>3. Trading!Next \/ UNCHANGED tradingVars
  BY DEF MCNext, MCVars
<1>4. Session!Next \/ UNCHANGED sessionVars
  BY DEF MCNext, MCVars
<1>5. Start!Next \/ UNCHANGED startVars
  BY DEF MCNext, MCVars
<1>6. Main!Next \/ UNCHANGED mainVars
  BY DEF MCNext, MCVars
<1>7. Json!Next \/ UNCHANGED jsonVars
  BY DEF MCNext, MCVars
<1>8. Redis!Next \/ UNCHANGED redisVars
  BY DEF MCNext, MCVars
<1>9. Adapter!Next \/ UNCHANGED adapterVars
  BY DEF MCNext, MCVars
<1>10. Owner!Next \/ UNCHANGED ownerVars
  BY DEF MCNext, MCVars
<1> QED BY <1>1, <1>2, <1>3, <1>4, <1>5, <1>6, <1>7, <1>8, <1>9, <1>10

\* It is a step of each module that Spec of that module allows.
LEMMA SampleSteps ==
    ASSUME [MCNext]_MCVars
    PROVE  /\ [Http!Next]_(Http!vars)
           /\ [Sample!Next]_(Sample!vars)
           /\ [Trading!Next]_(Trading!vars)
           /\ [Session!Next]_(Session!vars)
           /\ [Start!Next]_(Start!vars)
           /\ [Main!Next]_(Main!vars)
           /\ [Json!Next]_(Json!vars)
           /\ [Redis!Next]_(Redis!vars)
           /\ [Adapter!Next]_(Adapter!vars)
           /\ [Owner!Next]_(Owner!vars)
<1>1. UNCHANGED httpVars => UNCHANGED Http!vars
  BY DEF httpVars, Http!vars
<1>2. UNCHANGED sampleVars => UNCHANGED Sample!vars
  BY DEF sampleVars, Sample!vars, Sample!push, Sample!built
<1>3. UNCHANGED tradingVars => UNCHANGED Trading!vars
  BY DEF tradingVars, Trading!vars, Trading!api, Trading!link
<1>4. UNCHANGED sessionVars => UNCHANGED Session!vars
  BY DEF sessionVars, Session!vars, Session!objects, Session!answer
<1>5. UNCHANGED startVars => UNCHANGED Start!vars
  BY DEF startVars, Start!vars, Start!started
<1>6. UNCHANGED mainVars => UNCHANGED Main!vars
  BY DEF mainVars, Main!vars, Main!world, Main!chart
<1>7. UNCHANGED jsonVars => UNCHANGED Json!vars
  BY DEF jsonVars, Json!vars
<1>8. UNCHANGED redisVars => UNCHANGED Redis!vars
  BY DEF redisVars, Redis!vars
<1>9. UNCHANGED adapterVars => UNCHANGED Adapter!vars
  BY DEF adapterVars, Adapter!vars, Adapter!memory, Adapter!loop
<1>10. UNCHANGED ownerVars => UNCHANGED Owner!vars
  BY DEF ownerVars, Owner!vars, Owner!causes
<1> QED BY SampleParts, <1>1, <1>2, <1>3, <1>4, <1>5, <1>6, <1>7, <1>8, <1>9, <1>10

\* What the run checks of the sample server, for every value of the constants and
\* whichever module a behaviour is about.
THEOREM SampleHolds ==
    MCSpec => [](/\ HttpIsSound /\ PushIsSound /\ TradingIsSound /\ SessionIsSound
                 /\ StartIsSound /\ HelpersAreSound)
<1>1. MCInit => /\ HttpInv /\ PushInv /\ TradingInv /\ SessionInv
                /\ Start!Init /\ Main!Init
                /\ Json!Init /\ Redis!Init /\ Adapter!Init /\ Owner!Init
  BY HttpInit, PushInit, TradingInit, SessionInit DEF MCInit
<1>2. HttpInv /\ [MCNext]_MCVars => HttpInv'
  BY SampleSteps, HttpStep
<1>3. PushInv /\ [MCNext]_MCVars => PushInv'
  BY SampleSteps, PushStep
<1>4. TradingInv /\ [MCNext]_MCVars => TradingInv'
  BY SampleSteps, StagesStep, LinkStep, TicksStep DEF TradingInv
<1>5. SessionInv /\ [MCNext]_MCVars => SessionInv'
  BY SampleSteps, SessionStep
<1>6. [MCNext]_MCVars => /\ [Start!Next]_(Start!vars) /\ [Main!Next]_(Main!vars)
                         /\ [Json!Next]_(Json!vars) /\ [Redis!Next]_(Redis!vars)
                         /\ [Adapter!Next]_(Adapter!vars) /\ [Owner!Next]_(Owner!vars)
  BY SampleSteps
<1>7. MCSpec => [](HttpInv /\ PushInv /\ TradingInv /\ SessionInv)
  BY <1>1, <1>2, <1>3, <1>4, <1>5, PTL DEF MCSpec
<1>8. MCSpec => /\ Start!Spec /\ Main!Spec /\ Json!Spec
                /\ Redis!Spec /\ Adapter!Spec /\ Owner!Spec
  BY <1>1, <1>6, PTL DEF MCSpec, Start!Spec, Main!Spec, Json!Spec, Redis!Spec,
                         Adapter!Spec, Owner!Spec
<1>9. HttpInv /\ PushInv /\ TradingInv /\ SessionInv
         => HttpIsSound /\ PushIsSound /\ TradingIsSound /\ SessionIsSound
  BY HttpSound, PushSound, TradingSound, SessionSound DEF TradingIsSound, SessionIsSound
<1> QED BY <1>7, <1>8, <1>9, StartHolds, HelpersHold, PTL

================================================================================
