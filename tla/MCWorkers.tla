------------------------------ MODULE MCWorkers -------------------------------
(*****************************************************************************)
(* ThreadPool, PtTable and MarketServer for TLC: threads that hand work to   *)
(* each other. A behaviour takes the steps of one of them, chosen in the     *)
(* first state: they share no state.                                         *)
(*****************************************************************************)
EXTENDS ThreadPool, Naturals, Sequences, TLC

CONSTANTS
    Subjects,   \* the modules whose steps are explored
    Granularity, Ids, Ptrs,
    Conns, MaxQuotes, MaxLosses

VARIABLES
    subject,  \* the module whose steps this behaviour takes
    head, size, cursor, visited, expected, open, m_actions, action,
    m_connections, quotes, quote, next, received, redis, subscriptions,
    timer, published, losses

Table == INSTANCE PtTable
Market == INSTANCE MarketServer

tableVars ==
    <<head, size, cursor, visited, expected>>
marketVars ==
    <<open, m_actions, action, m_connections, quotes, quote, next, received,
      redis, subscriptions, timer, published, losses>>

MCInit ==
    /\ subject \in Subjects
    /\ Init /\ Table!Init /\ Market!Init
    /\ subject # "pool" => create = "no" /\ m_nPoolSize = PoolSize

\* Bound: SetPoolSize is not called with less than the number of threads there are,
\* which ends Create as that number does.
SizeMatters == m_nPoolSize >= created

MCNext ==
    /\ UNCHANGED subject
    /\ \/ subject = "pool" /\ Next /\ SizeMatters' /\ UNCHANGED <<tableVars, marketVars>>
       \/ subject = "table" /\ Table!Next /\ UNCHANGED <<vars, marketVars>>
       \/ subject = "market" /\ Market!Next /\ UNCHANGED <<vars, tableVars>>

\* A step of ThreadPool, of MarketServer.
Pool(A) == subject = "pool" /\ A /\ UNCHANGED <<subject, tableVars, marketVars>>
OfMarket(A) == subject = "market" /\ A /\ UNCHANGED <<subject, vars, tableVars>>
MCVars == <<subject, vars, tableVars, marketVars>>

\* The fairness of each module, for the behaviours whose subject it is.
MCSpec ==
    /\ MCInit /\ [][MCNext]_MCVars
    /\ \A t \in Threads : WF_MCVars(Pool(Continue(t))) /\ WF_MCVars(Pool(Return(t)))
    /\ \A c \in Clients : WF_MCVars(Pool(WakeThread(c)))
    /\ WF_MCVars(OfMarket(Market!TakeAction)) /\ SF_MCVars(OfMarket(Market!ApplyAction))
    /\ WF_MCVars(OfMarket(Market!TakeQuote)) /\ WF_MCVars(OfMarket(Market!EndRound))
    /\ WF_MCVars(OfMarket(\E c \in Conns : Market!SendQuote(c)))
    /\ WF_MCVars(OfMarket(Market!start_accept)) /\ WF_MCVars(OfMarket(Market!Timer))
    /\ WF_MCVars(OfMarket(Market!onSubscriberConnected \/ Market!ConnectFails))

-----------------------------------------------------------------------------

\* PtTable: chains, size, enumeration and look-up agree.
TableIsSound == Table!TableIsSound

\* PtTable: the table implements a finite map.
ImplementsMap == Table!ImplementsMap

\* MarketServer: the queues between its threads.
MarketIsSound == Market!MarketIsSound

\* ThreadPool: every function given is started. MarketServer: a round reaches
\* every connection, closed ones are forgotten, and the server is subscribed
\* again when redis stops failing.
WorkersMoveOn ==
    /\ subject = "pool" => AllStarted
    /\ Market!RoundReachesAll /\ Market!ClosedAreForgotten
    /\ subject = "market" => Market!Resubscribes

===============================================================================
