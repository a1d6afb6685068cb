------------------------------ MODULE MarketStart ------------------------------
(***************************************************************************)
(* The three functions that start the market server: two CMarketServer     *)
(* objects on the stack of the function, an io_service they share, two     *)
(* threads for each server that use it by pointer, listening, and          *)
(* io_service::run. A failure leaves the function in the middle: the       *)
(* objects are destroyed, the threads are not stopped.                     *)
(*                                                                         *)
(* boost::thread has its default version, whose destructor detaches. The   *)
(* work of the threads on the queues is in MarketServer; here it is one    *)
(* access to the server.                                                   *)
(***************************************************************************)
EXTENDS Naturals, Sequences

CONSTANT MaxActions   \* bound: actions queued by browsers and not yet taken

Servers == {1, 2}
Kinds == {"messages", "quotes"}

VARIABLES
    program,    \* the function that runs
    pc,         \* the place in its steps; 0 when it was left
    outcome,    \* none, returned (websocketpp::exception), thrown (any other)
    ios,        \* the io_service: none, alive, destroyed
    server,     \* none, alive, listening, destroyed
    subscriber, \* connectSubscriber was called
    thread,     \* none, attached, detached
    m_actions,  \* how many actions are in the queue of each server
    context,    \* the settings of the newest TLS context
    stray       \* a thread used a destroyed server

started == <<ios, server, subscriber, thread>>
vars == <<program, pc, outcome, started, m_actions, context, stray>>

-----------------------------------------------------------------------------
(* The steps of the functions. *)

Step(what, s, kind) == [what |-> what, server |-> s, kind |-> kind]
Address == Step("address", 0, "any")
Construct(s) == Step("construct", s, "any")
Thread(s, k) == Step("thread", s, k)
Accept(s) == Step("accept", s, "any")
Detach(s, k) == Step("detach", s, k)
Run == Step("run", 0, "any")

\* 1 is the server without TLS on port 9003, 2 the one with TLS on 9002.
start_main_multithread ==
    <<Address, Construct(1), Construct(2),
      Thread(1, "messages"), Thread(1, "quotes"), Thread(2, "messages"), Thread(2, "quotes"),
      Accept(1), Accept(2),
      Detach(1, "messages"), Detach(1, "quotes"), Detach(2, "messages"), Detach(2, "quotes"),
      Run>>

\* No thread takes what on_open queues.
start_main_original == <<Address, Construct(1), Construct(2), Accept(1), Accept(2), Run>>

\* 1 is the server of ticks on 9003, 2 the one of orders on 9001.
start_tick_order ==
    <<Address, Construct(1), Thread(1, "messages"), Thread(1, "quotes"),
      Construct(2), Thread(2, "messages"), Thread(2, "quotes"),
      Accept(1), Accept(2),
      Detach(2, "messages"), Detach(2, "quotes"), Detach(1, "messages"), Detach(1, "quotes"),
      Run>>

Programs == {"multithread", "original", "tick_order"}
Steps(p) ==
    CASE p = "multithread" -> start_main_multithread
      [] p = "original" -> start_main_original
      [] p = "tick_order" -> start_tick_order

At(what) == pc # 0 /\ Steps(program)[pc].what = what
Of == Steps(program)[pc].server
Kind == Steps(program)[pc].kind

Init ==
    /\ program \in Programs /\ pc = 1 /\ outcome = "none"
    /\ ios = "alive" /\ server = [s \in Servers |-> "none"]
    /\ subscriber = [s \in Servers |-> FALSE]
    /\ thread = [s \in Servers |-> [k \in Kinds |-> "none"]]
    /\ m_actions = [s \in Servers |-> 0] /\ context = {} /\ stray = FALSE

Outside == <<m_actions, context, stray>>
Goes == pc' = pc + 1 /\ UNCHANGED <<program, outcome, Outside>>

\* The function is left: the thread objects detach, the servers and then the
\* io_service with the handlers it holds are destroyed.
Leave(o) ==
    /\ pc' = 0 /\ outcome' = o
    /\ ios' = "destroyed"
    /\ server' = [s \in Servers |-> IF server[s] = "none" THEN "none" ELSE "destroyed"]
    /\ thread' = [s \in Servers |-> [k \in Kinds |->
                    IF thread[s][k] = "attached" THEN "detached" ELSE thread[s][k]]]
    /\ UNCHANGED <<program, subscriber, Outside>>

\* from_string throws for a REDIS_HOST that is a name: not a websocketpp::exception.
\* start_main_original has a constant address.
FromString ==
    /\ At("address")
    /\ \/ program # "original" /\ Leave("thrown")
       \/ Goes /\ UNCHANGED started

\* The constructor of CMarketServer: io_service, handlers, error handler.
CMarketServer ==
    /\ At("construct") /\ Goes
    /\ server' = [server EXCEPT ![Of] = "alive"]
    /\ UNCHANGED <<ios, subscriber, thread>>

\* boost::thread may throw thread_resource_error.
StartThread ==
    /\ At("thread")
    /\ \/ Leave("thrown")
       \/ /\ Goes
          /\ thread' = [thread EXCEPT ![Of][Kind] = "attached"]
          /\ UNCHANGED <<ios, server, subscriber>>

\* connectSubscriber, then listen, which throws a websocketpp::exception when the
\* port is taken, then start_accept. The changed form goes on after the exception.
start_accept_Catches ==
    /\ At("accept") /\ Goes
    /\ subscriber' = [subscriber EXCEPT ![Of] = TRUE]
    /\ \/ server' = [server EXCEPT ![Of] = "listening"]
       \/ UNCHANGED server
    /\ UNCHANGED <<ios, thread>>
start_accept ==
    /\ At("accept")
    /\ \/ Leave("returned")
       \/ /\ Goes
          /\ subscriber' = [subscriber EXCEPT ![Of] = TRUE]
          /\ server' = [server EXCEPT ![Of] = "listening"]
          /\ UNCHANGED <<ios, thread>>

DetachThread ==
    /\ At("detach") /\ Goes
    /\ thread' = [thread EXCEPT ![Of][Kind] = "detached"]
    /\ UNCHANGED <<ios, server, subscriber>>

-----------------------------------------------------------------------------
(* io_service::run, which does not return while a server listens but may be   *)
(* left by an exception, and the threads.                                     *)

on_open(s) ==
    /\ At("run") /\ server[s] = "listening" /\ m_actions[s] < MaxActions
    /\ m_actions' = [m_actions EXCEPT ![s] = @ + 1]
    /\ UNCHANGED <<program, pc, outcome, started, context, stray>>

\* A parameter or a path that at() does not find leaves on_http, which catches
\* nothing, io_service::run and the function: out_of_range is not a
\* websocketpp::exception.
on_http == At("run") /\ Leave("thrown")

\* One round of process_messages.
process_messages(s) ==
    /\ thread[s]["messages"] # "none"
    /\ IF server[s] = "destroyed" THEN stray' = TRUE /\ UNCHANGED m_actions
       ELSE /\ m_actions[s] > 0
            /\ m_actions' = [m_actions EXCEPT ![s] = @ - 1]
            /\ UNCHANGED stray
    /\ UNCHANGED <<program, pc, outcome, started, context>>

\* process_realtimequote_messages wakes, if only by chance.
process_realtimequote_messages(s) ==
    /\ thread[s]["quotes"] # "none"
    /\ stray' = (stray \/ server[s] = "destroyed")
    /\ UNCHANGED <<program, pc, outcome, started, m_actions, context>>

\* on_tls_init_sslv23: the certificate, the key or the parameters may be missing,
\* which leaves the try block; what was set before stays, and the context is used.
\* A list of ciphers that is refused is only reported.
Settings == <<"options", "password", "chain", "key", "dh", "ciphers">>
FirstSettings(n) == {Settings[i] : i \in 1..n}
on_tls_init_sslv23 ==
    /\ program \in {"multithread", "original"} /\ At("run")
    /\ \E n \in {2, 3, 4, 5, 6} : context' = FirstSettings(n)
    /\ UNCHANGED <<program, pc, outcome, started, m_actions, stray>>

Next ==
    \/ FromString \/ CMarketServer \/ StartThread \/ start_accept \/ DetachThread
    \/ on_tls_init_sslv23 \/ on_http
    \/ \E s \in Servers :
        on_open(s) \/ process_messages(s) \/ process_realtimequote_messages(s)

Spec == Init /\ [][Next]_vars

-----------------------------------------------------------------------------
(* Properties. *)

TypeOK ==
    /\ server \in [Servers -> {"none", "alive", "listening", "destroyed"}]
    /\ thread \in [Servers -> [Kinds -> {"none", "attached", "detached"}]]
    /\ pc = 0 <=> outcome # "none"
    /\ m_actions \in [Servers -> 0..MaxActions]

\* The threads get pointers to servers on the stack. Only a start that failed after
\* the first thread, or an exception that left io_service::run, lets one of them use
\* a destroyed server: while the function runs, also between its steps, every
\* thread has its server.
StrayOnlyAfterFailure ==
    /\ stray => outcome # "none"
    /\ \A s \in Servers : \A k \in Kinds :
        outcome = "none" /\ thread[s][k] # "none" => server[s] \in {"alive", "listening"}

\* io_service::run is reached with both servers listening and trying to subscribe;
\* a failed listen of the second one never leaves the first one serving alone.
ServesBothOrNone ==
    /\ At("run") => \A s \in Servers : server[s] = "listening" /\ subscriber[s]
    /\ outcome # "none" => \A s \in Servers : server[s] # "listening"

\* start_main_original queues actions without a thread to take them, the other two
\* have both threads of both servers when they serve.
QueuesAreServed ==
    At("run") => \A s \in Servers : \A k \in Kinds :
        (thread[s][k] = "detached") = (program # "original")

\* A failure in the files of the certificate leaves the ciphers of the library, so
\* that a context with the listed ciphers has everything else as well.
CiphersComeLast == "ciphers" \in context => {"chain", "key", "dh"} \subseteq context

\* The start of the market server with every failure on the way.
StartIsSound ==
    TypeOK /\ StrayOnlyAfterFailure /\ ServesBothOrNone /\ QueuesAreServed /\ CiphersComeLast

=============================================================================
