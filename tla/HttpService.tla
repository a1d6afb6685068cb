----------------------------- MODULE HttpService -----------------------------
(***************************************************************************)
(* CMarketServer::on_http: the requests of the market server's http        *)
(* interface and what they ask of the trading manager, and CDealerSink,    *)
(* through which the manager answers an order. on_http runs in the one     *)
(* thread of the io_service; the manager answers from a thread of its own. *)
(*                                                                         *)
(* A request that does not wait is one step, from the look-up of its path  *)
(* to its answer. Of the parameters the model keeps what the control       *)
(* depends on: whether they are complete and whether their numbers parse.  *)
(* std::stoull and its like throw otherwise, and nothing catches that but  *)
(* the end of the process (start_tick_order catches websocketpp's own).    *)
(***************************************************************************)
EXTENDS Naturals, Sequences

CONSTANT MaxRequests    \* bound: requests that are served

VARIABLES
    served,     \* requests so far
    request,    \* the order on_http is waiting for, None when it is free
    orders,     \* state of the order each request has sent
    answers,    \* what each was answered: kind, answer, whether it is done
    leaks,      \* interface objects never released: <<kind, object>>
    short,      \* history: a dealer request could not create all its objects
    timedOut,   \* history: requests whose wait timed out
    stray,      \* history: a sink was used after its handler had returned
    dead        \* the process ended: "no", "exception" or "null"

vars == <<served, request, orders, answers, leaks, short, timedOut, stray, dead>>

None == [kind |-> "none", order |-> 0, event |-> FALSE]

CreateFirst == {"position_open", "position_close", "order_pending"}
ParseFirst == {"position_tpsl", "order_update", "order_cancel"}

\* The paths of the interface, by the request each of them is for.
g_service_interface_apimap ==
    {"test", "kline", "kline_new", "symbol_query", "position_query", "history_order",
     "order_query", "register", "name_update", "password_check", "password_update",
     "deposit", "withdrawal", "balance_query", "kcharts"} \cup CreateFirst \cup ParseFirst

Init ==
    /\ served = 0 /\ request = None /\ orders = <<>>
    /\ answers = <<>>
    /\ leaks = {} /\ short = FALSE /\ timedOut = {} /\ stray = FALSE /\ dead = "no"

-----------------------------------------------------------------------------
(* How a request begins and ends. *)

Begin ==
    /\ dead = "no" /\ request = None /\ served < MaxRequests
    /\ served' = served + 1
    /\ orders' = Append(orders, "none")

\* set_body and set_status; objects that are still held are held for ever.
Answer(kind, answer, done, held) ==
    /\ answers' = Append(answers, [kind |-> kind, answer |-> answer, done |-> done])
    /\ leaks' = leaks \cup {<<kind, object>> : object \in held}
    /\ dead' = dead

Failure(kind, held) == Answer(kind, "failure", FALSE, held)

\* An exception leaves on_http, or a null pointer is used.
Escape(how) == dead' = how /\ UNCHANGED <<answers, leaks>>

AtOnce == UNCHANGED <<request, short, timedOut, stray>>

\* The look-up: a path that is not in the map is left alone, one whose letters
\* differ in case is found in lower case but then looked up as it is (at()
\* throws), and methods other than OPTIONS, GET and POST are left alone.
Lookup ==
    /\ Begin /\ AtOnce
    /\ \/ Answer("unknown path", "none", TRUE, {})
       \/ Answer("other method", "none", TRUE, {})
       \/ Answer("options", "success", TRUE, {})
       \/ Escape("exception")

\* Requests with a fixed body.
test == Begin /\ AtOnce /\ Answer("test", "success", TRUE, {})
kcharts == Begin /\ AtOnce /\ Answer("kcharts", "success", TRUE, {})

-----------------------------------------------------------------------------
(* Queries. Where the call that would fetch is commented out in the code    *)
(* (candles, history) mtapiRes is still MT_RET_OK_NONE when it is compared  *)
(* with MT_RET_OK: those queries answer an error whatever they are asked.   *)

\* Parameters, perhaps numbers in them, and the error of a call never made.
QueryNever(kind, numbers) ==
    /\ Begin /\ AtOnce
    /\ \/ Failure(kind, {})
       \/ numbers /\ Escape("exception")

kline == QueryNever("kline", FALSE)
kline_new == QueryNever("kline_new", TRUE)
history_order == QueryNever("history_order", FALSE)

\* Parameters, a new object, the manager's answer, the end of the object.
Query(kind, numbers) ==
    /\ Begin /\ AtOnce
    /\ \/ Failure(kind, {})          \* parameters, no object, or refused
       \/ numbers /\ Escape("exception")
       \/ Answer(kind, "success", TRUE, {})

order_query == Query("order_query", TRUE)
position_query == Query("position_query", TRUE)
symbol_query == Query("symbol_query", FALSE)

\* The result of UserAccountGet is not looked at; without an account object the
\* null pointer is used, whatever UserGet says. The user is never released.
balance_query ==
    /\ Begin /\ AtOnce
    /\ \/ Failure("balance_query", {})
       \/ Escape("exception")
       \/ Escape("null")
       \/ Failure("balance_query", {"user"})
       \/ \E filled \in BOOLEAN : Answer("balance_query", "success", filled, {"user"})

-----------------------------------------------------------------------------
(* Accounts. None of these handlers releases the user object it created.    *)

register ==
    /\ Begin /\ AtOnce
    /\ \/ Failure("register", {})
       \/ Failure("register", {"user"})
       \/ Answer("register", "success", TRUE, {"user"})

\* UserGet, then the change. The result of UserUpdate is dropped: the test that
\* follows looks at the result of UserGet once more.
name_update ==
    /\ Begin /\ AtOnce
    /\ \/ Failure("name_update", {})
       \/ Escape("exception")
       \/ Failure("name_update", {"user"})
       \/ \E updated \in BOOLEAN : Answer("name_update", "success", updated, {"user"})

\* UserGet, then the call on the password whose result decides.
Password(kind) ==
    /\ Begin /\ AtOnce
    /\ \/ Failure(kind, {})
       \/ Escape("exception")
       \/ Failure(kind, {"user"})
       \/ Answer(kind, "success", TRUE, {"user"})

password_check == Password("password_check")
password_update == Password("password_update")

\* DealerBalance decides; no object is created.
Balance(kind) ==
    /\ Begin /\ AtOnce
    /\ \/ Failure(kind, {})
       \/ Escape("exception")
       \/ Answer(kind, "success", TRUE, {})

deposit == Balance("deposit")
withdrawal == Balance("withdrawal")

-----------------------------------------------------------------------------
(* Orders. *)

Set(order, state) == [orders EXCEPT ![order] = state]

\* DealerSend accepted the order: on_http waits for the sink.
Send(kind) ==
    /\ dead = "no" /\ request = None /\ served < MaxRequests
    /\ served' = served + 1
    /\ orders' = Append(orders, "sent")
    /\ request' = [kind |-> kind, order |-> served + 1, event |-> FALSE]
    /\ UNCHANGED <<answers, leaks, short, timedOut, stray, dead>>

\* The request, the response and the sink's event: when one of them is missing
\* the others are not released either.
CreateFails(kind, answer) ==
    /\ Begin
    /\ short' = TRUE
    /\ \E held \in SUBSET {"request", "response"} : Answer(kind, answer, FALSE, held)
    /\ UNCHANGED <<request, timedOut, stray>>

\* Open, close and pending: objects first, then the parameters. Nothing but the
\* manager's "done" sets a body: any other end is an empty answer.
OrderCreateFirst(kind) ==
    \/ CreateFails(kind, "empty")
    \/ /\ Begin /\ AtOnce
       /\ \/ Answer(kind, "empty", FALSE, {})       \* parameters, or refused
          \/ Escape("exception")
    \/ Send(kind)

\* Stops, update and cancel: parameters first. Only the refusal of DealerSend
\* leaves the body unset.
OrderParseFirst(kind) ==
    \/ CreateFails(kind, "failure")
    \/ /\ Begin /\ AtOnce
       /\ \/ Failure(kind, {})
          \/ Answer(kind, "empty", FALSE, {})
          \/ Escape("exception")
    \/ Send(kind)

position_open == OrderCreateFirst("position_open")
position_close == OrderCreateFirst("position_close")
order_pending == OrderCreateFirst("order_pending")
position_tpsl == OrderParseFirst("position_tpsl")
order_update == OrderParseFirst("order_update")
order_cancel == OrderParseFirst("order_cancel")

\* The manager executes an order or rejects it.
Execute(order, how) ==
    /\ dead = "no" /\ orders[order] = "sent"
    /\ orders' = Set(order, how)
    /\ UNCHANGED <<served, request, answers, leaks, short, timedOut, stray, dead>>

\* OnDealerAnswer: the answer is copied into the response, then the event is
\* set. The sink is on the stack of the handler that sent the order. The
\* changed form sets the event before it copies.
Assign_SetsEventFirst(order) ==
    /\ dead = "no" /\ orders[order] \in {"executed", "rejected"}
    /\ orders' = Set(order, IF orders[order] = "executed" THEN "told executed"
                            ELSE "told rejected")
    /\ request' = IF request.order = order THEN [request EXCEPT !.event = TRUE]
                  ELSE request
    /\ stray' = (stray \/ request.order # order)
    /\ UNCHANGED <<served, answers, leaks, short, timedOut, dead>>
Assign(order) ==
    /\ dead = "no" /\ orders[order] \in {"executed", "rejected"}
    /\ orders' = Set(order, IF orders[order] = "executed" THEN "told executed"
                            ELSE "told rejected")
    /\ stray' = (stray \/ request.order # order)
    /\ UNCHANGED <<served, request, answers, leaks, short, timedOut, dead>>

Told(order) == orders[order] \in {"told executed", "told rejected"}
SetEvent(order) ==
    /\ dead = "no" /\ Told(order)
    /\ orders' = Set(order, IF orders[order] = "told executed" THEN "ended executed"
                            ELSE "ended rejected")
    /\ request' = IF request.order = order THEN [request EXCEPT !.event = TRUE]
                  ELSE request
    /\ stray' = (stray \/ request.order # order)
    /\ UNCHANGED <<served, answers, leaks, short, timedOut, dead>>

Executed(order) == orders[order] \in {"executed", "told executed", "ended executed"}

\* What a handler says when the manager did not say "done".
Silence(kind) == IF kind \in CreateFirst THEN "empty" ELSE "failure"

\* The end of a handler: both objects are released.
EndOrder(answer) ==
    /\ Answer(request.kind, answer, Executed(request.order), {})
    /\ request' = None
    /\ UNCHANGED <<served, orders, short, stray>>

\* CDealerSink::Wait, with the event.
WaitAnswered ==
    /\ dead = "no" /\ request.event
    /\ EndOrder(IF orders[request.order] = "ended executed" THEN "success"
                ELSE Silence(request.kind))
    /\ UNCHANGED timedOut

\* CDealerSink::Wait, without: MT_RET_REQUEST_TIMEOUT.
WaitTimesOut ==
    /\ dead = "no" /\ request # None /\ ~request.event
    /\ EndOrder(Silence(request.kind))
    /\ timedOut' = timedOut \cup {request.order}

Next ==
    \/ Lookup \/ test \/ kcharts \/ kline \/ kline_new
    \/ order_query \/ position_query \/ history_order \/ symbol_query \/ balance_query
    \/ register \/ name_update \/ password_check \/ password_update
    \/ deposit \/ withdrawal
    \/ position_open \/ position_close \/ order_pending
    \/ position_tpsl \/ order_update \/ order_cancel
    \/ WaitAnswered \/ WaitTimesOut
    \/ \E order \in 1..served :
        \/ \E how \in {"executed", "rejected"} : Execute(order, how)
        \/ Assign(order) \/ SetEvent(order)

Spec == Init /\ [][Next]_vars /\ WF_vars(WaitAnswered \/ WaitTimesOut)

-----------------------------------------------------------------------------
(* Properties. *)

States == {"none", "sent", "executed", "rejected", "told executed",
           "told rejected", "ended executed", "ended rejected"}

\* One request is served at a time: every earlier one has its answer, and only
\* the last can be waiting for the manager.
TypeOK ==
    /\ served \in 0..MaxRequests
    /\ orders \in Seq(States) /\ Len(orders) = served
    /\ request # None => request.order = served /\ orders[served] # "none"
    /\ dead = "no" => Len(answers) = served - (IF request = None THEN 0 ELSE 1)
    /\ dead \in {"no", "exception", "null"} /\ timedOut \subseteq 1..served
    /\ \A i \in DOMAIN answers : answers[i].kind \in g_service_interface_apimap
                                    \cup {"unknown path", "other method", "options"}

\* An answer that says success means that the manager did what was asked, for
\* every request but two: name_update drops the result of UserUpdate, and
\* balance_query the result of UserAccountGet.
SuccessMeansDone ==
    \A i \in DOMAIN answers :
        answers[i].answer = "success" /\ ~answers[i].done =>
            answers[i].kind \in {"name_update", "balance_query"}

\* An order that the manager executed although its client was not told so is
\* one whose wait timed out (CDealerSink::Wait).
UntoldOnlyByTimeout ==
    \A i \in DOMAIN answers :
        Executed(i) /\ answers[i].answer # "success" => i \in timedOut

\* OnDealerAnswer: the sink and the response, which live as long as their
\* handler, are used after its end only when a wait has timed out.
StrayOnlyAfterTimeout == stray => timedOut # {}

\* What the handlers leave behind is the user object of an account request,
\* and the objects of an order request only when one could not be created.
OnlyUsersLeak ==
    \A l \in leaks : l[2] = "user" \/ short

\* on_http: what the client is told, what stays behind, who uses the sink.
HttpIsSound ==
    /\ TypeOK
    /\ SuccessMeansDone /\ UntoldOnlyByTimeout
    /\ StrayOnlyAfterTimeout /\ OnlyUsersLeak

=============================================================================
