---------------------------- MODULE ManagerSession ----------------------------
(***************************************************************************)
(* simple_wmain: one session with the trading server, from the parameters  *)
(* to the exit, and CDealerSink, through which the server answers its      *)
(* order from a thread of the interface. Results that the code assigns to  *)
(* res and does not look at are left out; their calls are made either way. *)
(* The interface is external: it calls the sink only while it is connected.*)
(***************************************************************************)
EXTENDS Naturals

VARIABLES
    at,        \* what simple_wmain does next; "exited" when it has returned
    manager,   \* none, created, connected
    user, request, result, mail,  \* the interface objects are held
    sink,      \* none, made, initialized, destroyed
    order,     \* what became of the order: none, sent, executed, rejected
    told,      \* progress of OnDealerAnswer: none, assigned, signalled
    m_event,   \* the sink's event is signalled
    res,       \* what Wait returned: none, done, rejected, timeout
    balances,  \* history: calls of DealerBalance
    printed,   \* history: the deal was printed
    stray      \* history: the answer came into released objects

objects == <<user, request, result, mail>>
answer == <<order, told, m_event, stray>>
vars == <<at, manager, objects, sink, answer, res, balances, printed>>

Init ==
    /\ at = "parameters" /\ manager = "none"
    /\ user = FALSE /\ request = FALSE /\ result = FALSE /\ mail = FALSE
    /\ sink = "none" /\ order = "none" /\ told = "none" /\ m_event = FALSE
    /\ res = "none" /\ balances = 0 /\ printed = FALSE /\ stray = FALSE

Goto(next) == at' = next
Session == <<objects, sink, answer, res, balances, printed>>

-----------------------------------------------------------------------------
(* To the connection: every failure returns at once.                       *)

Exit == Goto("exited") /\ UNCHANGED manager

\* Parameters of the command line or the console; incomplete ones show Usage.
Parameters ==
    /\ at = "parameters"
    /\ Exit \/ (Goto("factory") /\ UNCHANGED manager)
    /\ UNCHANGED Session

\* Initialize, Version and the test of the version.
LoadFactory ==
    /\ at = "factory"
    /\ Exit \/ (Goto("create") /\ UNCHANGED manager)
    /\ UNCHANGED Session

CreateManager ==
    /\ at = "create"
    /\ Exit \/ (Goto("connect") /\ manager' = "created")
    /\ UNCHANGED Session

Connect ==
    /\ at = "connect"
    /\ Exit \/ (Goto("rescan") /\ manager' = "connected")
    /\ UNCHANGED Session

\* NetworkServer and NetworkRescan; when both succeed Disconnect.
Rescan ==
    /\ at = "rescan"
    /\ \/ Goto("user") /\ UNCHANGED manager
       \/ Goto("reconnect") /\ manager' = "created"
    /\ UNCHANGED Session

Reconnect ==
    /\ at = "reconnect"
    /\ Exit \/ (Goto("user") /\ manager' = "connected")
    /\ UNCHANGED Session

-----------------------------------------------------------------------------
(* The user, the order and the mail.                                       *)

\* UserCreate; without a user everything up to the custom command is skipped.
UserCreate ==
    /\ at = "user"
    /\ user' \in BOOLEAN
    /\ Goto(IF user' THEN "requests" ELSE "command")
    /\ UNCHANGED <<manager, request, result, mail, sink, answer, res, balances, printed>>

\* UserAdd to UserCertConfirm, two RequestCreate, the sink, the deposit.
CreateRequests ==
    /\ at = "requests"
    /\ request' \in BOOLEAN /\ result' \in BOOLEAN
    /\ sink' = "made" /\ balances' = balances + 1
    /\ Goto("initialize sink")
    /\ UNCHANGED <<manager, user, mail, answer, res, printed>>

\* CDealerSink::Initialize is called when both objects exist, and fails
\* without an event. The changed form creates the event signalled.
InitializeSink_Signalled ==
    /\ at = "initialize sink"
    /\ \/ /\ request /\ result
          /\ sink' = "initialized" /\ m_event' = TRUE /\ Goto("send")
       \/ UNCHANGED <<sink, m_event>> /\ Goto("withdraw")
    /\ UNCHANGED <<manager, objects, order, told, stray, res, balances, printed>>
InitializeSink ==
    /\ at = "initialize sink"
    /\ \/ /\ request /\ result
          /\ sink' = "initialized" /\ m_event' = FALSE /\ Goto("send")
       \/ UNCHANGED <<sink, m_event>> /\ Goto("withdraw")
    /\ UNCHANGED <<manager, objects, order, told, stray, res, balances, printed>>

DealerSend ==
    /\ at = "send"
    /\ \/ order' = "sent" /\ Goto("wait")
       \/ order' = order /\ Goto("withdraw")
    /\ UNCHANGED <<manager, objects, sink, told, m_event, stray, res, balances, printed>>

Returned(r) ==
    /\ res' = r
    /\ Goto(IF r = "done" THEN "print" ELSE "withdraw")
    /\ m_event' = FALSE
    /\ UNCHANGED <<manager, objects, sink, order, told, stray, balances, printed>>

\* ResultRetcode: what the object result says, nothing before the answer is in it.
ResultRetcode == IF told # "none" /\ order = "executed" THEN "done" ELSE "rejected"

\* CDealerSink::Wait: with the event, or after MT5_TIMEOUT_DEALER without it.
Wait ==
    /\ at = "wait"
    /\ \/ m_event /\ Returned(ResultRetcode)
       \/ ~m_event /\ Returned("timeout")

PrintDeal ==
    /\ at = "print"
    /\ printed' = TRUE
    /\ Goto("withdraw")
    /\ UNCHANGED <<manager, objects, sink, answer, res, balances>>

\* The withdrawal, whatever became of deposit and order, and MailCreate.
Withdraw ==
    /\ at = "withdraw"
    /\ balances' = balances + 1 /\ mail' \in BOOLEAN
    /\ Goto("release")
    /\ UNCHANGED <<manager, user, request, result, sink, answer, res, printed>>

\* Release of request, result and mail.
ReleaseObjects ==
    /\ at = "release"
    /\ request' = FALSE /\ result' = FALSE /\ mail' = FALSE
    /\ Goto("end of scope")
    /\ UNCHANGED <<manager, user, sink, answer, res, balances, printed>>

\* ~CDealerSink closes the event.
DestroySink == sink' = "destroyed" /\ m_event' = FALSE

\* UserRequest, Release of the user, and the end of the scope of the sink.
EndOfScope ==
    /\ at = "end of scope"
    /\ user' = FALSE /\ DestroySink
    /\ Goto("command")
    /\ UNCHANGED <<manager, request, result, mail, order, told, stray, res, balances, printed>>

\* CustomCommand and Free of what it gave, Disconnect, Release, Shutdown.
Finish ==
    /\ at = "command"
    /\ manager' = "none" /\ Goto("exited")
    /\ UNCHANGED Session

-----------------------------------------------------------------------------
(* The thread of the interface.                                            *)

Decide(how) ==
    /\ manager = "connected" /\ order = "sent"
    /\ order' = how
    /\ UNCHANGED <<at, manager, objects, sink, told, m_event, stray, res, balances, printed>>

Decided == order \in {"executed", "rejected"}

\* A step of OnDealerAnswer, which may find the sink or result gone.
Answers(step) ==
    /\ manager = "connected" /\ Decided
    /\ told' = step
    /\ stray' = (stray \/ ~result \/ sink = "destroyed")
    /\ UNCHANGED <<at, manager, objects, sink, order, res, balances, printed>>

\* OnDealerAnswer copies the answer into result and then sets the event.
AssignResult == told = "none" /\ Answers("assigned") /\ UNCHANGED m_event
SignalEvent ==
    /\ told = "assigned" /\ Answers("signalled")
    /\ m_event' = (sink = "initialized")

MainStep ==
    \/ Parameters \/ LoadFactory \/ CreateManager \/ Connect \/ Rescan \/ Reconnect
    \/ UserCreate \/ CreateRequests \/ InitializeSink \/ DealerSend \/ Wait \/ PrintDeal
    \/ Withdraw \/ ReleaseObjects \/ EndOfScope \/ Finish

Next ==
    \/ MainStep
    \/ \E how \in {"executed", "rejected"} : Decide(how)
    \/ AssignResult \/ SignalEvent

\* The calls of the interface return.
Spec == Init /\ [][Next]_vars /\ WF_vars(MainStep)

-----------------------------------------------------------------------------
(* Properties. *)

TypeOK ==
    /\ manager \in {"none", "created", "connected"}
    /\ sink \in {"none", "made", "initialized", "destroyed"}
    /\ order \in {"none", "sent", "executed", "rejected"}
    /\ told \in {"none", "assigned", "signalled"}
    /\ res \in {"none", "done", "rejected", "timeout"}
    /\ balances \in {0, 1, 2}

\* CDealerSink: what Wait reads out of result is the server's decision, whole,
\* however the answer and the wait interleave; only a timeout hides it.
AnswerIsWhole ==
    res \in {"done", "rejected"} =>
        told = "signalled" /\ (res = "done" <=> order = "executed")

\* At the end an executed deal was printed, unless the wait timed out.
ExecutedIsPrinted ==
    at = "exited" /\ order = "executed" /\ ~printed => res = "timeout"

\* The sink is on the stack and result is released before it: the answer finds
\* them gone only when the wait has timed out.
StrayOnlyAfterTimeout == stray => res = "timeout"

\* By whatever path simple_wmain returns, it holds no object, the deposit is
\* followed by the withdrawal, and the session is not left connected; an
\* interface is left behind only by a return before the user was created.
ExitIsClean ==
    at = "exited" =>
        /\ ~user /\ ~request /\ ~result /\ ~mail
        /\ manager = "created" => sink = "none"
        /\ sink \in {"none", "destroyed"} /\ manager # "connected"
        /\ balances = (IF sink = "none" THEN 0 ELSE 2)

\* However the server keeps silent, the session ends.
SessionEnds == <>(at = "exited")

\* simple_wmain: the answer to its order, and what it leaves behind.
SessionIsSound ==
    /\ TypeOK
    /\ AnswerIsWhole /\ ExecutedIsPrinted
    /\ StrayOnlyAfterTimeout /\ ExitIsClean

===============================================================================
