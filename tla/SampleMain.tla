------------------------------ MODULE SampleMain ------------------------------
(***************************************************************************)
(* _tmain of the sample server: the queue it gives to the trading          *)
(* connection and to MyIOCP, the start of both, and the bars it requests   *)
(* and converts to local time one by one. The trading interface calls      *)
(* OnTick from its own thread as soon as it is subscribed; what Start and  *)
(* Stop do inside is in TradingConnection, the push thread is in           *)
(* SampleServer. Times are small numbers; the user may change the zone of  *)
(* the machine between any two steps.                                      *)
(***************************************************************************)
EXTENDS Integers, Sequences

CONSTANTS
    Biases,         \* tzi.Bias: minutes between local time and UTC
    Remote          \* the times of the bars ChartRequest returns, UTC

VARIABLES
    at,             \* the statement _tmain does next
    queueOf,        \* who has the lock and the queue: subset of {"tick", "iocp"}
    connection,     \* the trading connection: none, connected, failed, stopped
    subscribed,     \* OnTick may be called
    bias, changes,  \* the zone of the machine, and whether it was changed
    request,        \* start and end of the request, as sent
    bars, converted,\* the array of bars, and how many are converted
    leaked,         \* arrays of bars that nobody can free
    iocp,           \* MyIOCP: none, built, started, refused
    pushing,        \* its push thread runs
    unset           \* OnTick or the push thread used a queue that was not set

world == <<bias, changes>>
chart == <<request, bars, converted, leaked>>
vars == <<at, queueOf, connection, subscribed, world, chart, iocp, pushing, unset>>

\* MINUTES_IN_HOUR, which is the number of seconds in a minute as well.
MinutesInHour == 60
RemoteToLocale(t) == t - bias * MinutesInHour
LocaleToRemote(t) == t + bias * MinutesInHour
MakeLocalTime(day) == day

Init ==
    /\ at = "set" /\ queueOf = {}
    /\ connection = "none" /\ subscribed = FALSE
    /\ bias \in Biases /\ changes = 0
    /\ request = <<>> /\ bars = <<0>> /\ converted = 0 /\ leaked = 0
    /\ iocp = "none" /\ pushing = FALSE /\ unset = FALSE

\* The changed form gives the queue to the connection after its start.
SetDequeParams_Late ==
    /\ at = "set" /\ at' = "start"
    /\ UNCHANGED <<queueOf, connection, subscribed, world, chart, iocp, pushing, unset>>
SetDequeParams ==
    /\ at = "set" /\ at' = "start"
    /\ queueOf' = queueOf \cup {"tick"}
    /\ UNCHANGED <<connection, subscribed, world, chart, iocp, pushing, unset>>

\* TickSubscribe, the last call of Start, may come before Start returns; without it
\* the connection is good all the same.
Subscribe ==
    /\ at = "start" /\ ~subscribed /\ subscribed' = TRUE
    /\ UNCHANGED <<at, queueOf, connection, world, chart, iocp, pushing, unset>>

Start ==
    /\ at = "start"
    /\ \/ connection' = "connected" /\ at' = "request"
       \/ ~subscribed /\ connection' = "failed" /\ at' = "returned"
    /\ UNCHANGED <<queueOf, subscribed, world, chart, iocp, pushing, unset>>

\* The interval, and the interface's own array in place of the one bar that was
\* allocated; when the call fails, that bar is what the block loses at its end.
ChartRequest ==
    /\ at = "request"
    /\ request' = <<LocaleToRemote(MakeLocalTime(1)), LocaleToRemote(MakeLocalTime(9))>>
    /\ leaked' = leaked + 1
    /\ \/ at' = "convert" /\ bars' = Remote
       \/ at' = "build" /\ UNCHANGED bars
    /\ UNCHANGED <<queueOf, connection, subscribed, world, converted, iocp, pushing, unset>>

\* MTChartBarToLocale: every bar reads the zone again.
MTChartBarToLocale ==
    /\ at = "convert" /\ converted < Len(bars)
    /\ bars' = [bars EXCEPT ![converted + 1] = RemoteToLocale(@)]
    /\ converted' = converted + 1
    /\ UNCHANGED <<at, queueOf, connection, subscribed, world, request, leaked, iocp,
                   pushing, unset>>

\* The array is in no variable any more when the block ends.
EndOfBlock ==
    /\ at = "convert" /\ converted = Len(bars)
    /\ at' = "build" /\ leaked' = leaked + 1
    /\ UNCHANGED <<queueOf, connection, subscribed, world, request, bars, converted, iocp,
                   pushing, unset>>

\* The constructor with the queue: setDequeParams, then the thread, detached.
MyIOCP ==
    /\ at = "build" /\ at' = "startup"
    /\ queueOf' = queueOf \cup {"iocp"}
    /\ pushing' = TRUE /\ iocp' = "built"
    /\ UNCHANGED <<connection, subscribed, world, chart, unset>>

\* The result of Startup is ignored, and the loop of one second begins: Stop and
\* Shutdown after it are not reached.
Startup ==
    /\ at = "startup" /\ at' = "forever"
    /\ iocp' \in {"started", "refused"}
    /\ UNCHANGED <<queueOf, connection, subscribed, world, chart, pushing, unset>>

Sleep == at = "forever" /\ UNCHANGED vars

\* OnTick takes the lock and appends.
OnTick ==
    /\ subscribed /\ connection \in {"none", "connected"}
    /\ unset' = (unset \/ "tick" \notin queueOf)
    /\ UNCHANGED <<at, queueOf, connection, subscribed, world, chart, iocp, pushing>>

\* The push thread looks at the queue, which it must have been given.
Push ==
    /\ pushing
    /\ unset' = (unset \/ "iocp" \notin queueOf)
    /\ UNCHANGED <<at, queueOf, connection, subscribed, world, chart, iocp, pushing>>

ZoneChanges ==
    /\ changes = 0 /\ changes' = 1
    /\ bias' \in Biases
    /\ UNCHANGED <<at, queueOf, connection, subscribed, chart, iocp, pushing, unset>>

Next ==
    \/ SetDequeParams \/ Subscribe \/ Start \/ ChartRequest
    \/ MTChartBarToLocale \/ EndOfBlock \/ MyIOCP \/ Startup \/ Sleep
    \/ OnTick \/ Push \/ ZoneChanges

Spec == Init /\ [][Next]_vars

-----------------------------------------------------------------------------
(* Properties. *)

TypeOK ==
    /\ at \in {"set", "start", "request", "convert", "build", "startup", "forever", "returned"}
    /\ converted \in 0..Len(bars)
    /\ leaked \in 0..2
    /\ pushing <=> iocp # "none"

\* Ticks come during Start and the push thread starts in its constructor: both must
\* already have been given the queue, which nothing initialises.
QueueIsSet == ~unset

\* The server is built only on a connection that was started; a failed start ends
\* the program before there is a thread or a port.
ServesConnected == iocp # "none" => connection = "connected"

\* Unless the zone changes, the bars are shifted by what the request was shifted
\* by: converting a converted bar back gives the time the server sent.
BarsRoundTrip ==
    changes = 0 =>
        /\ \A i \in 1..converted : LocaleToRemote(bars[i]) = Remote[i]
        /\ request # <<>> => RemoteToLocale(request[1]) = MakeLocalTime(1)

\* With a change in the middle of the array each bar has one of the two offsets,
\* the earlier ones the earlier: local times from different zones side by side.
BarsMixAtMostTwo ==
    \A i, j, k \in 1..converted :
        i < j /\ j < k /\ Remote[i] - bars[i] = Remote[k] - bars[k]
            => Remote[j] - bars[j] = Remote[i] - bars[i]

\* A request loses the bar that was allocated for its answer, and one that is
\* answered loses the answer as well.
AnswersLeak == at \in {"startup", "forever"} => leaked = (IF converted = 0 THEN 1 ELSE 2)

\* The program's own steps, with ticks, pushes and the clock's zone in between.
MainIsSound ==
    /\ TypeOK /\ QueueIsSet /\ ServesConnected
    /\ BarsRoundTrip /\ BarsMixAtMostTwo /\ AnswersLeak

=============================================================================
