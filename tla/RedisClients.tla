----------------------------- MODULE RedisClients -----------------------------
(***************************************************************************)
(* The synchronous redis clients: sync_test and redisclient_main make one  *)
(* of their own for a SET and a GET of the same key, which they share with *)
(* whoever else runs. Redis is external: it may refuse, lose a connection, *)
(* or restart and forget the key.                                          *)
(***************************************************************************)
EXTENDS Naturals

CONSTANTS
    Callers,     \* threads or programs in sync_test; the number is what they set
    MaxRestarts  \* bound: restarts of redis

None == 0

VARIABLES
    at,          \* sync_test of each caller: connect, set, get, done
    code,        \* what it returned, or the exception that left it
    printed,     \* what its GET printed; None for a key that is not there
    key,         \* the key in redis
    restarts

vars == <<at, code, printed, key, restarts>>

Init ==
    /\ at = [c \in Callers |-> "connect"] /\ code = [c \in Callers |-> "none"]
    /\ printed = [c \in Callers |-> None]
    /\ key = None /\ restarts = 0

-----------------------------------------------------------------------------
(* sync_test, and redisclient_main, which sets "value".                       *)

Return(c, result) ==
    /\ at' = [at EXCEPT ![c] = "done"]
    /\ code' = [code EXCEPT ![c] = result]

\* An error is printed, or an exception leaves the function: from_string throws for
\* a REDIS_HOST that is a name, and a command without an error code for a
\* connection that is lost.
Fails(c) == Return(c, "EXIT_FAILURE") \/ Return(c, "exception")

Connect(c) ==
    /\ at[c] = "connect"
    /\ \/ at' = [at EXCEPT ![c] = "set"] /\ UNCHANGED code
       \/ Fails(c)
    /\ UNCHANGED <<printed, key, restarts>>

\* It may fail before or after the server has the value.
Set(c) ==
    /\ at[c] = "set"
    /\ \/ key' = c /\ at' = [at EXCEPT ![c] = "get"] /\ UNCHANGED code
       \/ key' \in {key, c} /\ Fails(c)
    /\ UNCHANGED <<printed, restarts>>

Get(c) ==
    /\ at[c] = "get"
    /\ \/ printed' = [printed EXCEPT ![c] = key] /\ Return(c, "EXIT_SUCCESS")
       \/ Fails(c) /\ UNCHANGED printed
    /\ UNCHANGED <<key, restarts>>

RedisRestarts ==
    /\ restarts < MaxRestarts
    /\ restarts' = restarts + 1 /\ key' = None
    /\ UNCHANGED <<at, code, printed>>

Next ==
    \/ \E c \in Callers : Connect(c) \/ Set(c) \/ Get(c)
    \/ RedisRestarts

Spec == Init /\ [][Next]_vars

-----------------------------------------------------------------------------
(* Properties. *)

TypeOK == \A c \in Callers : code[c] # "none" <=> at[c] = "done"

\* The test's key is shared: a caller that succeeds may print another's value, or
\* nothing after a restart, but alone it prints its own.
AlonePrintsOwn ==
    \A c \in Callers :
        code[c] = "EXIT_SUCCESS" =>
            \/ printed[c] = c
            \/ \E d \in Callers \ {c} : printed[c] = d /\ at[d] \in {"get", "done"}
            \/ printed[c] = None /\ restarts > 0

\* The clients with refusals, exceptions and restarts.
ClientsAreSound == TypeOK /\ AlonePrintsOwn

=============================================================================
