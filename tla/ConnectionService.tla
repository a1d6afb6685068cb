-------------------------- MODULE ConnectionService --------------------------
(***************************************************************************)
(* What CBaseIOCPServer promises about a connection, with no threads,      *)
(* locks or counts: it is accepted while fewer than Limit connections are  *)
(* open, it is closed once, and only a closed connection's context goes.   *)
(***************************************************************************)
EXTENDS Naturals, FiniteSets

CONSTANTS Connections, Limit

VARIABLE status

Connected == {c \in Connections : status[c] = "connected"}

Init == status = [c \in Connections |-> "new"]

Connect(c) ==
    /\ status[c] = "new" /\ Cardinality(Connected) < Limit
    /\ status' = [status EXCEPT ![c] = "connected"]

Close(c) ==
    /\ status[c] = "connected"
    /\ status' = [status EXCEPT ![c] = "closed"]

Delete(c) ==
    /\ status[c] = "closed"
    /\ status' = [status EXCEPT ![c] = "gone"]

Next == \E c \in Connections : Connect(c) \/ Close(c) \/ Delete(c)

Spec == Init /\ [][Next]_status

=============================================================================
