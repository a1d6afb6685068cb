------------------------------- MODULE BytePipe -------------------------------
(***************************************************************************)
(* What Send promises of one connection: the bytes it accepts reach the    *)
(* peer once each and in order, or the connection ends first.              *)
(***************************************************************************)
EXTENDS Naturals, Sequences

CONSTANT Packets  \* the byte sequences that can be written

VARIABLES
    input,   \* bytes accepted
    output   \* bytes delivered

Init == input = <<>> /\ output = <<>>

Write(p) == input' = input \o p /\ UNCHANGED output

Deliver(n) ==
    /\ output' = SubSeq(input, 1, n)
    /\ UNCHANGED input

Next ==
    \/ \E p \in Packets : Write(p)
    \/ \E n \in (Len(output) + 1)..Len(input) : Deliver(n)

Spec == Init /\ [][Next]_<<input, output>>

=============================================================================
