--------------------------- MODULE MCSocketContext ---------------------------
(* Instances of SocketContext for TLC.                                     *)
EXTENDS SocketContext, TLC

\* Contexts, workers and senders are interchangeable in the safety runs.
Symmetric == Permutations(Contexts) \cup Permutations(Workers)
             \cup Permutations(Senders)

=============================================================================
