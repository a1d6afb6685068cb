---------------------------- MODULE MCSendPipeline ----------------------------
(*****************************************************************************)
(* SendPipeline for TLC, with two more instances that share no state:        *)
(* the send path with two workers and a sending thread, and SharedBuffer. A  *)
(* behaviour takes the steps of one of them, chosen in the first state, so   *)
(* that the states of a run add up instead of multiplying.                   *)
(*****************************************************************************)
EXTENDS SendPipeline, Naturals, Sequences, TLC

CONSTANTS
    Subjects,     \* the modules whose steps are explored
    RaceWorkers, RaceSenders,
    Handles, MaxBlocks, MaxPool, Modulus, AllocSize, PoolCount, Garbage,
    Sizes, ShortModulus, Strings

\* Four buffers: the first and third can be sent in parts.
FourBuffers == <<3, 1, 2, 1>>

\* Three buffers, the second of two bytes.
ThreeBuffers == <<1, 2, 1>>

\* Two buffers, enough for one to be posted twice.
TwoBuffers == <<1, 1>>

ASSUME RaceAssumption ==
    /\ IsFiniteSet(RaceWorkers) /\ RaceWorkers \cap RaceSenders = {}
    /\ Nobody \notin RaceWorkers \cup RaceSenders

\* The counts and lengths fit a DWORD: there are fewer handles than a count can
\* hold, and a size can be rounded up to whole IOCP_BUFFER_ALLOC_SIZE.
ASSUME BufferAssumption ==
    /\ Modulus \in Nat \ {0} /\ ShortModulus \in Nat \ {0}
    /\ AllocSize \in 1..Modulus - 1 /\ PoolCount \in Nat \ {0}
    /\ IsFiniteSet(Handles) /\ Cardinality(Handles) < Modulus
    /\ Garbage \subseteq 0..Modulus - 1 /\ Sizes \subseteq 0..Modulus - AllocSize
    /\ Strings \subseteq Nat

VARIABLES
    subject,  \* the module whose steps this behaviour takes
    raceReader, raceQueue, raceSocketOpen, racePosted, racePort, raceWire,
    raceUsed, raceAccepted, raceCompleted, raceUndefined, raceReceiver,
    racePc, raceSize, data, blocks, pool, position, wrapped, outside

Race == INSTANCE SendPipeline WITH
    Workers <- RaceWorkers, Senders <- RaceSenders, Lengths <- ThreeBuffers,
    reader <- raceReader, queue <- raceQueue, socketOpen <- raceSocketOpen,
    posted <- racePosted, port <- racePort, wire <- raceWire,
    used <- raceUsed, accepted <- raceAccepted, completed <- raceCompleted,
    undefined <- raceUndefined, receiver <- raceReceiver, pc <- racePc,
    size <- raceSize
Buffer == INSTANCE SharedBuffer

raceVars ==
    <<raceReader, raceQueue, raceSocketOpen, racePosted, racePort, raceWire,
      raceUsed, raceAccepted, raceCompleted, raceUndefined, raceReceiver,
      racePc, raceSize>>
bufferVars ==
    <<data, blocks, pool, position, wrapped, outside>>

MCInit ==
    /\ subject \in Subjects
    /\ Init /\ Race!Init /\ Buffer!Init
    /\ subject # "buffer" => \A b \in DOMAIN blocks : blocks[b].dirt = 0

MCNext ==
    /\ UNCHANGED subject
    /\ \/ subject = "pipeline" /\ Next /\ UNCHANGED <<raceVars, bufferVars>>
       \/ subject = "race" /\ Race!Next /\ UNCHANGED <<vars, bufferVars>>
       \/ subject = "buffer" /\ Buffer!Next /\ UNCHANGED <<vars, raceVars>>

\* A step of SendPipeline with one worker.
Pipeline(A) == subject = "pipeline" /\ A /\ UNCHANGED <<subject, raceVars, bufferVars>>
MCVars == <<subject, vars, raceVars, bufferVars>>

\* Fairness of SendPipeline, for the behaviours whose subject it is.
MCSpec ==
    /\ MCInit /\ [][MCNext]_MCVars
    /\ WF_MCVars(Pipeline(Kernel))
    /\ \A w \in Workers : SF_MCVars(Pipeline(Write(w))) /\ WF_MCVars(Pipeline(EndReceive(w)))

-----------------------------------------------------------------------------

\* However many threads send: an open connection with bytes to send has a send
\* posted, a completion to handle, or a worker on its way to post.
RaceNothingForgotten == Race!NothingForgotten

\* Two threads that post one reader: the peer gets only what Send accepted, in
\* order, as OnClientIoWrite says of itself.
RaceInOrder == Race!InOrder

\* SharedBuffer: counts, capacities and the reader's bounds.
BuffersAreSound == Buffer!BuffersAreSound

===============================================================================
