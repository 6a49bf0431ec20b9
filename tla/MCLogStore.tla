----------------------------- MODULE MCLogStore -----------------------------
(***************************************************************************)
(* Instances of LogStore small enough for TLC.  The constants that are     *)
(* functions get their values here.                                        *)
(***************************************************************************)
EXTENDS LogStore

\* A ring of two chunks, so that claims reach its physical end.
TwoChunks == [s \in Stores |-> 2 * Chunk]
\* One store only: the other is offered nothing.
StampOnly == [s \in Stores |-> IF s = "stamp" THEN 12 ELSE 0]
\* Three chunks of one store, so that the third meets a full partition.
BothStores == [s \in Stores |-> IF s = "stamp" THEN 6 ELSE 3]
Few == [s \in Stores |-> IF s = "stamp" THEN 9 ELSE 0]
=============================================================================
