---------------------------- MODULE MCBulkStream ----------------------------
(***************************************************************************)
(* Instances of BulkStream small enough for TLC.                           *)
(***************************************************************************)
EXTENDS BulkStream

TwoChunks == [s \in Stores |-> 2 * Chunk]
\* A flash entry and a tail of stamps, a tail of one ambient sample.
Mixed == [s \in Stores |-> IF s = "stamp" THEN 3 ELSE 1]
\* One record of each kind, in RAM or already in flash.
OneEach == [s \in Stores |-> 1]
=============================================================================
