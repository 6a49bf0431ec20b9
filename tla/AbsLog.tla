------------------------------- MODULE AbsLog -------------------------------
(***************************************************************************)
(* What the log of one logger promises, without keys, chunks in flight,    *)
(* work items or metadata.  Every record offered to a store gets the next  *)
(* number.  A store keeps two sets of record numbers: "stored" survives a  *)
(* power loss, "tail" does not.  Records move from the tail to the store a *)
(* chunk at a time, oldest first, and are never in both.                   *)
(***************************************************************************)
EXTENDS Integers, FiniteSets

CONSTANTS
  Stores,     \* the record kinds logged
  Chunk,      \* records flushed together
  Room,       \* for each store, the tail size from which a record may be refused
  Overwrite,  \* TRUE: the oldest stored records may make room for new ones
  MaxLoss     \* stored records of one store a power loss may take

VARIABLES
  stored,     \* for each store, the durable records
  tail,       \* for each store, the records only in RAM
  last,       \* for each store, the number of the last record offered
  reading,    \* a download is going on
  erasing     \* a clear is going on

vars == <<stored, tail, last, reading, erasing>>

UpTo(S, c) == {x \in S : x <= c}
After(S, c) == {x \in S : x > c}

Init ==
  /\ stored = [s \in Stores |-> {}]
  /\ tail = [s \in Stores |-> {}]
  /\ last = [s \in Stores |-> 0]
  /\ reading = FALSE
  /\ erasing = FALSE

Accept(s) ==
  /\ last' = [last EXCEPT ![s] = @ + 1]
  /\ tail' = [tail EXCEPT ![s] = @ \cup {last[s] + 1}]
  /\ UNCHANGED <<stored, reading, erasing>>

\* A record is turned away only by a store whose tail has no room.
Refuse(s) ==
  /\ Cardinality(tail[s]) >= Room[s]
  /\ last' = [last EXCEPT ![s] = @ + 1]
  /\ UNCHANGED <<stored, tail, reading, erasing>>

\* The oldest chunk of the tail becomes durable.
Flush(s) ==
  \E c \in tail[s] :
    /\ Cardinality(UpTo(tail[s], c)) = Chunk
    /\ stored' = [stored EXCEPT ![s] = @ \cup UpTo(tail[s], c)]
    /\ tail' = [tail EXCEPT ![s] = After(@, c)]
    /\ UNCHANGED <<last, reading, erasing>>

\* Room is made by giving up the oldest durable records, never others.
Expire(s) ==
  /\ Overwrite
  /\ \E c \in stored[s] : stored' = [stored EXCEPT ![s] = After(@, c)]
  /\ UNCHANGED <<tail, last, reading, erasing>>

\* A download takes the oldest records of the tail.
HandOver(s) ==
  /\ reading
  /\ \E c \in tail[s] : tail' = [tail EXCEPT ![s] = After(@, c)]
  /\ UNCHANGED <<stored, last, reading, erasing>>

\* A power loss takes the tails and, at most, the newest durable records.
PowerLoss ==
  /\ tail' = [s \in Stores |-> {}]
  /\ stored' \in [Stores -> SUBSET UNION {stored[s] : s \in Stores}]
  /\ \A s \in Stores :
       /\ \E c \in 0 .. last[s] : stored'[s] = UpTo(stored[s], c)
       /\ Cardinality(stored[s] \ stored'[s]) <= MaxLoss
  /\ reading' = FALSE
  /\ erasing' = FALSE
  /\ UNCHANGED last

StartRead ==
  /\ ~reading /\ ~erasing
  /\ reading' = TRUE
  /\ UNCHANGED <<stored, tail, last, erasing>>

EndRead ==
  /\ reading' = FALSE
  /\ UNCHANGED <<stored, tail, last, erasing>>

\* A clear empties the stores and at last the tails; a download it cuts short
\* may finish handing over what it holds.
StartErase ==
  /\ ~erasing
  /\ erasing' = TRUE
  /\ reading' \in {FALSE, reading}
  /\ UNCHANGED <<stored, tail, last>>

Erase(s) ==
  /\ erasing
  /\ stored' = [stored EXCEPT ![s] = {}]
  /\ UNCHANGED <<tail, last, reading, erasing>>

EraseTails ==
  /\ erasing
  /\ erasing' = FALSE
  /\ tail' = [s \in Stores |-> {}]
  /\ UNCHANGED <<stored, last, reading>>

Next ==
  \/ \E s \in Stores : \/ Accept(s) \/ Refuse(s) \/ Flush(s) \/ Expire(s)
                       \/ HandOver(s) \/ Erase(s)
  \/ PowerLoss
  \/ StartRead \/ EndRead
  \/ StartErase \/ EraseTails

Spec == Init /\ [][Next]_vars
=============================================================================
