------------------------------ MODULE RingBuf ------------------------------
(***************************************************************************)
(* The Zephyr ring_buf that log_service.c keeps its RAM tails in.  It is a *)
(* library outside the repository, modelled from the calls the code makes. *)
(* Positions are absolute, counted in records since the last reset; only a *)
(* position modulo the size is physical.  A ring is a record               *)
(*   tail  first record not yet consumed          (get_tail)               *)
(*   head  first record not yet claimed           (get_head)               *)
(*   put   next free position                     (put_tail)               *)
(*   slot  the records between tail and put.                               *)
(* Records between tail and head are claimed: a reader holds a pointer to  *)
(* them, and they still take room.                                         *)
(***************************************************************************)
EXTENDS Integers

IsRing(r) ==
  /\ r = [tail |-> r.tail, head |-> r.head, put |-> r.put, slot |-> r.slot]
  /\ r.tail \in Nat /\ r.head \in Nat /\ r.put \in Nat
  /\ r.tail <= r.head /\ r.head <= r.put
  /\ r.slot \in [r.tail .. (r.put - 1) -> Nat]

RbEmpty == [tail |-> 0, head |-> 0, put |-> 0, slot |-> [p \in {} |-> 0]]

\* ring_buf_size_get: what a reader could still claim.
RbSize(r) == r.put - r.head

\* ring_buf_space_get: claimed records are not free before they are finished.
RbSpace(r, size) == size - (r.put - r.tail)

\* A claim never wraps: it stops at the physical end of the buffer.
RbContig(r, size) == size - (r.head % size)

\* ring_buf_get_claim(n): the number of records a claim of n obtains.
RbClaimLen(r, n, size) ==
  LET most == IF RbSize(r) < RbContig(r, size) THEN RbSize(r) ELSE RbContig(r, size)
  IN  IF n < most THEN n ELSE most

\* ring_buf_put of one record.
RbPut(r, x) ==
  [tail |-> r.tail, head |-> r.head, put |-> r.put + 1,
   slot |-> [p \in r.tail .. r.put |-> IF p = r.put THEN x ELSE r.slot[p]]]

RbClaim(r, n) == [r EXCEPT !.head = @ + n]

\* ring_buf_get_finish(n): consumes n claimed records and gives up every other
\* claim; more than is claimed is -EINVAL and changes nothing.
RbFinish(r, n) ==
  IF n > r.head - r.tail
  THEN r
  ELSE [tail |-> r.tail + n, head |-> r.tail + n, put |-> r.put,
        slot |-> [p \in (r.tail + n) .. (r.put - 1) |-> r.slot[p]]]
=============================================================================
