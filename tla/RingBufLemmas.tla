--------------------------- MODULE RingBufLemmas ---------------------------
(***************************************************************************)
(* What the ring buffer operators preserve, for every ring and size.       *)
(***************************************************************************)
EXTENDS RingBuf, TLAPS

\* A reset ring is a ring.
LEMMA RbEmptyIsRing == IsRing(RbEmpty)
BY DEF IsRing, RbEmpty

\* The cursors of a ring are naturals in order.
LEMMA RingCursors ==
  ASSUME NEW r, IsRing(r)
  PROVE  /\ r.tail \in Nat /\ r.head \in Nat /\ r.put \in Nat
         /\ r.tail <= r.head /\ r.head <= r.put
         /\ RbSize(r) \in Nat /\ RbSize(r) = r.put - r.head
         /\ \A p \in r.tail .. (r.put - 1) : r.slot[p] \in Nat
BY DEF IsRing, RbSize

\* ring_buf_put keeps a ring a ring and appends at the put position.
LEMMA RbPutIsRing ==
  ASSUME NEW r, IsRing(r), NEW x \in Nat
  PROVE  /\ IsRing(RbPut(r, x))
         /\ RbPut(r, x).tail = r.tail /\ RbPut(r, x).head = r.head
         /\ RbPut(r, x).put = r.put + 1
         /\ RbPut(r, x).slot[r.put] = x
         /\ \A p \in r.tail .. (r.put - 1) : RbPut(r, x).slot[p] = r.slot[p]
<1> DEFINE q == RbPut(r, x)
<1>1. /\ q = [tail |-> q.tail, head |-> q.head, put |-> q.put, slot |-> q.slot]
      /\ q.tail = r.tail /\ q.head = r.head /\ q.put = r.put + 1
      /\ q.slot = [p \in r.tail .. r.put |-> IF p = r.put THEN x ELSE r.slot[p]]
  BY DEF RbPut
<1>2. /\ r.tail \in Nat /\ r.head \in Nat /\ r.put \in Nat
      /\ r.tail <= r.head /\ r.head <= r.put
      /\ r.slot \in [r.tail .. (r.put - 1) -> Nat]
  BY DEF IsRing
<1> HIDE DEF q
<1>3. (q.put - 1) = r.put /\ q.slot \in [q.tail .. (q.put - 1) -> Nat]
  BY <1>1, <1>2
<1>4. IsRing(q)
  BY <1>1, <1>2, <1>3 DEF IsRing
<1>5. q.slot[r.put] = x /\ \A p \in r.tail .. (r.put - 1) : q.slot[p] = r.slot[p]
  BY <1>1, <1>2
<1> QED
  BY <1>1, <1>4, <1>5 DEF q

\* A claim of what is available keeps a ring a ring and moves only the head.
LEMMA RbClaimIsRing ==
  ASSUME NEW r, IsRing(r), NEW n \in Nat, n <= RbSize(r)
  PROVE  /\ IsRing(RbClaim(r, n))
         /\ RbClaim(r, n).tail = r.tail /\ RbClaim(r, n).head = r.head + n
         /\ RbClaim(r, n).put = r.put /\ RbClaim(r, n).slot = r.slot
BY DEF IsRing, RbClaim, RbSize

\* Finishing keeps a ring a ring; a finish within the claim moves the tail and
\* leaves nothing claimed, and the remaining records keep their places.
LEMMA RbFinishIsRing ==
  ASSUME NEW r, IsRing(r), NEW n \in Nat
  PROVE  /\ IsRing(RbFinish(r, n))
         /\ RbFinish(r, n).put = r.put
         /\ n <= r.head - r.tail =>
              /\ RbFinish(r, n).tail = r.tail + n /\ RbFinish(r, n).head = r.tail + n
              /\ \A p \in (r.tail + n) .. (r.put - 1) : RbFinish(r, n).slot[p] = r.slot[p]
<1>1. CASE n > r.head - r.tail
  BY <1>1 DEF IsRing, RbFinish
<1>2. CASE ~(n > r.head - r.tail)
  <2>1. RbFinish(r, n) =
          [tail |-> r.tail + n, head |-> r.tail + n, put |-> r.put,
           slot |-> [p \in (r.tail + n) .. (r.put - 1) |-> r.slot[p]]]
    BY <1>2 DEF RbFinish
  <2>2. r.tail + n \in Nat /\ r.tail + n <= r.put /\ r.put \in Nat
    BY <1>2 DEF IsRing
  <2>3. \A p \in (r.tail + n) .. (r.put - 1) : r.slot[p] \in Nat
    BY DEF IsRing
  <2> QED
    BY <2>1, <2>2, <2>3 DEF IsRing
<1> QED
  BY <1>1, <1>2

\* The same for a finish within the claim.
LEMMA RbFinishMoves ==
  ASSUME NEW r, IsRing(r), NEW n \in Nat, n <= r.head - r.tail
  PROVE  /\ IsRing(RbFinish(r, n))
         /\ RbFinish(r, n).put = r.put
         /\ RbFinish(r, n).tail = r.tail + n
         /\ RbFinish(r, n).head = RbFinish(r, n).tail
         /\ \A p \in (r.tail + n) .. (r.put - 1) : RbFinish(r, n).slot[p] = r.slot[p]
BY RbFinishIsRing

\* A claim obtains no more than was asked for and no more than there is.
LEMMA RbClaimLenBounds ==
  ASSUME NEW r, IsRing(r), NEW n \in Nat, NEW size \in Nat \ {0}
  PROVE  /\ RbClaimLen(r, n, size) \in Nat
         /\ RbClaimLen(r, n, size) <= n
         /\ RbClaimLen(r, n, size) <= RbSize(r)
<1>1. r.head % size \in 0 .. (size - 1)
  BY DEF IsRing
<1> QED
  BY <1>1 DEF IsRing, RbClaimLen, RbContig, RbSize

\* A size that is a multiple of the chunk is a number of whole chunks.
LEMMA WholeChunks ==
  ASSUME NEW c \in Nat \ {0}, NEW size \in Nat \ {0}, size % c = 0
  PROVE  \E n \in Nat \ {0} : size = n * c
<1> DEFINE q == size \div c
<1>1. q \in Nat /\ size = q * c + (size % c)
  OBVIOUS
<1> HIDE DEF q
<1>2. size = q * c /\ q # 0
  BY <1>1
<1> QED
  BY <1>1, <1>2

\* Whole chunks never straddle the physical end: a multiple of the chunk leaves
\* room for a chunk before the end of a ring of n chunks.
LEMMA ModWhole ==
  ASSUME NEW c \in Nat \ {0}, NEW n \in Nat \ {0}, NEW k \in Nat
  PROVE  (k * c) % (n * c) <= n * c - c
<1> DEFINE size == n * c
           q == (k * c) \div size
           m == (k * c) % size
           j == k - q * n
<1>1. size \in Nat \ {0} /\ k * c \in Nat
  OBVIOUS
<1>2. q \in Nat /\ m \in 0 .. (size - 1) /\ k * c = q * size + m
  <2> HIDE DEF size
  <2> QED BY <1>1
<1>3. m = j * c
  <2> HIDE DEF q, m
  <2> QED BY <1>2
<1>4. j \in Int /\ j <= n - 1
  <2>1. j \in Int
    BY <1>2
  <2> HIDE DEF j, q, m
  <2>2. j * c < n * c
    BY <1>2, <1>3
  <2>3. j < n
    BY <2>1, <2>2
  <2> QED BY <2>1, <2>3
<1>5. j * c <= (n - 1) * c
  <2> HIDE DEF j
  <2> QED BY <1>4
<1> HIDE DEF j, m
<1>6. m <= n * c - c
  BY <1>3, <1>5
<1> QED BY <1>6 DEF m
=============================================================================
