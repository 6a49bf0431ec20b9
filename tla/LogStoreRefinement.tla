------------------------- MODULE LogStoreRefinement -------------------------
(***************************************************************************)
(* LogStore implements AbsLog, for every chunk size, ring size, partition  *)
(* size, eviction limit and strategy: every step of the stores is a step   *)
(* of the abstract log or changes nothing it shows.                        *)
(***************************************************************************)
EXTENDS LogStoreProofs, FunctionTheorems, WellFoundedInduction

-----------------------------------------------------------------------------
(***************************************************************************)
(* Sets of numbers, and sorted sequences of records seen as sets.          *)
(***************************************************************************)
\* A non-empty set of naturals has a least element.
LEMMA LeastNat ==
  ASSUME NEW T, T \subseteq Nat, T # {}
  PROVE  \E x \in T : \A y \in T : x <= y
<1>1. PICK x \in T : \A y \in T : ~(<<y, x>> \in OpToRel(<, Nat))
  <2> DEFINE R == OpToRel(<, Nat)
  <2>1. IsWellFoundedOn(R, Nat)
    BY NatLessThanWellFounded
  <2> HIDE DEF R
  <2>2. \E x \in T : \A y \in T : ~(<<y, x>> \in R)
    BY <2>1, WFMin
  <2> QED BY <2>2 DEF R
<1>2. \A y \in T : ~(y < x)
  BY <1>1, Zenon DEF OpToRel
<1>3. \A y \in T : x <= y
  BY <1>2
<1> QED
  BY <1>3

\* The records at the places a to b.
RecordsAt(f, a, b) == {f[p] : p \in a .. b}

\* A set of records taken from sorted places is as large as the set of places.
LEMMA SortedCardinality ==
  ASSUME NEW a \in Int, NEW b \in Int, NEW f,
         \A p \in a .. b : f[p] \in Nat,
         \A p, q \in a .. b : p < q => f[p] < f[q]
  PROVE  /\ IsFiniteSet(RecordsAt(f, a, b))
         /\ Cardinality(RecordsAt(f, a, b)) = IF a > b THEN 0 ELSE b - a + 1
<1> DEFINE T == RecordsAt(f, a, b)
           g == [p \in a .. b |-> f[p]]
<1>1. g \in [a .. b -> T] /\ \A t \in T : \E p \in a .. b : g[p] = t
  BY DEF RecordsAt
<1>2. \A p, q \in a .. b : g[p] = g[q] => p = q
  <2> SUFFICES ASSUME NEW p \in a .. b, NEW q \in a .. b, f[p] = f[q], p # q PROVE FALSE
    OBVIOUS
  <2>1. p < q \/ q < p
    OBVIOUS
  <2>2. f[p] < f[q] \/ f[q] < f[p]
    BY <2>1
  <2> QED BY <2>2
<1> HIDE DEF g, T
<1>3. g \in Bijection(a .. b, T)
  BY <1>1, <1>2, Fun_IsBij
<1>4. ExistsBijection(a .. b, T)
  BY <1>3 DEF ExistsBijection
<1>5. IsFiniteSet(a .. b) /\ Cardinality(a .. b) = IF a > b THEN 0 ELSE b - a + 1
  BY FS_Interval
<1>6. IsFiniteSet(T) /\ Cardinality(T) = Cardinality(a .. b)
  BY <1>4, <1>5, FS_Bijection
<1> QED
  BY <1>5, <1>6 DEF T

\* The records up to the one at place c come from the places up to c, the
\* records after it from the places after c.
LEMMA SortedCut ==
  ASSUME NEW a \in Int, NEW b \in Int, NEW c \in a .. b, NEW f,
         \A p \in a .. b : f[p] \in Nat,
         \A p, q \in a .. b : p < q => f[p] < f[q]
  PROVE  /\ f[c] \in RecordsAt(f, a, b)
         /\ \A x : (x \in RecordsAt(f, a, b) /\ x <= f[c]) <=> x \in RecordsAt(f, a, c)
         /\ \A x : (x \in RecordsAt(f, a, b) /\ x > f[c]) <=> x \in RecordsAt(f, c + 1, b)
<1>1. \A p \in a .. b : /\ p <= c => f[p] <= f[c]
                        /\ p > c => f[p] > f[c]
  <2> TAKE p \in a .. b
  <2>1. CASE p < c
    BY <2>1
  <2>2. CASE p = c
    BY <2>2
  <2>3. CASE p > c
    BY <2>3
  <2> QED BY <2>1, <2>2, <2>3
<1>2. \A p \in a .. b : /\ f[p] <= f[c] => p <= c
                        /\ f[p] > f[c] => p > c
  BY <1>1
<1>3. /\ \A p \in a .. c : p \in a .. b /\ p <= c
      /\ \A p \in (c + 1) .. b : p \in a .. b /\ p > c
      /\ \A p \in a .. b : p <= c => p \in a .. c
      /\ \A p \in a .. b : p > c => p \in (c + 1) .. b
  OBVIOUS
<1>4. \A x : (x \in RecordsAt(f, a, b) /\ x <= f[c]) <=> x \in RecordsAt(f, a, c)
  BY <1>1, <1>2, <1>3 DEF RecordsAt
<1>5. \A x : (x \in RecordsAt(f, a, b) /\ x > f[c]) <=> x \in RecordsAt(f, c + 1, b)
  BY <1>1, <1>2, <1>3 DEF RecordsAt
<1> QED
  BY <1>4, <1>5 DEF RecordsAt

-----------------------------------------------------------------------------
(***************************************************************************)
(* What the mapping needs to know of the keys: no key present is older     *)
(* than oldest_key, neither now nor in the metadata the next boot reads,   *)
(* the partition is never overfull, and unless a metadata write failed at  *)
(* most the newest chunk is missing from the saved metadata.               *)
(***************************************************************************)
LiveInv(s) ==
  /\ flash[s].meta.oldest <= meta[s].oldest
  /\ \A k \in DOMAIN flash[s].data : meta[s].oldest <= k
  /\ IsFiniteSet(DOMAIN flash[s].data) /\ Cardinality(DOMAIN flash[s].data) <= Slots
  /\ "meta" \notin Faults => meta[s].write = flash[s].meta.write + Unsaved(s)

RefInv ==
  /\ TypeInv
  /\ ready
  /\ \A s \in Stores : SpanInv(s) /\ OrderInv(s) /\ LiveInv(s)

LEMMA LiveTyped ==
  ASSUME TypeInv, NEW s \in Stores
  PROVE  /\ IsFlash(flash[s]) /\ meta[s] \in Meta /\ flash[s].meta \in Meta
         /\ DOMAIN flash[s].data \subseteq Nat
         /\ meta[s].write \in Nat /\ meta[s].oldest \in Nat /\ meta[s].count \in Nat
         /\ flash[s].meta.write \in Nat /\ flash[s].meta.oldest \in Nat
         /\ flash[s].meta.count \in Nat
         /\ Slots \in Nat /\ Chunk \in Nat \ {0}
BY ConstantsAssumption DEF TypeInv, TypeOK, IsFlash, Meta

LEMMA LiveStep ==
  ASSUME "delete" \notin Faults, "clear" \notin Faults, "mount" \notin Faults,
         "read" \notin Faults, TypeInv, ready, [Next]_vars,
         NEW t \in Stores, SpanInv(t), LiveInv(t)
  PROVE  LiveInv(t)'
<1> DEFINE D == DOMAIN flash[t].data
<1>1. /\ D \subseteq Nat /\ Slots \in Nat
      /\ meta[t].write \in Nat /\ meta[t].oldest \in Nat /\ meta[t].count \in Nat
      /\ flash[t].meta.write \in Nat /\ flash[t].meta.oldest \in Nat
      /\ meta[t].oldest <= meta[t].write
  BY LiveTyped DEF SpanInv
<1>2. CASE /\ flash'[t] = flash[t] /\ meta'[t] = meta[t]
           /\ commit[t].pc = "save" <=> commit'[t].pc = "save"
  BY <1>2 DEF LiveInv, Unsaved
<1>3. CASE QuietStep
  <2>1. UNCHANGED <<flash, meta>> /\ (commit[t].pc = "save" <=> commit'[t].pc = "save")
    BY <1>3, QuietSteps DEF TypeInv
  <2> QED BY <1>2, <2>1
<1>4. ASSUME NEW s \in Stores, s # t, CommitStore(s) \/ Evict(s) \/ CommitSave(s) \/ ClearFlash(s)
      PROVE  LiveInv(t)'
  <2>1. flash'[t] = flash[t] /\ meta'[t] = meta[t] /\ commit'[t] = commit[t]
    BY <1>4, OtherStore DEF TypeInv
  <2> QED BY <1>2, <2>1
<1>5. CASE CommitStore(t)
  <2>1. commit[t].pc = "write"
    BY <1>5 DEF CommitStore
  <2>2. DOMAIN flash'[t].data = D \cup {meta[t].write}
    BY <1>5, StoreEffect DEF TypeInv
  <2>3. flash'[t].meta = flash[t].meta /\ meta'[t] = Appended(meta[t])
    BY <1>5, StoreEffect DEF TypeInv
  <2>4. commit'[t].pc = "save"
    <3>1. commit'[t] = At("save")
      BY <1>5, StoreEffect DEF TypeInv
    <3> QED BY <3>1 DEF At
  <2>5. IsFiniteSet(D \cup {meta[t].write}) /\ Cardinality(D \cup {meta[t].write}) <= Slots
    BY <1>5, FS_AddElement DEF LiveInv, CommitStore, Fits
  <2> QED BY <1>1, <2>1, <2>2, <2>3, <2>4, <2>5 DEF LiveInv, Unsaved, Appended
<1>6. CASE Evict(t)
  <2>1. commit[t].pc = "write"
    BY <1>6 DEF Evict
  <2>2. DOMAIN flash'[t].data = D \ {meta[t].oldest}
    BY <1>6, EvictEffect DEF TypeInv, Victim
  <2>3. flash'[t].meta = flash[t].meta /\ meta'[t] = Evicted(meta[t])
    BY <1>6, EvictEffect DEF TypeInv
  <2>4. commit'[t].pc # "save"
    <3>1. commit'[t] = At("fail") \/ commit'[t] = [pc |-> "write", attempt |-> commit[t].attempt + 1]
      BY <1>6, EvictEffect DEF TypeInv
    <3> QED BY <3>1 DEF At
  <2>5. IsFiniteSet(D \ {meta[t].oldest}) /\ Cardinality(D \ {meta[t].oldest}) <= Slots
    <3>1. IsFiniteSet(D) /\ Cardinality(D) <= Slots /\ Cardinality(D) \in Nat
      BY FS_CardinalityType DEF LiveInv
    <3>2. /\ IsFiniteSet(D \ {meta[t].oldest}) /\ Cardinality(D \ {meta[t].oldest}) \in Nat
          /\ Cardinality(D \ {meta[t].oldest}) <= Cardinality(D)
      BY <3>1, FS_Subset, FS_CardinalityType
    <3> QED BY <1>1, <3>1, <3>2
  <2>6. \A k \in D \ {meta[t].oldest} : meta[t].oldest + 1 <= k
    BY <1>1 DEF LiveInv
  <2> QED BY <1>1, <2>1, <2>2, <2>3, <2>4, <2>5, <2>6 DEF LiveInv, Unsaved, Evicted
<1>7. CASE CommitSave(t)
  <2>1. commit[t].pc = "save"
    BY <1>7 DEF CommitSave
  <2>2. /\ flash'[t].data = flash[t].data /\ meta'[t] = meta[t]
        /\ flash'[t].meta = meta[t] \/ ("meta" \in Faults /\ flash'[t].meta = flash[t].meta)
    BY <1>7, SaveEffect DEF TypeInv
  <2>3. commit'[t].pc # "save"
    <3>1. commit'[t] = At("done")
      BY <1>7, SaveEffect DEF TypeInv
    <3> QED BY <3>1 DEF At
  <2> QED BY <1>1, <2>1, <2>2, <2>3 DEF LiveInv, Unsaved
<1>8. CASE ClearFlash(t)
  <2>1. commit[t].pc # "save"
    BY <1>8 DEF ClearFlash, TypeInv, ExclusionInv, SysIdle, Idle, Stores
  <2>2. flash'[t].data = NoData /\ flash'[t].meta = FreshMeta /\ meta'[t] = FreshMeta
    BY <1>8, ClearEffect DEF TypeInv
  <2>3. commit' = commit
    BY <1>8 DEF ClearFlash
  <2>4. DOMAIN flash'[t].data = {} /\ IsFiniteSet({}) /\ Cardinality({}) = 0
    BY <2>2, FS_EmptySet DEF NoData
  <2> QED BY <1>1, <2>1, <2>2, <2>3, <2>4 DEF LiveInv, Unsaved, FreshMeta
<1>9. ASSUME NEW m \in Mountable, NEW r \in Restorable(m), Reboot(m, r)
      PROVE  LiveInv(t)'
  <2>1. r = Stores
    BY DEF Mountable, Restorable
  <2>2. flash' = flash /\ meta'[t] = flash[t].meta /\ commit'[t].pc = "idle"
    BY <1>9, <2>1 DEF Reboot, Idle
  <2>3. \A k \in D : flash[t].meta.oldest <= k
    BY <1>1 DEF LiveInv
  <2> QED BY <1>1, <2>2, <2>3 DEF LiveInv, Unsaved
<1> QED
  BY <1>3, <1>4, <1>5, <1>6, <1>7, <1>8, <1>9, NextSplit

LEMMA RefInvInit == Init => RefInv
<1> SUFFICES ASSUME Init PROVE RefInv
  OBVIOUS
<1>1. \A s \in Stores : SpanInv(s)
  BY DEF Init, SpanInv, FreshMeta
<1>2. ASSUME NEW s \in Stores PROVE LiveInv(s)
  <2>1. /\ flash[s].data = NoData /\ flash[s].meta = FreshMeta /\ meta[s] = FreshMeta
        /\ commit[s].pc = "idle"
    BY DEF Init, Idle
  <2>2. DOMAIN flash[s].data = {} /\ IsFiniteSet({}) /\ Cardinality({}) = 0 /\ Slots \in Nat
    BY <2>1, FS_EmptySet, ConstantsAssumption DEF NoData
  <2> QED BY <2>1, <2>2 DEF LiveInv, Unsaved, FreshMeta
<1> QED
  BY <1>1, <1>2, TypeInvInit, OrderInit DEF RefInv, Init

LEMMA RefInvStep ==
  ASSUME Faults \subseteq {"write", "meta"}, RefInv, [Next]_vars
  PROVE  RefInv'
<1>1. /\ "delete" \notin Faults /\ "clear" \notin Faults /\ "mount" \notin Faults
      /\ "read" \notin Faults
  OBVIOUS
<1>2. TypeInv' /\ \A s \in Stores : SpanInv(s)'
  BY TypeInvStep, SpanInvStep DEF RefInv
<1>3. \A s \in Stores : OrderInv(s)'
  BY <1>1, <1>2, OrderStep DEF RefInv
<1>4. \A s \in Stores : LiveInv(s)'
  BY <1>1, LiveStep DEF RefInv
<1>5. ready'
  <2>1. CASE UNCHANGED ready
    BY <2>1 DEF RefInv
  <2>2. ASSUME NEW m \in Mountable, NEW r \in Restorable(m), Reboot(m, r)
        PROVE  ready'
    BY <1>1, <2>2 DEF Mountable, Reboot
  <2>3. CASE QuietStep
    BY <2>3, QuietSteps, Zenon DEF RefInv, TypeInv, Stores
  <2>4. ASSUME NEW s \in Stores, CommitStore(s) \/ Evict(s) \/ CommitSave(s) \/ ClearFlash(s)
        PROVE  UNCHANGED ready
    BY <2>4, Zenon DEF CommitStore, Evict, CommitSave, ClearFlash
  <2> QED BY <2>1, <2>2, <2>3, <2>4, NextSplit
<1> QED
  BY <1>2, <1>3, <1>4, <1>5 DEF RefInv

-----------------------------------------------------------------------------
(***************************************************************************)
(* The mapped sets.                                                        *)
(***************************************************************************)
\* The abstract log counts as LogStore does.
LEMMA SameCardinality == \A S : Abs!Cardinality(S) = Cardinality(S)
BY DEF Abs!Cardinality, Cardinality

LEMMA StoredElements ==
  ASSUME NEW s \in Stores
  PROVE  \A x : x \in StoredRecords(s) <=>
           \E k \in LiveKeys(s) : \E i \in Offsets : x = flash[s].data[k][i]
BY DEF StoredRecords

LEMMA TailElements ==
  ASSUME NEW s \in Stores
  PROVE  \A x : x \in TailRecords(s) <=> \E p \in TailPos(s) : x = ring[s].slot[p]
BY DEF TailRecords

\* The live keys are the keys before the next one to write.
LEMMA LiveAreOld ==
  ASSUME RefInv, NEW s \in Stores
  PROVE  /\ LiveKeys(s) = OldKeys(s)
         /\ \A k \in LiveKeys(s) : k \in Nat /\ k \in DOMAIN flash[s].data
         /\ \A k \in LiveKeys(s) : \A i \in Offsets : flash[s].data[k][i] \in 1 .. offered[s]
         /\ \A k \in LiveKeys(s) : ChunkSorted(flash[s].data[k])
         /\ \A k, l \in LiveKeys(s) : k < l => Before(flash[s].data[k], flash[s].data[l])
<1>1. LiveKeys(s) = OldKeys(s)
  BY DEF LiveKeys, OldKeys, NextKey, RefInv, LiveInv
<1>2. \A k \in LiveKeys(s) : k \in Nat /\ k \in DOMAIN flash[s].data
  BY LiveTyped DEF RefInv, LiveKeys
<1> QED
  BY <1>1, <1>2 DEF RefInv, OrderInv, OfferedInv, FlashSorted

\* The tail lies in the ring, sorted.
LEMMA TailIsSorted ==
  ASSUME RefInv, NEW s \in Stores
  PROVE  /\ ring[s].tail \in Nat /\ ring[s].put \in Nat /\ TailFrom(s) \in Nat
         /\ ring[s].tail <= TailFrom(s) /\ TailFrom(s) <= ring[s].put
         /\ TailPos(s) = TailFrom(s) .. (ring[s].put - 1)
         /\ \A p \in TailPos(s) : ring[s].slot[p] \in Nat
         /\ \A p, q \in TailPos(s) : p < q => ring[s].slot[p] < ring[s].slot[q]
         /\ TailFrom(s) = ring[s].tail \/ TailFrom(s) = ring[s].tail + Chunk
<1>1. /\ IsRing(ring[s]) /\ Chunk \in Nat \ {0}
      /\ commit[s].pc # "idle" => ring[s].head = ring[s].tail + Chunk
  BY ConstantsAssumption DEF RefInv, TypeInv, TypeOK, ClaimInv
<1>2. /\ ring[s].tail \in Nat /\ ring[s].head \in Nat /\ ring[s].put \in Nat
      /\ ring[s].tail <= ring[s].head /\ ring[s].head <= ring[s].put
      /\ \A p \in ring[s].tail .. (ring[s].put - 1) : ring[s].slot[p] \in Nat
  BY <1>1, RingCursors
<1>3. /\ TailFrom(s) \in Nat /\ ring[s].tail <= TailFrom(s) /\ TailFrom(s) <= ring[s].put
      /\ TailFrom(s) = ring[s].tail \/ TailFrom(s) = ring[s].tail + Chunk
  BY <1>1, <1>2 DEF TailFrom
<1>4. \A p \in TailPos(s) : p \in ring[s].tail .. (ring[s].put - 1)
  BY <1>2, <1>3 DEF TailPos
<1>5. \A p, q \in TailPos(s) : p < q => ring[s].slot[p] < ring[s].slot[q]
  BY <1>4 DEF RefInv, OrderInv, RingSorted
<1> QED
  BY <1>2, <1>3, <1>4, <1>5 DEF TailPos

\* A store that keeps its entries and metadata shows the same stored records.
LEMMA StoredKept ==
  ASSUME NEW s \in Stores, flash'[s].data = flash[s].data, meta'[s] = meta[s]
  PROVE  StoredRecords(s)' = StoredRecords(s)
<1>1. LiveKeys(s)' = LiveKeys(s)
  BY DEF LiveKeys
<1> QED
  BY <1>1 DEF StoredRecords

\* A store whose readable places keep their records shows the same tail.
LEMMA TailKept ==
  ASSUME NEW s \in Stores, TailPos(s)' = TailPos(s),
         \A p \in TailPos(s) : ring'[s].slot[p] = ring[s].slot[p]
  PROVE  TailRecords(s)' = TailRecords(s)
BY DEF TailRecords

LEMMA StoredFrame ==
  ASSUME NEW s \in Stores, NEW S, StoredRecords(s)' = S,
         \A t \in Stores \ {s} : StoredRecords(t)' = StoredRecords(t)
  PROVE  AbsStored' = [AbsStored EXCEPT ![s] = S]
BY DEF AbsStored

LEMMA TailFrame ==
  ASSUME NEW s \in Stores, NEW S, TailRecords(s)' = S,
         \A t \in Stores \ {s} : TailRecords(t)' = TailRecords(t)
  PROVE  AbsTail' = [AbsTail EXCEPT ![s] = S]
BY DEF AbsTail

LEMMA AllStoredKept ==
  ASSUME \A t \in Stores : flash'[t].data = flash[t].data /\ meta'[t] = meta[t]
  PROVE  AbsStored' = AbsStored
<1>1. \A t \in Stores : StoredRecords(t)' = StoredRecords(t)
  BY StoredKept
<1> QED
  BY <1>1 DEF AbsStored

LEMMA AllTailsKept ==
  ASSUME ring' = ring, \A t \in Stores : TailFrom(t)' = TailFrom(t)
  PROVE  AbsTail' = AbsTail
<1>1. \A t \in Stores : TailRecords(t)' = TailRecords(t)
  BY DEF TailPos, TailRecords
<1> QED
  BY <1>1 DEF AbsTail

\* A step of one store that leaves the ring of another alone keeps its tail.
LEMMA OtherTailKept ==
  ASSUME NEW t \in Stores, ring'[t] = ring[t], commit'[t] = commit[t]
  PROVE  TailRecords(t)' = TailRecords(t)
BY DEF TailRecords, TailPos, TailFrom

-----------------------------------------------------------------------------
(***************************************************************************)
(* Records come in.                                                        *)
(***************************************************************************)
\* A record put into the tail is accepted.
LEMMA PutMapsToAccept ==
  ASSUME RefInv, NEW s \in Stores, PutAccepted(s)
  PROVE  Abs!Accept(s)
<1> DEFINE r == RbPut(ring[s], offered[s] + 1)
<1>1. IsRing(ring[s]) /\ offered[s] \in Nat /\ offered[s] + 1 \in Nat
  BY DEF RefInv, TypeInv, TypeOK
<1>2. /\ r.tail = ring[s].tail /\ r.put = ring[s].put + 1 /\ r.slot[ring[s].put] = offered[s] + 1
      /\ \A p \in ring[s].tail .. (ring[s].put - 1) : r.slot[p] = ring[s].slot[p]
  BY <1>1, RbPutIsRing
<1>3. /\ ring' = [ring EXCEPT ![s] = r] /\ offered' = [offered EXCEPT ![s] = @ + 1]
      /\ flash' = flash /\ meta' = meta /\ commit' = commit
  BY DEF PutAccepted, Offer
<1>4. UNCHANGED <<active, clearing>>
  BY Zenon DEF PutAccepted
<1>5. ring'[s] = r /\ \A t \in Stores \ {s} : ring'[t] = ring[t]
  BY <1>3 DEF RefInv, TypeInv, TypeOK
<1> HIDE DEF r
<1>6. TailFrom(s)' = TailFrom(s)
  BY <1>2, <1>3, <1>5 DEF TailFrom
<1>7. TailPos(s)' = TailPos(s) \cup {ring[s].put}
  BY <1>2, <1>5, <1>6, TailIsSorted DEF TailPos
<1>8. \A p \in TailPos(s) : ring'[s].slot[p] = ring[s].slot[p]
  BY <1>2, <1>5, TailIsSorted
<1>9. TailRecords(s)' = TailRecords(s) \cup {offered[s] + 1}
  BY <1>2, <1>5, <1>7, <1>8 DEF TailRecords
<1>10. \A t \in Stores \ {s} : TailRecords(t)' = TailRecords(t)
  BY <1>3, <1>5, OtherTailKept
<1>11. AbsTail' = [AbsTail EXCEPT ![s] = TailRecords(s) \cup {offered[s] + 1}]
  BY <1>9, <1>10, TailFrame
<1>12. AbsTail[s] = TailRecords(s)
  BY DEF AbsTail
<1>13. AbsStored' = AbsStored
  BY <1>3, AllStoredKept
<1> QED
  BY <1>3, <1>4, <1>11, <1>12, <1>13 DEF Abs!Accept

\* A record is refused by a tail whose unclaimed part is full.
LEMMA RefusedMapsToRefuse ==
  ASSUME RefInv, NEW s \in Stores, PutRefused(s)
  PROVE  Abs!Refuse(s)
<1>1. /\ offered' = [offered EXCEPT ![s] = @ + 1]
      /\ ring' = ring /\ flash' = flash /\ meta' = meta /\ commit' = commit
  BY DEF PutRefused, Offer
<1>2. UNCHANGED <<active, clearing>>
  BY Zenon DEF PutRefused
<1>3. ring[s].put - ring[s].tail = RingSize[s] /\ RingSize[s] \in Nat /\ Chunk \in Nat
  <2>1. ring[s].tail \in Nat /\ ring[s].put \in Nat
    BY TailIsSorted
  <2>2. RingSize[s] \in Nat /\ Chunk \in Nat
    BY ConstantsAssumption
  <2>3. RbSpace(ring[s], RingSize[s]) = 0
    BY DEF PutRefused
  <2> QED BY <2>1, <2>2, <2>3 DEF RbSpace
<1> DEFINE a == TailFrom(s)
           b == ring[s].put - 1
<1>4. /\ a \in Int /\ b \in Int /\ TailPos(s) = a .. b
      /\ \A p \in a .. b : ring[s].slot[p] \in Nat
      /\ \A p, q \in a .. b : p < q => ring[s].slot[p] < ring[s].slot[q]
  BY TailIsSorted
<1>5. Cardinality(TailRecords(s)) = IF a > b THEN 0 ELSE b - a + 1
  <2> HIDE DEF a, b
  <2>1. TailRecords(s) = RecordsAt(ring[s].slot, a, b)
    BY <1>4 DEF TailRecords, RecordsAt
  <2> QED BY <1>4, <2>1, SortedCardinality
<1>6. Cardinality(TailRecords(s)) >= RingSize[s] - Chunk
  <2>1. /\ ring[s].tail \in Nat /\ ring[s].put \in Nat /\ a \in Nat /\ a <= ring[s].put
        /\ a = ring[s].tail \/ a = ring[s].tail + Chunk
    BY TailIsSorted
  <2> HIDE DEF a
  <2> QED BY <1>3, <1>5, <2>1
<1>7. Cardinality(AbsTail[s]) >= [t \in Stores |-> RingSize[t] - Chunk][s]
  BY <1>6 DEF AbsTail
<1>8. AbsStored' = AbsStored
  BY <1>1, AllStoredKept
<1>9. AbsTail' = AbsTail
  BY <1>1, AllTailsKept DEF TailFrom
<1> QED
  BY <1>1, <1>2, <1>7, <1>8, <1>9, SameCardinality DEF Abs!Refuse

-----------------------------------------------------------------------------
(***************************************************************************)
(* Records leave the tail.                                                 *)
(***************************************************************************)
\* The data write makes the oldest chunk of the tail durable.
LEMMA StoreMapsToFlush ==
  ASSUME RefInv, NEW s \in Stores, CommitStore(s)
  PROVE  Abs!Flush(s)
<1> DEFINE a == ring[s].tail
           b == ring[s].put - 1
           c == a + (Chunk - 1)
           w == meta[s].write
           x == ring[s].slot[c]
<1>1. commit[s].pc = "write"
  BY DEF CommitStore
<1>2. ring[s].head = a + Chunk /\ IsRing(ring[s]) /\ Chunk \in Nat \ {0}
  BY <1>1, ConstantsAssumption DEF RefInv, TypeInv, TypeOK, ClaimInv
<1>3. /\ a \in Nat /\ b \in Int /\ c \in a .. b /\ c + 1 = a + Chunk
  BY <1>2, RingCursors
<1>4. /\ TailPos(s) = a .. b
      /\ \A p \in a .. b : ring[s].slot[p] \in Nat
      /\ \A p, q \in a .. b : p < q => ring[s].slot[p] < ring[s].slot[q]
  BY <1>1, TailIsSorted DEF TailFrom
<1>5. /\ flash'[s].data = [k \in DOMAIN flash[s].data \cup {w} |->
                              IF k = w THEN ChunkOf(s) ELSE flash[s].data[k]]
      /\ meta'[s] = Appended(meta[s])
  BY StoreEffect DEF RefInv, TypeInv
<1>6. ring' = ring /\ offered' = offered
  BY DEF CommitStore
<1>7. UNCHANGED <<active, clearing>>
  BY Zenon DEF CommitStore
<1>8. TailPos(s)' = (c + 1) .. b
  <2>1. commit'[s] = At("save")
    BY StoreEffect DEF RefInv, TypeInv
  <2>2. TailFrom(s)' = a + Chunk
    BY <1>6, <2>1 DEF TailFrom, At
  <2> QED BY <1>3, <1>6, <2>2 DEF TailPos
<1>9. /\ x \in TailRecords(s)
      /\ {y \in TailRecords(s) : y <= x} = RecordsAt(ring[s].slot, a, c)
      /\ {y \in TailRecords(s) : y > x} = RecordsAt(ring[s].slot, c + 1, b)
  <2> DEFINE f == ring[s].slot
  <2>1. TailRecords(s) = RecordsAt(f, a, b)
    BY <1>4 DEF TailRecords, RecordsAt
  <2>2. /\ a \in Int /\ b \in Int /\ c \in a .. b
        /\ \A p \in a .. b : f[p] \in Nat
        /\ \A p, q \in a .. b : p < q => f[p] < f[q]
    BY <1>3, <1>4
  <2> HIDE DEF a, b, c, f
  <2>3. /\ f[c] \in TailRecords(s)
        /\ \A y : (y \in TailRecords(s) /\ y <= f[c]) <=> y \in RecordsAt(f, a, c)
        /\ \A y : (y \in TailRecords(s) /\ y > f[c]) <=> y \in RecordsAt(f, c + 1, b)
    BY <2>1, <2>2, SortedCut
  <2>4. /\ {y \in TailRecords(s) : y <= f[c]} = RecordsAt(f, a, c)
        /\ {y \in TailRecords(s) : y > f[c]} = RecordsAt(f, c + 1, b)
    BY <2>3
  <2> QED BY <2>3, <2>4 DEF f
<1>10. TailRecords(s)' = {y \in TailRecords(s) : y > x}
  BY <1>6, <1>8, <1>9 DEF TailRecords, RecordsAt
<1>11. Cardinality({y \in TailRecords(s) : y <= x}) = Chunk
  <2>1. \A p \in a .. c : p \in a .. b
    BY <1>3
  <2> DEFINE f == ring[s].slot
  <2>2. a \in Int /\ c \in Int /\ ~(a > c) /\ c - a + 1 = Chunk
    BY <1>2, <1>3
  <2>3. /\ \A p \in a .. c : f[p] \in Nat
        /\ \A p, q \in a .. c : p < q => f[p] < f[q]
    BY <1>4, <2>1
  <2> HIDE DEF a, b, c, f
  <2>4. Cardinality(RecordsAt(f, a, c)) = IF a > c THEN 0 ELSE c - a + 1
    BY <2>2, <2>3, SortedCardinality
  <2> QED BY <1>9, <2>2, <2>4 DEF f
<1>12. LiveKeys(s)' = LiveKeys(s) \cup {w} /\ w \notin LiveKeys(s)
  <2>1. /\ meta'[s].write = w + 1 /\ meta'[s].oldest = meta[s].oldest
        /\ DOMAIN flash'[s].data = DOMAIN flash[s].data \cup {w}
    BY <1>5 DEF Appended
  <2>2. w \in Nat /\ meta[s].oldest \in Nat /\ meta[s].oldest <= w /\ DOMAIN flash[s].data \subseteq Nat
    BY LiveTyped DEF RefInv, SpanInv
  <2> HIDE DEF w
  <2>3. \A k \in DOMAIN flash[s].data \cup {w} : k < w + 1 <=> (k < w \/ k = w)
    BY <2>2
  <2> QED BY <2>1, <2>2, <2>3 DEF LiveKeys, w
<1>13. \A i \in Offsets : ChunkOf(s)[i] = ring[s].slot[a + i]
  BY DEF ChunkOf
<1>14. /\ \A i \in Offsets : a + i \in a .. c
       /\ \A p \in a .. c : p - a \in Offsets /\ p = a + (p - a)
  BY <1>2, <1>3 DEF Offsets
<1>15. \A k \in LiveKeys(s) : flash'[s].data[k] = flash[s].data[k]
  <2>1. \A k \in LiveKeys(s) : k \in DOMAIN flash[s].data /\ k # w
    BY <1>12, LiveAreOld
  <2> HIDE DEF w
  <2> QED BY <1>5, <2>1
<1>16. flash'[s].data[w] = ChunkOf(s)
  <2> HIDE DEF w
  <2> QED BY <1>5
<1> HIDE DEF a, b, c, w, x
<1>17. StoredRecords(s)' = StoredRecords(s) \cup {y \in TailRecords(s) : y <= x}
  <2>1. \A y : (\E i \in Offsets : y = ring[s].slot[a + i]) <=> \E p \in a .. c : y = ring[s].slot[p]
    BY <1>14
  <2>2. \A y : (\E i \in Offsets : y = ChunkOf(s)[i]) <=> y \in {z \in TailRecords(s) : z <= x}
    BY <1>9, <1>13, <2>1 DEF RecordsAt
  <2>3. \A y : y \in StoredRecords(s)' <=>
                 \E k \in LiveKeys(s) \cup {w} : \E i \in Offsets : y = flash'[s].data[k][i]
    BY <1>12 DEF StoredRecords
  <2>4. \A y : y \in StoredRecords(s)' <=>
                 \/ \E k \in LiveKeys(s) : \E i \in Offsets : y = flash[s].data[k][i]
                 \/ \E i \in Offsets : y = ChunkOf(s)[i]
    BY <1>15, <1>16, <2>3
  <2>5. \A y : y \in StoredRecords(s)' <=>
                 y \in StoredRecords(s) \/ y \in {z \in TailRecords(s) : z <= x}
    BY <2>2, <2>4, StoredElements
  <2> QED BY <2>5
<1>18. \A t \in Stores \ {s} : /\ StoredRecords(t)' = StoredRecords(t)
                               /\ TailRecords(t)' = TailRecords(t)
  BY <1>6, OtherStore, StoredKept, OtherTailKept DEF RefInv, TypeInv
<1>19. AbsStored' = [AbsStored EXCEPT ![s] = StoredRecords(s) \cup {y \in TailRecords(s) : y <= x}]
  BY <1>17, <1>18, StoredFrame
<1>20. AbsTail' = [AbsTail EXCEPT ![s] = {y \in TailRecords(s) : y > x}]
  BY <1>10, <1>18, TailFrame
<1>21. AbsTail[s] = TailRecords(s) /\ AbsStored[s] = StoredRecords(s)
  BY DEF AbsTail, AbsStored
<1> QED
  BY <1>6, <1>7, <1>9, <1>11, <1>19, <1>20, <1>21, SameCardinality
     DEF Abs!Flush, Abs!UpTo, Abs!After

\* A packet of a download hands over the oldest records of the tail.
LEMMA DrainMapsToHandOver ==
  ASSUME RefInv, NEW s \in Stores, StreamDrain(s)
  PROVE  Abs!HandOver(s)
<1>1. PICK n \in 1 .. RbClaimLen(ring[s], RbSize(ring[s]), RingSize[s]) :
        ring' = [ring EXCEPT ![s] = RbFinish(RbClaim(ring[s], n), n)]
  BY DEF StreamDrain
<1> DEFINE r == RbClaim(ring[s], n)
           f == RbFinish(r, n)
           a == ring[s].tail
           b == ring[s].put - 1
           c == a + (n - 1)
           x == ring[s].slot[c]
<1>2. IsRing(ring[s]) /\ RbSize(ring[s]) \in Nat /\ RingSize[s] \in Nat \ {0}
  BY RingCursors, ConstantsAssumption DEF RefInv, TypeInv, TypeOK
<1>3. n \in Nat /\ n >= 1 /\ n <= RbSize(ring[s])
  BY <1>2, RbClaimLenBounds
<1>4. active /\ commit[s].pc = "idle" /\ ring[s].head = a
  BY DEF StreamDrain, RefInv, TypeInv, ExclusionInv, SysIdle, ClaimInv, Idle
<1>5. /\ IsRing(r) /\ r.tail = a /\ r.head = a + n
      /\ r.put = ring[s].put /\ r.slot = ring[s].slot
  BY <1>2, <1>3, <1>4, RbClaimIsRing
<1>6. n <= r.head - r.tail
  BY <1>3, <1>5, RingCursors
<1>7. /\ f.tail = a + n /\ f.put = ring[s].put
      /\ \A p \in (a + n) .. b : f.slot[p] = ring[s].slot[p]
  BY <1>3, <1>5, <1>6, RbFinishMoves
<1>8. /\ a \in Nat /\ b \in Int /\ c \in a .. b /\ c + 1 = a + n
  BY <1>2, <1>3, <1>4, RingCursors
<1>9. /\ TailPos(s) = a .. b
      /\ \A p \in a .. b : ring[s].slot[p] \in Nat
      /\ \A p, q \in a .. b : p < q => ring[s].slot[p] < ring[s].slot[q]
  <2>1. TailFrom(s) = a
    BY <1>4, <1>8 DEF TailFrom
  <2> QED BY <2>1, TailIsSorted
<1>10. /\ ring'[s] = f /\ \A t \in Stores \ {s} : ring'[t] = ring[t]
       /\ flash' = flash /\ meta' = meta /\ offered' = offered /\ commit' = commit
  BY <1>1 DEF StreamDrain, RefInv, TypeInv, TypeOK
<1>11. UNCHANGED <<active, clearing>>
  BY Zenon DEF StreamDrain
<1> HIDE DEF f
<1>12. TailPos(s)' = (c + 1) .. b
  <2>1. TailFrom(s)' = a + n
    BY <1>4, <1>7, <1>8, <1>10 DEF TailFrom
  <2> QED BY <1>7, <1>8, <1>10, <2>1 DEF TailPos
<1>13. /\ x \in TailRecords(s)
       /\ {y \in TailRecords(s) : y > x} = RecordsAt(ring[s].slot, c + 1, b)
  <2> DEFINE g == ring[s].slot
  <2>1. TailRecords(s) = RecordsAt(g, a, b)
    BY <1>9 DEF TailRecords, RecordsAt
  <2>2. /\ a \in Int /\ b \in Int /\ c \in a .. b
        /\ \A p \in a .. b : g[p] \in Nat
        /\ \A p, q \in a .. b : p < q => g[p] < g[q]
    BY <1>8, <1>9
  <2> HIDE DEF a, b, c, g
  <2>3. /\ g[c] \in RecordsAt(g, a, b)
        /\ \A y : (y \in RecordsAt(g, a, b) /\ y > g[c]) <=> y \in RecordsAt(g, c + 1, b)
    BY ONLY <2>2, SortedCut
  <2>4. {y \in TailRecords(s) : y > g[c]} = RecordsAt(g, c + 1, b)
    BY <2>1, <2>3
  <2> QED BY <2>1, <2>3, <2>4 DEF g
<1>14. TailRecords(s)' = {y \in TailRecords(s) : y > x}
  <2>1. \A p \in (c + 1) .. b : f.slot[p] = ring[s].slot[p]
    BY <1>7, <1>8
  <2>2. TailRecords(s)' = RecordsAt(ring[s].slot, c + 1, b)
    BY <1>10, <1>12, <2>1 DEF TailRecords, RecordsAt
  <2> QED BY <1>13, <2>2
<1>15. \A t \in Stores \ {s} : TailRecords(t)' = TailRecords(t)
  BY <1>10, OtherTailKept
<1>16. AbsTail' = [AbsTail EXCEPT ![s] = {y \in TailRecords(s) : y > x}]
  BY <1>14, <1>15, TailFrame
<1>17. AbsTail[s] = TailRecords(s)
  BY DEF AbsTail
<1>18. AbsStored' = AbsStored
  BY <1>10, AllStoredKept
<1> QED
  BY <1>4, <1>10, <1>11, <1>13, <1>16, <1>17, <1>18 DEF Abs!HandOver, Abs!After

-----------------------------------------------------------------------------
(***************************************************************************)
(* Stored records go.                                                      *)
(***************************************************************************)
\* An eviction gives up the oldest stored chunk, or, when the key it counts is
\* gone already, nothing.
LEMMA EvictMapsToExpire ==
  ASSUME "delete" \notin Faults, RefInv, NEW s \in Stores, Evict(s)
  PROVE  Abs!Expire(s) \/ UNCHANGED <<AbsStored, AbsTail, offered, active, clearing>>
<1> DEFINE v == meta[s].oldest
           d == flash[s].data
           last == Chunk - 1
           x == d[v][last]
<1>1. commit[s].pc = "write" /\ Overwrite /\ meta[s].count > 0
  BY DEF Evict, CanEvict
<1>2. flash'[s].data = [k \in DOMAIN d \ {v} |-> d[k]] /\ meta'[s] = Evicted(meta[s])
  BY EvictEffect DEF RefInv, TypeInv, Victim
<1>3. ring' = ring /\ offered' = offered
  BY DEF Evict
<1>4. UNCHANGED <<active, clearing>>
  BY Zenon DEF Evict
<1>5. AbsTail' = AbsTail
  <2>1. commit'[s].pc \in {"write", "fail"}
    <3>1. commit'[s] = At("fail") \/ commit'[s] = [pc |-> "write", attempt |-> commit[s].attempt + 1]
      BY EvictEffect DEF RefInv, TypeInv
    <3> QED BY <3>1 DEF At
  <2>2. \A t \in Stores \ {s} : commit'[t] = commit[t]
    BY OtherStore DEF RefInv, TypeInv
  <2>3. \A t \in Stores : TailFrom(t)' = TailFrom(t)
    BY <1>1, <1>3, <2>1, <2>2 DEF TailFrom
  <2> QED BY <1>3, <2>3, AllTailsKept
<1>6. /\ v \in Nat /\ meta[s].write \in Nat /\ v < meta[s].write
      /\ DOMAIN d \subseteq Nat
      /\ \A k \in DOMAIN d : v <= k
  BY <1>1, LiveTyped DEF RefInv, SpanInv, LiveInv
<1>7. LiveKeys(s)' = LiveKeys(s) \ {v}
  <2>1. /\ meta'[s].write = meta[s].write /\ meta'[s].oldest = v + 1
        /\ DOMAIN flash'[s].data = DOMAIN d \ {v}
    BY <1>2 DEF Evicted
  <2> HIDE DEF v, d
  <2>2. \A k \in DOMAIN d \ {v} : v + 1 <= k
    BY <1>6
  <2> QED BY <1>6, <2>1, <2>2 DEF LiveKeys, v, d
<1>8. \A k \in LiveKeys(s)' : flash'[s].data[k] = d[k]
  <2>1. \A k \in LiveKeys(s) \ {v} : k \in DOMAIN d \ {v}
    BY DEF LiveKeys
  <2> HIDE DEF v, d
  <2> QED BY <1>2, <1>7, <2>1
<1>9. \A t \in Stores \ {s} : StoredRecords(t)' = StoredRecords(t)
  BY OtherStore, StoredKept DEF RefInv, TypeInv
<1>10. AbsStored[s] = StoredRecords(s)
  BY DEF AbsStored
<1>11. \A y : y \in StoredRecords(s)' <=> \E k \in LiveKeys(s) \ {v} : \E i \in Offsets : y = d[k][i]
  BY <1>7, <1>8 DEF StoredRecords
<1>12. CASE v \notin DOMAIN d
  <2>1. LiveKeys(s) \ {v} = LiveKeys(s)
    BY <1>12 DEF LiveKeys
  <2>2. StoredRecords(s)' = StoredRecords(s)
    BY <1>11, <2>1, StoredElements
  <2>3. AbsStored' = AbsStored
    BY <1>9, <2>2 DEF AbsStored
  <2> QED BY <1>3, <1>4, <1>5, <2>3
<1>13. CASE v \in DOMAIN d
  <2>1. v \in LiveKeys(s)
    BY <1>6, <1>13 DEF LiveKeys
  <2>2. last \in Offsets /\ \A i \in Offsets : i = last \/ i < last
    BY ConstantsAssumption DEF Offsets
  <2>3. \A k \in LiveKeys(s) : \A i \in Offsets : d[k][i] \in Nat
    BY LiveAreOld
  <2>4. \A i \in Offsets : ~(d[v][i] > x)
    <3> TAKE i \in Offsets
    <3>1. d[v][i] \in Nat /\ x \in Nat
      BY <2>1, <2>2, <2>3
    <3>2. d[v][i] = x \/ d[v][i] < x
      BY <2>1, <2>2, LiveAreOld DEF ChunkSorted
    <3> QED BY <3>1, <3>2
  <2>5. \A k \in LiveKeys(s) \ {v} : \A i \in Offsets : d[k][i] > x
    <3> TAKE k \in LiveKeys(s) \ {v}
    <3>1. v < k
      BY <1>6, LiveAreOld DEF LiveKeys
    <3>2. Before(d[v], d[k])
      BY <2>1, <3>1, LiveAreOld
    <3>3. \A i \in Offsets : d[v][last] < d[k][i]
      BY <2>2, <3>2 DEF Before
    <3>4. x \in Nat /\ \A i \in Offsets : d[k][i] \in Nat
      BY <2>1, <2>2, <2>3
    <3> QED BY <3>3, <3>4
  <2>6. x \in StoredRecords(s)
    BY <2>1, <2>2, StoredElements
  <2> HIDE DEF v, d, last, x
  <2>7. StoredRecords(s)' = {y \in StoredRecords(s) : y > x}
    <3>1. \A y : y \in StoredRecords(s) <=> \E k \in LiveKeys(s) : \E i \in Offsets : y = d[k][i]
      BY StoredElements DEF d
    <3> QED BY <1>11, <2>1, <2>4, <2>5, <3>1
  <2>8. AbsStored' = [AbsStored EXCEPT ![s] = {y \in StoredRecords(s) : y > x}]
    BY <1>9, <2>7, StoredFrame
  <2> QED BY <1>1, <1>3, <1>4, <1>5, <1>10, <2>6, <2>8 DEF Abs!Expire, Abs!After
<1> QED
  BY <1>12, <1>13

\* Clearing a partition erases what the store holds.
LEMMA ClearMapsToErase ==
  ASSUME "clear" \notin Faults, RefInv, NEW s \in Stores, ClearFlash(s)
  PROVE  Abs!Erase(s)
<1>1. flash'[s].data = NoData /\ ring' = ring /\ commit' = commit /\ offered' = offered
  BY ClearEffect DEF RefInv, TypeInv
<1>2. clearing # "no" /\ clearing' # "no"
  BY DEF ClearFlash, Stores
<1>3. active' = active
  BY Zenon DEF ClearFlash
<1>4. StoredRecords(s)' = {}
  BY <1>1 DEF StoredRecords, LiveKeys, NoData
<1>5. \A t \in Stores \ {s} : StoredRecords(t)' = StoredRecords(t)
  BY OtherStore, StoredKept DEF RefInv, TypeInv
<1>6. AbsStored' = [AbsStored EXCEPT ![s] = {}]
  BY <1>4, <1>5, StoredFrame
<1>7. AbsTail' = AbsTail
  BY <1>1, AllTailsKept DEF TailFrom
<1> QED
  BY <1>1, <1>2, <1>3, <1>6, <1>7 DEF Abs!Erase

LEMMA ClearRamMapsToEraseTails ==
  ASSUME RefInv, ClearRam
  PROVE  Abs!EraseTails
<1>1. /\ ring' = [s \in Stores |-> RbEmpty] /\ offered' = offered
      /\ flash' = flash /\ meta' = meta /\ commit' = commit
      /\ clearing # "no" /\ clearing' = "no"
  BY DEF ClearRam
<1>2. active' = active
  BY Zenon DEF ClearRam
<1>3. \A t \in Stores : TailRecords(t)' = {}
  <2> TAKE t \in Stores
  <2>1. commit[t] = Idle
    BY DEF ClearRam, RefInv, TypeInv, ExclusionInv, SysIdle
  <2>2. TailPos(t)' = {}
    BY <1>1, <2>1 DEF TailPos, TailFrom, Idle, RbEmpty
  <2> QED BY <2>2 DEF TailRecords
<1>4. AbsTail' = [t \in Stores |-> {}]
  BY <1>3 DEF AbsTail
<1>5. AbsStored' = AbsStored
  BY <1>1, AllStoredKept
<1> QED
  BY <1>1, <1>2, <1>4, <1>5 DEF Abs!EraseTails

-----------------------------------------------------------------------------
(***************************************************************************)
(* Power loss.                                                             *)
(***************************************************************************)
\* The chunks of n keys hold at most n * Chunk records.
LEMMA RecordsOfKeys ==
  ASSUME NEW K, IsFiniteSet(K), NEW d, NEW S,
         \A y \in S : \E k \in K : \E i \in Offsets : y = d[k][i]
  PROVE  /\ IsFiniteSet(S) /\ Cardinality(S) \in Nat
         /\ Cardinality(S) <= Cardinality(K) * Chunk
<1> DEFINE P == K \X Offsets
           g == [q \in P |-> d[q[1]][q[2]]]
           T == {g[q] : q \in P}
<1>1. /\ Chunk \in Nat \ {0} /\ 0 \in Int /\ Chunk - 1 \in Int
      /\ ~(0 > Chunk - 1) /\ (Chunk - 1) - 0 + 1 = Chunk
  BY ConstantsAssumption
<1>2. IsFiniteSet(Offsets) /\ Cardinality(Offsets) = Chunk
  BY <1>1, FS_Interval DEF Offsets
<1>3. IsFiniteSet(P) /\ Cardinality(P) = Cardinality(K) * Chunk
  BY <1>2, FS_Product
<1>4. g \in [P -> T] /\ \A y \in T : \E q \in P : g[q] = y
  OBVIOUS
<1>5. S \subseteq T
  <2> SUFFICES ASSUME NEW y \in S PROVE y \in T
    OBVIOUS
  <2>1. PICK k \in K, i \in Offsets : y = d[k][i]
    OBVIOUS
  <2>2. <<k, i>> \in P /\ g[<<k, i>>] = y
    BY <2>1
  <2> QED BY <2>2
<1> HIDE DEF P, g, T
<1>6. g \in Surjection(P, T)
  BY <1>4, Fun_IsSurj
<1>7. IsFiniteSet(T) /\ Cardinality(T) <= Cardinality(P)
  BY <1>3, <1>6, FS_Surjection
<1>8. IsFiniteSet(S) /\ Cardinality(S) <= Cardinality(T)
  BY <1>5, <1>7, FS_Subset
<1>9. Cardinality(S) \in Nat /\ Cardinality(T) \in Nat /\ Cardinality(P) \in Nat
  BY <1>3, <1>7, <1>8, FS_CardinalityType
<1> QED
  BY <1>3, <1>7, <1>8, <1>9

\* What a store shows after boot: the chunks that saved metadata counts, each
\* older than every chunk that is lost.
LEMMA BootKeeps ==
  ASSUME RefInv, NEW s \in Stores, flash' = flash, meta'[s] = flash[s].meta
  PROVE  /\ LiveKeys(s)' = {k \in LiveKeys(s) : k < flash[s].meta.write}
         /\ StoredRecords(s)' \subseteq StoredRecords(s)
         /\ \A y \in StoredRecords(s) \ StoredRecords(s)' :
              \E k \in LiveKeys(s) : k >= flash[s].meta.write /\ \E i \in Offsets : y = flash[s].data[k][i]
         /\ \A x \in StoredRecords(s)', y \in StoredRecords(s) \ StoredRecords(s)' : x < y
<1> DEFINE w == flash[s].meta.write
           d == flash[s].data
           lost == StoredRecords(s) \ StoredRecords(s)'
<1>1. /\ w \in Nat /\ meta[s].write \in Nat /\ meta[s].oldest \in Nat /\ flash[s].meta.oldest \in Nat
      /\ DOMAIN d \subseteq Nat
      /\ flash[s].meta.oldest <= meta[s].oldest /\ w <= meta[s].write
      /\ \A k \in DOMAIN d : meta[s].oldest <= k
  BY LiveTyped DEF RefInv, LiveInv, OrderInv, FlashSorted
<1>2. LiveKeys(s)' = {k \in LiveKeys(s) : k < w}
  <2>1. LiveKeys(s)' = {k \in DOMAIN d : flash[s].meta.oldest <= k /\ k < w}
    BY DEF LiveKeys
  <2> HIDE DEF w, d
  <2>2. \A k \in DOMAIN d : k < w => flash[s].meta.oldest <= k /\ k < meta[s].write
    BY <1>1
  <2> QED BY <1>1, <2>1, <2>2 DEF LiveKeys, d
<1>3. \A x : x \in StoredRecords(s)' <=>
               \E k \in LiveKeys(s) : k < w /\ \E i \in Offsets : x = d[k][i]
  BY <1>2 DEF StoredRecords
<1>4. StoredRecords(s)' \subseteq StoredRecords(s)
  BY <1>3, StoredElements
<1>5. ASSUME NEW y \in lost
      PROVE  \E k \in LiveKeys(s) : k >= w /\ \E i \in Offsets : y = d[k][i]
  <2>1. PICK k \in LiveKeys(s) : \E i \in Offsets : y = d[k][i]
    BY StoredElements
  <2>2. ~(k < w)
    BY <1>3, <2>1
  <2>3. k \in Nat
    BY LiveAreOld
  <2> HIDE DEF w, d
  <2>4. k >= w
    BY <1>1, <2>2, <2>3
  <2> QED BY <2>1, <2>4
<1>6. ASSUME NEW x \in StoredRecords(s)', NEW y \in lost
      PROVE  x < y
  <2>1. PICK k \in LiveKeys(s) : k < w /\ \E i \in Offsets : x = d[k][i]
    BY <1>3
  <2>2. PICK l \in LiveKeys(s) : l >= w /\ \E i \in Offsets : y = d[l][i]
    BY <1>5
  <2>3. k \in Nat /\ l \in Nat /\ k < l
    <3>1. k \in Nat /\ l \in Nat
      BY LiveAreOld
    <3> HIDE DEF w
    <3> QED BY <1>1, <2>1, <2>2, <3>1
  <2>4. Before(d[k], d[l])
    BY <2>3, LiveAreOld
  <2> QED BY <2>1, <2>2, <2>4 DEF Before
<1> QED
  BY <1>2, <1>4, <1>5, <1>6

\* At most the newest chunk is lost, or, when metadata writes may fail, what the
\* partition holds.
LEMMA BootLoss ==
  ASSUME RefInv, NEW s \in Stores, flash' = flash, meta'[s] = flash[s].meta
  PROVE  Cardinality(StoredRecords(s) \ StoredRecords(s)')
           <= (IF "meta" \in Faults THEN Slots * Chunk ELSE Chunk)
<1> DEFINE lost == StoredRecords(s) \ StoredRecords(s)'
           w == flash[s].meta.write
           d == flash[s].data
<1>1. \A y \in lost : \E k \in LiveKeys(s) : k >= w /\ \E i \in Offsets : y = d[k][i]
  BY BootKeeps
<1>2. /\ w \in Nat /\ Slots \in Nat /\ Chunk \in Nat \ {0}
      /\ IsFiniteSet(DOMAIN d) /\ Cardinality(DOMAIN d) <= Slots
      /\ "meta" \notin Faults => meta[s].write = w + Unsaved(s)
  BY LiveTyped DEF RefInv, LiveInv
<1>3. CASE "meta" \in Faults
  <2>1. \A y \in lost : \E k \in DOMAIN d : \E i \in Offsets : y = d[k][i]
    BY <1>1, LiveAreOld
  <2> HIDE DEF lost, d, w
  <2>2. /\ Cardinality(lost) \in Nat /\ Cardinality(lost) <= Cardinality(DOMAIN d) * Chunk
        /\ Cardinality(DOMAIN d) \in Nat
    BY <1>2, <2>1, RecordsOfKeys, FS_CardinalityType
  <2>3. Cardinality(DOMAIN d) * Chunk <= Slots * Chunk
    <3> DEFINE n == Cardinality(DOMAIN d)
    <3>1. n \in Nat /\ n <= Slots
      BY <1>2, <2>2
    <3> HIDE DEF n
    <3>2. n * Chunk <= Slots * Chunk
      BY <1>2, <3>1
    <3> QED BY <3>2 DEF n
  <2>4. Cardinality(lost) <= Slots * Chunk
    BY <1>2, <2>2, <2>3
  <2> QED BY <1>3, <2>4 DEF lost
<1>4. CASE "meta" \notin Faults
  <2>1. \A k \in LiveKeys(s) : k >= w => k = w
    <3> TAKE k \in LiveKeys(s)
    <3>1. k \in Nat /\ k < meta[s].write
      BY LiveAreOld DEF LiveKeys
    <3>2. meta[s].write = w \/ meta[s].write = w + 1
      BY <1>2, <1>4 DEF Unsaved
    <3> HIDE DEF w
    <3> QED BY <1>2, <3>1, <3>2
  <2>2. \A y \in lost : \E k \in {w} : \E i \in Offsets : y = d[k][i]
    BY <1>1, <2>1
  <2> HIDE DEF lost, d, w
  <2>3. IsFiniteSet({w}) /\ Cardinality({w}) = 1
    BY FS_Singleton
  <2>4. Cardinality(lost) \in Nat /\ Cardinality(lost) <= Cardinality({w}) * Chunk
    BY <2>2, <2>3, RecordsOfKeys
  <2>5. Cardinality(lost) <= Chunk
    BY <1>2, <2>3, <2>4
  <2> QED BY <1>4, <2>5 DEF lost
<1> QED
  BY <1>3, <1>4

\* The kept records are those up to some record number.
LEMMA BootCut ==
  ASSUME RefInv, NEW s \in Stores, flash' = flash, meta'[s] = flash[s].meta
  PROVE  \E c \in 0 .. offered[s] :
           StoredRecords(s)' = {x \in StoredRecords(s) : x <= c}
<1> DEFINE lost == StoredRecords(s) \ StoredRecords(s)'
<1>1. /\ StoredRecords(s)' \subseteq StoredRecords(s)
      /\ \A x \in StoredRecords(s)', y \in lost : x < y
  BY BootKeeps
<1>2. offered[s] \in Nat /\ \A x \in StoredRecords(s) : x \in 1 .. offered[s]
  BY LiveAreOld, StoredElements DEF RefInv, TypeInv, TypeOK
<1>3. CASE lost = {}
  <2>1. StoredRecords(s)' = StoredRecords(s)
    BY <1>1, <1>3
  <2>2. StoredRecords(s)' = {x \in StoredRecords(s) : x <= offered[s]}
    BY <1>2, <2>1
  <2>3. offered[s] \in 0 .. offered[s]
    BY <1>2
  <2> QED BY <2>2, <2>3
<1>4. CASE lost # {}
  <2>1. lost \subseteq Nat
    BY <1>2
  <2>2. PICK m \in lost : \A y \in lost : m <= y
    BY <1>4, <2>1, LeastNat
  <2>3. m \in 1 .. offered[s] /\ m - 1 \in 0 .. offered[s]
    BY <1>2
  <2>4. \A x \in StoredRecords(s) : x \in StoredRecords(s)' <=> x <= m - 1
    <3> TAKE x \in StoredRecords(s)
    <3>1. x \in Nat /\ m \in Nat
      BY <1>2
    <3>2. CASE x \in StoredRecords(s)'
      <4>1. x < m
        BY <1>1, <3>2
      <4> QED BY <3>1, <3>2, <4>1
    <3>3. CASE x \in lost
      <4>1. m <= x
        BY <2>2, <3>3
      <4> QED BY <3>1, <3>3, <4>1
    <3> QED BY <3>2, <3>3
  <2>5. StoredRecords(s)' = {x \in StoredRecords(s) : x <= m - 1}
    BY <1>1, <2>4
  <2> QED BY <2>3, <2>5
<1> QED
  BY <1>3, <1>4

LEMMA RebootMapsToPowerLoss ==
  ASSUME "mount" \notin Faults, "read" \notin Faults, RefInv,
         NEW m \in Mountable, NEW r \in Restorable(m), Reboot(m, r)
  PROVE  Abs!PowerLoss
<1>1. /\ flash' = flash /\ offered' = offered /\ clearing' = "no"
      /\ ring' = [t \in Stores |-> RbEmpty] /\ commit' = [t \in Stores |-> Idle]
  BY DEF Reboot
<1>2. active' = FALSE
  BY DEF Reboot
<1>3. \A t \in Stores : meta'[t] = flash[t].meta
  BY DEF Reboot, Mountable, Restorable
<1>4. \A t \in Stores : TailRecords(t)' = {}
  <2> TAKE t \in Stores
  <2>1. TailPos(t)' = {}
    BY <1>1 DEF TailPos, TailFrom, Idle, RbEmpty
  <2> QED BY <2>1 DEF TailRecords
<1>5. AbsTail' = [t \in Stores |-> {}]
  BY <1>4 DEF AbsTail
<1>6. /\ \A t \in Stores : AbsStored[t] = StoredRecords(t) /\ AbsStored'[t] = StoredRecords(t)'
      /\ AbsStored' = [t \in Stores |-> AbsStored'[t]]
  BY DEF AbsStored
<1>7. \A t \in Stores : AbsStored'[t] \subseteq AbsStored[t]
  BY <1>1, <1>3, <1>6, BootKeeps
<1>8. AbsStored' \in [Stores -> SUBSET UNION {AbsStored[t] : t \in Stores}]
  <2>1. \A t \in Stores : AbsStored'[t] \in SUBSET UNION {AbsStored[u] : u \in Stores}
    BY <1>7
  <2> QED BY <1>6, <2>1
<1>9. \A t \in Stores : \E c \in 0 .. offered[t] : AbsStored'[t] = {x \in AbsStored[t] : x <= c}
  BY <1>1, <1>3, <1>6, BootCut
<1>10. \A t \in Stores : Cardinality(AbsStored[t] \ AbsStored'[t])
                           <= (IF "meta" \in Faults THEN Slots * Chunk ELSE Chunk)
  BY <1>1, <1>3, <1>6, BootLoss
<1> QED
  BY <1>1, <1>2, <1>5, <1>8, <1>9, <1>10, SameCardinality DEF Abs!PowerLoss, Abs!UpTo

-----------------------------------------------------------------------------
(***************************************************************************)
(* The steps the abstract log does not see, and the theorem.               *)
(***************************************************************************)
\* Giving up a claim, or finishing a chunk that is stored, shows nothing.
LEMMA FinishShowsNothing ==
  ASSUME RefInv, NEW s \in Stores, CommitShort(s) \/ CommitFinish(s)
  PROVE  TailRecords(s)' = TailRecords(s)
<1> DEFINE r == IF CommitShort(s) THEN RbClaim(ring[s], Claimed(s)) ELSE ring[s]
           n == TailFrom(s) - ring[s].tail
           f == RbFinish(r, n)
<1>1. IsRing(ring[s]) /\ Chunk \in Nat \ {0} /\ RingSize[s] \in Nat \ {0}
  BY ConstantsAssumption DEF RefInv, TypeInv, TypeOK
<1>2. /\ ring[s].tail \in Nat /\ ring[s].head \in Nat /\ ring[s].put \in Nat
      /\ ring[s].tail <= ring[s].head
  BY <1>1, RingCursors
<1>3. /\ CommitShort(s) => commit[s].pc = "idle" /\ commit'[s].pc = "idle" /\ n = 0
      /\ ~CommitShort(s) => /\ n = FinishLen(s) /\ n <= ring[s].head - ring[s].tail
                            /\ commit'[s].pc = "idle"
  <2>1. CASE CommitShort(s)
    <3>1. commit[s].pc = "idle" /\ commit'[s].pc = "idle"
      BY <2>1 DEF CommitShort, SysIdle, Idle
    <3> QED BY <1>2, <2>1, <3>1 DEF TailFrom
  <2>2. CASE ~CommitShort(s)
    <3>1. /\ commit[s].pc \in {"done", "fail"} /\ ring[s].head = ring[s].tail + Chunk
      BY <2>2 DEF CommitFinish, RefInv, TypeInv, ClaimInv
    <3>2. commit' = [commit EXCEPT ![s] = Idle]
      BY <2>2 DEF CommitFinish
    <3>3. DOMAIN commit = Stores
      BY DEF RefInv, TypeInv, TypeOK
    <3>4. commit'[s].pc = "idle"
      BY <3>2, <3>3 DEF Idle
    <3> QED BY <1>1, <1>2, <2>2, <3>1, <3>4 DEF TailFrom, FinishLen
  <2> QED BY <2>1, <2>2
<1>4. n \in Nat /\ IsRing(r) /\ r.tail = ring[s].tail /\ r.put = ring[s].put
      /\ r.slot = ring[s].slot /\ n <= r.head - r.tail
  <2>1. CASE CommitShort(s)
    <3>1. Claimed(s) \in Nat /\ Claimed(s) <= RbSize(ring[s])
      BY <1>1, RbClaimLenBounds DEF Claimed
    <3>2. /\ IsRing(r) /\ r.tail = ring[s].tail /\ r.put = ring[s].put /\ r.slot = ring[s].slot
      BY <1>1, <2>1, <3>1, RbClaimIsRing
    <3>3. 0 <= r.head - r.tail
      BY <3>2, RingCursors
    <3> QED BY <1>3, <2>1, <3>2, <3>3
  <2>2. CASE ~CommitShort(s)
    BY <1>1, <1>3, <2>2 DEF FinishLen
  <2> QED BY <2>1, <2>2
<1>5. ring' = [ring EXCEPT ![s] = f]
  <2>1. CASE CommitShort(s)
    BY <1>3, <2>1 DEF CommitShort
  <2>2. CASE ~CommitShort(s)
    BY <1>3, <2>2 DEF CommitFinish
  <2> QED BY <2>1, <2>2
<1>6. ring'[s] = f
  BY <1>5 DEF RefInv, TypeInv, TypeOK
<1>7. /\ f.tail = ring[s].tail + n /\ f.put = ring[s].put
      /\ \A p \in (ring[s].tail + n) .. (ring[s].put - 1) : f.slot[p] = ring[s].slot[p]
  BY <1>4, RbFinishMoves
<1>8. ring[s].tail + n = TailFrom(s) /\ commit'[s].pc = "idle" /\ TailFrom(s) \in Nat
  <2>1. TailFrom(s) \in Nat
    BY TailIsSorted
  <2> QED BY <1>2, <1>3, <2>1
<1> HIDE DEF f, n, r
<1>9. TailPos(s)' = TailPos(s)
  <2>1. ring'[s].tail = ring[s].tail + n /\ ring[s].tail + n \in Nat
    BY <1>6, <1>7, <1>8
  <2>2. TailFrom(s)' = ring[s].tail + n
    BY <1>8, <2>1 DEF TailFrom
  <2>3. ring'[s].put = ring[s].put
    BY <1>6, <1>7
  <2> QED BY <1>8, <2>2, <2>3 DEF TailPos
<1>10. \A p \in TailPos(s) : ring'[s].slot[p] = ring[s].slot[p]
  BY <1>6, <1>7, <1>8 DEF TailPos
<1> QED
  BY <1>9, <1>10, TailKept

\* A claim, a skipped work, a failed write and a metadata write show nothing.
LEMMA CommitShowsNothing ==
  ASSUME RefInv, NEW s \in Stores,
         \/ CommitSkip(s) \/ CommitShort(s) \/ CommitClaim(s) \/ CommitFail(s)
         \/ CommitSave(s) \/ CommitFinish(s)
  PROVE  UNCHANGED <<AbsStored, AbsTail, offered, active, clearing>>
<1>1. UNCHANGED <<active, clearing>>
  BY Zenon DEF CommitSkip, CommitShort, CommitClaim, CommitFail, CommitSave, CommitFinish
<1>2. offered' = offered /\ meta' = meta
  BY DEF CommitSkip, CommitShort, CommitClaim, CommitFail, CommitSave, CommitFinish
<1>3. \A t \in Stores : flash'[t].data = flash[t].data
  <2>1. CASE CommitSave(s)
    BY <2>1, SaveEffect, OtherStore DEF RefInv, TypeInv
  <2>2. CASE ~CommitSave(s)
    BY <2>2 DEF CommitSkip, CommitShort, CommitClaim, CommitFail, CommitFinish
  <2> QED BY <2>1, <2>2
<1>4. AbsStored' = AbsStored
  BY <1>2, <1>3, AllStoredKept
<1>5. \A t \in Stores \ {s} : ring'[t] = ring[t] /\ commit'[t] = commit[t]
  BY DEF CommitSkip, CommitShort, CommitClaim, CommitFail, CommitSave, CommitFinish,
     RefInv, TypeInv, TypeOK
<1>6. TailRecords(s)' = TailRecords(s)
  <2>1. CASE CommitShort(s) \/ CommitFinish(s)
    BY <2>1, FinishShowsNothing
  <2>2. CASE CommitClaim(s)
    <3>1. IsRing(ring[s]) /\ Chunk \in Nat /\ RingSize[s] \in Nat \ {0}
      BY ConstantsAssumption DEF RefInv, TypeInv, TypeOK
    <3>2. Chunk <= RbSize(ring[s])
      BY <2>2, <3>1, RbClaimLenBounds DEF CommitClaim, Claimed
    <3>3. ring'[s] = RbClaim(ring[s], Chunk) /\ commit[s].pc = "idle" /\ commit'[s].pc = "write"
      BY <2>2 DEF CommitClaim, RefInv, TypeInv, TypeOK, SysIdle, Idle, At
    <3>4. /\ ring'[s].tail = ring[s].tail /\ ring'[s].put = ring[s].put
          /\ ring'[s].slot = ring[s].slot
      BY <3>1, <3>2, <3>3, RbClaimIsRing
    <3>5. TailPos(s)' = TailPos(s)
      BY <3>3, <3>4 DEF TailPos, TailFrom
    <3> QED BY <3>4, <3>5, TailKept
  <2>3. CASE CommitSkip(s) \/ CommitFail(s) \/ CommitSave(s)
    <3>1. /\ ring' = ring
          /\ \/ commit' = commit
             \/ commit[s].pc = "write" /\ commit'[s] = At("fail")
             \/ commit[s].pc = "save" /\ commit'[s] = At("done")
      BY <2>3 DEF CommitSkip, CommitFail, CommitSave, RefInv, TypeInv, TypeOK
    <3>2. TailFrom(s)' = TailFrom(s)
      BY <3>1 DEF TailFrom, At
    <3> QED BY <3>1, <3>2 DEF TailRecords, TailPos
  <2> QED BY <2>1, <2>2, <2>3
<1>7. AbsTail' = AbsTail
  <2>1. \A t \in Stores : TailRecords(t)' = TailRecords(t)
    BY <1>5, <1>6, OtherTailKept
  <2> QED BY <2>1 DEF AbsTail
<1> QED
  BY <1>1, <1>2, <1>4, <1>7

\* Starting and stopping downloads and clears moves no record.
LEMMA ControlKeepsRecords ==
  ASSUME \/ StreamCancel \/ StreamStart \/ StreamStop \/ ClearBegin \/ ClearCancel
         \/ UNCHANGED vars
  PROVE  AbsStored' = AbsStored /\ AbsTail' = AbsTail /\ offered' = offered
<1>1. ring' = ring /\ flash' = flash /\ meta' = meta /\ commit' = commit /\ offered' = offered
  BY DEF StreamCancel, StreamStart, StreamStop, ClearBegin, ClearCancel, vars
<1>2. AbsStored' = AbsStored
  BY <1>1, AllStoredKept
<1>3. AbsTail' = AbsTail
  BY <1>1, AllTailsKept DEF TailFrom
<1> QED
  BY <1>1, <1>2, <1>3

LEMMA ControlMaps ==
  ASSUME \/ StreamCancel \/ StreamStart \/ StreamStop \/ ClearBegin \/ ClearCancel
         \/ UNCHANGED vars
  PROVE  [Abs!Next]_(Abs!vars)
<1>1. AbsStored' = AbsStored /\ AbsTail' = AbsTail /\ offered' = offered
  BY ControlKeepsRecords
<1>2. CASE StreamCancel \/ ClearCancel \/ UNCHANGED vars
  <2>1. active' = active
    BY <1>2, Zenon DEF StreamCancel, ClearCancel, vars
  <2>2. (clearing # "no")' = (clearing # "no")
    BY <1>2 DEF StreamCancel, ClearCancel, vars
  <2> QED BY <1>1, <2>1, <2>2 DEF Abs!vars
<1>3. CASE StreamStart
  <2>1. Abs!StartRead
    BY <1>1, <1>3 DEF StreamStart, Abs!StartRead
  <2> QED BY <2>1 DEF Abs!Next
<1>4. CASE StreamStop
  <2>1. Abs!EndRead
    BY <1>1, <1>4 DEF StreamStop, Abs!EndRead
  <2> QED BY <2>1 DEF Abs!Next
<1>5. CASE ClearBegin
  <2>1. Abs!StartErase
    BY <1>1, <1>5 DEF ClearBegin, Abs!StartErase
  <2> QED BY <2>1 DEF Abs!Next
<1> QED
  BY <1>2, <1>3, <1>4, <1>5

\* The stores implement the abstract log: nothing but eviction, a clear and a
\* power loss takes a stored record, eviction takes the oldest, a power loss at
\* most the newest chunk, and records pass from tail to flash in whole chunks,
\* oldest first.  Deletes, clears, mounts and the reads at boot have to work: after
\* a failed one, boot brings back entries that the store no longer showed, or
\* shows none of those it has.
THEOREM StoreImplementsLog ==
  ASSUME Faults \subseteq {"write", "meta"}
  PROVE  Spec => ImplementsAbsLog
<1>0. /\ "delete" \notin Faults /\ "clear" \notin Faults /\ "mount" \notin Faults
      /\ "read" \notin Faults
  OBVIOUS
<1>1. Init => RefInv
  BY RefInvInit
<1>2. RefInv /\ [Next]_vars => RefInv'
  BY RefInvStep
<1>3. Init => Abs!Init
  <2> SUFFICES ASSUME Init PROVE Abs!Init
    OBVIOUS
  <2>1. \A s \in Stores : StoredRecords(s) = {}
    BY DEF Init, StoredRecords, LiveKeys, NoData
  <2>2. \A s \in Stores : TailRecords(s) = {}
    <3> TAKE s \in Stores
    <3>1. TailPos(s) = {}
      BY DEF Init, TailPos, TailFrom, Idle, RbEmpty
    <3> QED BY <3>1 DEF TailRecords
  <2>3. AbsStored = [s \in Stores |-> {}] /\ AbsTail = [s \in Stores |-> {}]
    BY <2>1, <2>2 DEF AbsStored, AbsTail
  <2> QED BY <2>3 DEF Init, Abs!Init
<1>4. RefInv /\ [Next]_vars => [Abs!Next]_(Abs!vars)
  <2> SUFFICES ASSUME RefInv, [Next]_vars
               PROVE  [Abs!Next]_(Abs!vars)
    OBVIOUS
  <2>1. ASSUME UNCHANGED <<AbsStored, AbsTail, offered, active, clearing>>
        PROVE  UNCHANGED Abs!vars
    BY <2>1 DEF Abs!vars
  <2>2. ASSUME NEW s \in Stores, PutRefused(s) \/ PutAccepted(s)
        PROVE  [Abs!Next]_(Abs!vars)
    BY <2>2, RefusedMapsToRefuse, PutMapsToAccept DEF Abs!Next
  <2>3. ASSUME NEW s \in Stores, CommitStep(s)
        PROVE  [Abs!Next]_(Abs!vars)
    <3>1. CASE CommitStore(s)
      BY <3>1, StoreMapsToFlush DEF Abs!Next
    <3>2. CASE Evict(s)
      BY <1>0, <2>1, <3>2, EvictMapsToExpire DEF Abs!Next
    <3>3. CASE ~CommitStore(s) /\ ~Evict(s)
      BY <2>1, <2>3, <3>3, CommitShowsNothing DEF CommitStep
    <3> QED BY <3>1, <3>2, <3>3
  <2>4. ASSUME NEW s \in Stores, StreamDrain(s) \/ ClearFlash(s)
        PROVE  [Abs!Next]_(Abs!vars)
    BY <1>0, <2>4, DrainMapsToHandOver, ClearMapsToErase DEF Abs!Next
  <2>5. CASE ClearRam
    BY <2>5, ClearRamMapsToEraseTails DEF Abs!Next
  <2>6. ASSUME NEW m \in Mountable, NEW r \in Restorable(m), Reboot(m, r)
        PROVE  [Abs!Next]_(Abs!vars)
    BY <1>0, <2>6, RebootMapsToPowerLoss DEF Abs!Next
  <2>7. CASE \/ StreamCancel \/ StreamStart \/ StreamStop \/ ClearBegin \/ ClearCancel
             \/ UNCHANGED vars
    BY <2>7, ControlMaps
  <2> QED
    BY <2>2, <2>3, <2>4, <2>5, <2>6, <2>7 DEF Next, ClearStep
<1> QED
  BY <1>1, <1>2, <1>3, <1>4, PTL DEF Spec, ImplementsAbsLog, Abs!Spec
=============================================================================
