--------------------------- MODULE LogStoreProofs ---------------------------
(***************************************************************************)
(* Theorems about LogStore, for every chunk size, ring size, partition     *)
(* size, eviction limit, strategy and set of faults.                       *)
(***************************************************************************)
EXTENDS LogStore, RingBufLemmas, FiniteSetTheorems, TLAPS

-----------------------------------------------------------------------------
(***************************************************************************)
(* The inductive invariant behind DownloadOrdered.                         *)
(***************************************************************************)
\* A handler that is running holds a claim of exactly one chunk; no one else
\* holds a claim.
ClaimInv(s) ==
  /\ commit[s].pc = "idle" => commit[s] = Idle /\ ring[s].head = ring[s].tail
  /\ commit[s].pc # "idle" => ready /\ ring[s].head = ring[s].tail + Chunk

\* Downloads and clears never overlap a running commit, and no commit is queued
\* before the stores are mounted.
ExclusionInv ==
  /\ pending # {} => ready
  /\ active => SysIdle
  /\ clearing \in {"stamp", "ambient", "ram"} => SysIdle /\ pending = {}
  /\ clearing \in {"stamp", "ambient"} => ready

\* Every record stored anywhere was offered before the next one.
OfferedInv(s) ==
  /\ \A p \in ring[s].tail .. (ring[s].put - 1) : ring[s].slot[p] \in 1 .. offered[s]
  /\ \A k \in DOMAIN flash[s].data : \A i \in Offsets : flash[s].data[k][i] \in 1 .. offered[s]

RingSorted(s) ==
  \A p, q \in ring[s].tail .. (ring[s].put - 1) : p < q => ring[s].slot[p] < ring[s].slot[q]

\* The next key a commit writes, in this boot or in the next one.  Entries from
\* there on are orphans, which the next commits replace.
NextKey(s) == IF ready THEN meta[s].write ELSE flash[s].meta.write
OldKeys(s) == {k \in DOMAIN flash[s].data : k < NextKey(s)}

FlashSorted(s) ==
  /\ ready => flash[s].meta.write <= meta[s].write
  /\ \A k \in OldKeys(s) : ChunkSorted(flash[s].data[k])
  /\ \A k, l \in OldKeys(s) : k < l => Before(flash[s].data[k], flash[s].data[l])

FlashBeforeRing(s) ==
  \A k \in OldKeys(s), p \in TailPos(s) : \A i \in Offsets :
    flash[s].data[k][i] < ring[s].slot[p]

SpanInv(s) ==
  /\ meta[s].count = meta[s].write - meta[s].oldest
  /\ flash[s].meta.count = flash[s].meta.write - flash[s].meta.oldest

OrderInv(s) ==
  /\ OfferedInv(s)
  /\ RingSorted(s)
  /\ FlashSorted(s)
  /\ FlashBeforeRing(s)

TypeInv ==
  /\ TypeOK
  /\ ExclusionInv
  /\ \A s \in Stores : ClaimInv(s)

-----------------------------------------------------------------------------
(***************************************************************************)
(* Types and claims.                                                       *)
(***************************************************************************)
\* A handler that is not idle keeps SysIdle false.
LEMMA BusyNotIdle ==
  ASSUME NEW s \in Stores, commit[s].pc # "idle"
  PROVE  ~SysIdle
BY DEF SysIdle, Idle

LEMMA TypeInvInit == Init => TypeInv
<1> SUFFICES ASSUME Init PROVE TypeInv
  OBVIOUS
<1>1. IsFlash([data |-> NoData, meta |-> FreshMeta]) /\ FreshMeta \in Meta
  BY DEF IsFlash, Meta, FreshMeta, NoData
<1>2. TypeOK
  BY <1>1, RbEmptyIsRing DEF Init, TypeOK, Idle
<1>3. ExclusionInv
  BY DEF Init, ExclusionInv, SysIdle
<1>4. \A s \in Stores : ClaimInv(s)
  BY DEF Init, ClaimInv, Idle, RbEmpty
<1> QED
  BY <1>2, <1>3, <1>4 DEF TypeInv

LEMMA TypeInvStep == TypeInv /\ [Next]_vars => TypeInv'
<1> SUFFICES ASSUME TypeInv, [Next]_vars
             PROVE  TypeInv'
  OBVIOUS
<1> USE ConstantsAssumption DEF TypeInv, TypeOK
<1>1. ASSUME NEW s \in Stores, PutRefused(s)
      PROVE  TypeInv'
  BY <1>1 DEF PutRefused, Offer, ExclusionInv, ClaimInv, SysIdle
<1>2. ASSUME NEW s \in Stores, PutAccepted(s)
      PROVE  TypeInv'
  <2> DEFINE r == RbPut(ring[s], offered[s] + 1)
  <2>0. IsRing(ring[s]) /\ offered[s] + 1 \in Nat
    OBVIOUS
  <2>1. IsRing(r) /\ r.tail = ring[s].tail /\ r.head = ring[s].head
    BY <2>0, RbPutIsRing
  <2>2. ring' = [ring EXCEPT ![s] = r] /\ clearing = "no"
    BY <1>2 DEF PutAccepted, Offer
  <2>3. TypeOK'
    BY <1>2, <2>1, <2>2 DEF PutAccepted, Offer
  <2>4. ExclusionInv'
    BY <1>2, <2>2 DEF PutAccepted, Offer, ExclusionInv, SysIdle
  <2>5. \A t \in Stores : ClaimInv(t)'
    BY <1>2, <2>1, <2>2 DEF PutAccepted, ClaimInv
  <2> QED BY <2>3, <2>4, <2>5
<1>3. ASSUME NEW s \in Stores, CommitSkip(s)
      PROVE  TypeInv'
  BY <1>3 DEF CommitSkip, ExclusionInv, ClaimInv, SysIdle
<1>4. ASSUME NEW s \in Stores, CommitShort(s)
      PROVE  TypeInv'
  <2> DEFINE r == RbClaim(ring[s], Claimed(s))
             f == RbFinish(r, 0)
  <2>1. Claimed(s) \in Nat /\ Claimed(s) <= RbSize(ring[s])
    BY RbClaimLenBounds DEF Claimed
  <2>2. IsRing(r) /\ r.tail = ring[s].tail /\ r.head = ring[s].head + Claimed(s)
    BY <2>1, RbClaimIsRing
  <2>3. IsRing(f) /\ f.tail = r.tail /\ f.head = r.tail
    <3>1. 0 \in Nat /\ 0 <= r.head - r.tail /\ r.tail + 0 = r.tail
      BY <2>2, RingCursors
    <3> QED BY <2>2, <3>1, RbFinishIsRing
  <2>4. ring' = [ring EXCEPT ![s] = f] /\ commit[s] = Idle
    BY <1>4 DEF CommitShort, SysIdle
  <2>5. TypeOK'
    BY <1>4, <2>3, <2>4 DEF CommitShort
  <2>6. ExclusionInv'
    BY <1>4 DEF CommitShort, ExclusionInv, SysIdle
  <2>7. \A t \in Stores : ClaimInv(t)'
    BY <1>4, <2>2, <2>3, <2>4 DEF CommitShort, ClaimInv, Idle
  <2> QED BY <2>5, <2>6, <2>7
<1>5. ASSUME NEW s \in Stores, CommitClaim(s)
      PROVE  TypeInv'
  <2> DEFINE r == RbClaim(ring[s], Chunk)
  <2>1. Chunk <= RbSize(ring[s])
    BY <1>5, RbClaimLenBounds DEF CommitClaim, Claimed
  <2>2. IsRing(r) /\ r.tail = ring[s].tail /\ r.head = ring[s].head + Chunk
    BY <2>1, RbClaimIsRing
  <2>3. ring' = [ring EXCEPT ![s] = r] /\ commit[s] = Idle /\ ready /\ ~active
    BY <1>5 DEF CommitClaim, SysIdle, ExclusionInv
  <2>4. ring[s].head = ring[s].tail
    BY <2>3 DEF ClaimInv, Idle
  <2>5. TypeOK'
    BY <1>5, <2>2, <2>3 DEF CommitClaim, At
  <2>6. ExclusionInv'
    BY <1>5 DEF CommitClaim, ExclusionInv
  <2>7. \A t \in Stores : ClaimInv(t)'
    BY <1>5, <2>2, <2>3, <2>4 DEF CommitClaim, ClaimInv, At
  <2> QED BY <2>5, <2>6, <2>7
<1>6. ASSUME NEW s \in Stores, CommitStore(s)
      PROVE  TypeInv'
  <2>1. ~SysIdle /\ ready /\ ring[s].head = ring[s].tail + Chunk
    BY <1>6, BusyNotIdle DEF CommitStore, ClaimInv
  <2>2. ChunkOf(s) \in [Offsets -> Nat]
    <3>1. IsRing(ring[s]) /\ Chunk \in Nat
      OBVIOUS
    <3>2. \A i \in Offsets : ring[s].tail + i \in ring[s].tail .. (ring[s].put - 1)
      BY <2>1, <3>1, RingCursors DEF Offsets
    <3> QED BY <3>1, <3>2, RingCursors DEF ChunkOf
  <2> DEFINE d == [k \in DOMAIN flash[s].data \cup {meta[s].write} |->
                    IF k = meta[s].write THEN ChunkOf(s) ELSE flash[s].data[k]]
             f == [data |-> d, meta |-> flash[s].meta]
  <2>a. IsFlash(flash[s]) /\ meta[s] \in Meta
    OBVIOUS
  <2>3. flash' = [flash EXCEPT ![s] = f]
    <3>1. flash' = [flash EXCEPT ![s].data = d]
      BY <1>6, Zenon DEF CommitStore
    <3>2. flash[s] = [data |-> flash[s].data, meta |-> flash[s].meta]
      BY <2>a DEF IsFlash
    <3> HIDE DEF d
    <3>3. [flash[s] EXCEPT !.data = d] = [data |-> d, meta |-> flash[s].meta]
      BY <3>2
    <3>4. flash' = [flash EXCEPT ![s] = [flash[s] EXCEPT !.data = d]]
      BY <3>1
    <3> QED BY <3>3, <3>4
  <2>b. IsFlash(f)
    BY <2>2, <2>a DEF IsFlash, Meta
  <2>c. \A t \in Stores : IsFlash(flash'[t])
    BY <2>3, <2>b
  <2>d. meta' \in [Stores -> Meta]
    BY <1>6 DEF CommitStore, Appended, Meta
  <2>4. TypeOK'
    BY <1>6, <2>3, <2>c, <2>d DEF CommitStore, At
  <2>5. ExclusionInv'
    BY <1>6, <2>1 DEF CommitStore, ExclusionInv
  <2>6. \A t \in Stores : ClaimInv(t)'
    BY <1>6, <2>1 DEF CommitStore, ClaimInv, At
  <2> QED BY <2>4, <2>5, <2>6
<1>7. ASSUME NEW s \in Stores, Evict(s)
      PROVE  TypeInv'
  <2>1. ~SysIdle /\ ready
    BY <1>7, BusyNotIdle DEF Evict, Evicted, CanEvict, Victim, LastAttempt, ClaimInv
  <2>2. IsFlash(flash[s])' /\ DOMAIN flash' = Stores /\ \A t \in Stores \ {s} : flash'[t] = flash[t]
    <3> DEFINE d == [k \in DOMAIN flash[s].data \ {Victim(s)} |-> flash[s].data[k]]
               f == [data |-> d, meta |-> flash[s].meta]
    <3>1. IsFlash(flash[s])
      OBVIOUS
    <3>2. IsFlash(f)
      BY <3>1 DEF IsFlash
    <3>3. flash' = [flash EXCEPT ![s] = f] \/ flash' = flash
      BY <1>7, <3>1 DEF Evict, Evicted, CanEvict, Victim, LastAttempt, IsFlash
    <3> QED BY <3>1, <3>2, <3>3
  <2>3. commit'[s].pc \in {"write", "fail"} /\ commit'[s].attempt \in Nat
        /\ commit'[s] = [pc |-> commit'[s].pc, attempt |-> commit'[s].attempt]
        /\ commit' = [commit EXCEPT ![s] = commit'[s]]
    BY <1>7 DEF Evict, Evicted, CanEvict, Victim, LastAttempt, At
  <2>4. TypeOK'
    BY <1>7, <2>2, <2>3 DEF Evict, Evicted, CanEvict, Victim, LastAttempt, Meta
  <2>5. ExclusionInv'
    BY <1>7, <2>1 DEF Evict, Evicted, CanEvict, Victim, LastAttempt, ExclusionInv
  <2>6. \A t \in Stores : ClaimInv(t)'
    BY <1>7, <2>1, <2>3 DEF Evict, Evicted, CanEvict, Victim, LastAttempt, ClaimInv
  <2> QED BY <2>4, <2>5, <2>6
<1>8. ASSUME NEW s \in Stores, CommitFail(s)
      PROVE  TypeInv'
  BY <1>8, BusyNotIdle DEF CommitFail, ExclusionInv, ClaimInv, At
<1>9. ASSUME NEW s \in Stores, CommitSave(s)
      PROVE  TypeInv'
  <2>1. ~SysIdle /\ ready
    BY <1>9, BusyNotIdle DEF CommitSave, SavedMeta, ClaimInv
  <2> DEFINE f == [data |-> flash[s].data, meta |-> meta[s]]
  <2>a. IsFlash(flash[s]) /\ meta[s] \in Meta
    OBVIOUS
  <2>b. IsFlash(f)
    BY <2>a DEF IsFlash
  <2>c. flash' = [flash EXCEPT ![s] = f] \/ flash' = flash
    BY <1>9, <2>a DEF CommitSave, SavedMeta, IsFlash
  <2>2. TypeOK'
    BY <1>9, <2>b, <2>c DEF CommitSave, SavedMeta, At
  <2>3. ExclusionInv'
    BY <1>9, <2>1 DEF CommitSave, SavedMeta, ExclusionInv
  <2>4. \A t \in Stores : ClaimInv(t)'
    BY <1>9 DEF CommitSave, SavedMeta, ClaimInv, At
  <2> QED BY <2>2, <2>3, <2>4
<1>10. ASSUME NEW s \in Stores, CommitFinish(s)
       PROVE  TypeInv'
  <2> DEFINE n == IF commit[s].pc = "done" THEN Chunk ELSE 0
             f == RbFinish(ring[s], n)
  <2>1. ~SysIdle /\ ring[s].head = ring[s].tail + Chunk
    BY <1>10, BusyNotIdle DEF CommitFinish, FinishLen, ClaimInv
  <2>2. IsRing(f) /\ f.head = f.tail
    <3>1. IsRing(ring[s]) /\ n \in Nat
      OBVIOUS
    <3>2. n <= ring[s].head - ring[s].tail
      BY <2>1, <3>1, RingCursors
    <3> QED BY <3>1, <3>2, RbFinishMoves
  <2>3. ring' = [ring EXCEPT ![s] = f] /\ commit' = [commit EXCEPT ![s] = Idle]
    BY <1>10 DEF CommitFinish, FinishLen
  <2>4. TypeOK'
    BY <1>10, <2>2, <2>3 DEF CommitFinish, FinishLen, Idle
  <2>5. ExclusionInv'
    BY <1>10, <2>1 DEF CommitFinish, FinishLen, ExclusionInv
  <2>6. \A t \in Stores : ClaimInv(t)'
    BY <1>10, <2>2, <2>3 DEF CommitFinish, FinishLen, ClaimInv, Idle
  <2> QED BY <2>4, <2>5, <2>6
<1>11. ASSUME StreamCancel \/ StreamStart
       PROVE  TypeInv'
  BY <1>11 DEF StreamCancel, StreamStart, ExclusionInv, ClaimInv, SysIdle
<1>12. ASSUME NEW s \in Stores, StreamDrain(s)
       PROVE  TypeInv'
  <2>1. PICK n \in 1 .. RbClaimLen(ring[s], RbSize(ring[s]), RingSize[s]) :
          ring' = [ring EXCEPT ![s] = RbFinish(RbClaim(ring[s], n), n)]
    BY <1>12 DEF StreamDrain
  <2> DEFINE r == RbClaim(ring[s], n)
             f == RbFinish(r, n)
  <2>2. IsRing(ring[s]) /\ RbSize(ring[s]) \in Nat /\ RingSize[s] \in Nat \ {0}
    BY RingCursors
  <2>3. n \in Nat /\ n <= RbSize(ring[s])
    BY <2>2, RbClaimLenBounds
  <2>4. SysIdle /\ commit[s] = Idle /\ ring[s].head = ring[s].tail
    BY <1>12 DEF StreamDrain, ExclusionInv, SysIdle, ClaimInv, Idle
  <2>5. IsRing(r) /\ r.tail = ring[s].tail /\ r.head = ring[s].tail + n
    BY <2>2, <2>3, <2>4, RbClaimIsRing
  <2>6. IsRing(f) /\ f.head = f.tail
    <3>1. n <= r.head - r.tail
      BY <2>3, <2>5, RingCursors
    <3> QED BY <2>3, <2>5, <3>1, RbFinishMoves
  <2>7. TypeOK'
    BY <1>12, <2>1, <2>6 DEF StreamDrain
  <2>8. ExclusionInv'
    BY <1>12 DEF StreamDrain, ExclusionInv, SysIdle
  <2>9. \A t \in Stores : ClaimInv(t)'
    BY <1>12, <2>1, <2>4, <2>6 DEF StreamDrain, ClaimInv, Idle
  <2> QED BY <2>7, <2>8, <2>9
<1>13. ASSUME StreamStop
       PROVE  TypeInv'
  BY <1>13 DEF StreamStop, ExclusionInv, ClaimInv, SysIdle
<1>14. ASSUME ClearBegin
       PROVE  TypeInv'
  <2>1. CASE UNCHANGED active
    BY <1>14, <2>1 DEF ClearBegin, ExclusionInv, ClaimInv, SysIdle
  <2>2. CASE active' = FALSE
    BY <1>14, <2>2 DEF ClearBegin, ExclusionInv, ClaimInv, SysIdle
  <2> QED BY <1>14, <2>1, <2>2 DEF ClearBegin
<1>15. ASSUME ClearCancel
       PROVE  TypeInv'
  <2>2. TypeOK'
    BY <1>15 DEF ClearCancel
  <2>3. ExclusionInv'
    BY <1>15 DEF ClearCancel, ExclusionInv, SysIdle
  <2>4. \A t \in Stores : ClaimInv(t)'
    BY <1>15 DEF ClearCancel, ClaimInv
  <2> QED BY <2>2, <2>3, <2>4
<1>16. ASSUME NEW s \in Stores, ClearFlash(s)
       PROVE  TypeInv'
  <2> DEFINE f == [data |-> NoData, meta |-> FreshMeta]
  <2>1. IsFlash(f) /\ FreshMeta \in Meta
    BY DEF IsFlash, NoData, FreshMeta, Meta
  <2>2. flash' = [flash EXCEPT ![s] = f] \/ flash' = flash
    BY <1>16 DEF ClearFlash
  <2>3. TypeOK'
    BY <1>16, <2>1, <2>2 DEF ClearFlash
  <2>4. ExclusionInv'
    BY <1>16 DEF ClearFlash, ExclusionInv, SysIdle, Stores
  <2>5. \A t \in Stores : ClaimInv(t)'
    BY <1>16 DEF ClearFlash, ClaimInv
  <2> QED BY <2>3, <2>4, <2>5
<1>17. ASSUME ClearRam
       PROVE  TypeInv'
  BY <1>17, RbEmptyIsRing DEF ClearRam, ExclusionInv, ClaimInv, SysIdle, RbEmpty, Idle
<1>18. ASSUME NEW m \in Mountable, NEW r \in Restorable(m), Reboot(m, r)
       PROVE  TypeInv'
  <2>1. \A t \in Stores : flash[t].meta \in Meta
    BY DEF IsFlash
  <2>2. FreshMeta \in Meta
    BY DEF FreshMeta, Meta
  <2>3. TypeOK'
    <3>1. meta' \in [Stores -> Meta]
      BY <1>18, <2>1, <2>2 DEF Reboot
    <3>2. /\ ring' = [t \in Stores |-> RbEmpty] /\ commit' = [t \in Stores |-> Idle]
          /\ flash' = flash /\ offered' = offered
          /\ pending' = {} /\ active' = FALSE /\ clearing' = "no"
          /\ reboots' \in Nat /\ ready' \in BOOLEAN
      BY <1>18 DEF Reboot
    <3> QED BY <3>1, <3>2, RbEmptyIsRing DEF Idle
  <2>4. ExclusionInv'
    BY <1>18 DEF Reboot, ExclusionInv, SysIdle
  <2>5. \A t \in Stores : ClaimInv(t)'
    BY <1>18 DEF Reboot, ClaimInv, Idle, RbEmpty
  <2> QED BY <2>3, <2>4, <2>5
<1>19. ASSUME UNCHANGED vars
       PROVE  TypeInv'
  BY <1>19 DEF vars, ExclusionInv, ClaimInv, SysIdle
<1> QED
  BY <1>1, <1>2, <1>3, <1>4, <1>5, <1>6, <1>7, <1>8, <1>9, <1>10, <1>11, <1>12, <1>13,
     <1>14, <1>15, <1>16, <1>17, <1>18, <1>19
     DEF Next, CommitStep, ClearStep

\* TypeOK holds in every reachable state.
THEOREM TypeCorrect == Spec => []TypeOK
<1>1. Init => TypeInv
  BY TypeInvInit
<1>2. TypeInv /\ [Next]_vars => TypeInv'
  BY TypeInvStep
<1>3. TypeInv => TypeOK
  BY DEF TypeInv
<1> QED
  BY <1>1, <1>2, <1>3, PTL DEF Spec

-----------------------------------------------------------------------------
(***************************************************************************)
(* The accounting of metadata.                                             *)
(***************************************************************************)
LEMMA SpanInvStep ==
  TypeInv /\ (\A s \in Stores : SpanInv(s)) /\ [Next]_vars => (\A s \in Stores : SpanInv(s))'
<1> SUFFICES ASSUME TypeInv, \A s \in Stores : SpanInv(s), [Next]_vars, NEW t \in Stores
             PROVE  SpanInv(t)'
  OBVIOUS
<1> USE DEF TypeInv, TypeOK
<1>1. /\ IsFlash(flash[t]) /\ meta[t] \in Meta /\ flash[t].meta \in Meta
      /\ flash[t] = [data |-> flash[t].data, meta |-> flash[t].meta]
      /\ SpanInv(t)
  BY DEF IsFlash
<1>2. CASE UNCHANGED <<meta, flash>>
  BY <1>2 DEF SpanInv
<1>3. ASSUME NEW s \in Stores, CommitStore(s)
      PROVE  SpanInv(t)'
  BY <1>1, <1>3 DEF CommitStore, Appended, SpanInv, Meta
<1>4. ASSUME NEW s \in Stores, Evict(s)
      PROVE  SpanInv(t)'
  BY <1>1, <1>4 DEF Evict, Evicted, CanEvict, Victim, LastAttempt, SpanInv, Meta
<1>5. ASSUME NEW s \in Stores, CommitSave(s)
      PROVE  SpanInv(t)'
  BY <1>1, <1>5 DEF CommitSave, SavedMeta, SpanInv
<1>6. ASSUME NEW s \in Stores, ClearFlash(s)
      PROVE  SpanInv(t)'
  BY <1>1, <1>6 DEF ClearFlash, SpanInv, FreshMeta
<1>7. ASSUME NEW m \in Mountable, NEW r \in Restorable(m), Reboot(m, r)
      PROVE  SpanInv(t)'
  BY <1>1, <1>7 DEF Reboot, SpanInv, FreshMeta
<1> QED
  BY <1>2, <1>3, <1>4, <1>5, <1>6, <1>7
     DEF Next, CommitStep, ClearStep, vars, PutRefused, PutAccepted, CommitSkip, CommitShort,
         CommitClaim, CommitFail, CommitFinish, StreamCancel, StreamStart, StreamDrain, StreamStop,
         ClearBegin, ClearCancel, ClearRam

\* The number of entries counted is the number of keys between oldest_key and
\* write_key, in every reachable state and under every fault.
THEOREM SpanCorrect == Spec => []CountIsSpan
<1> DEFINE J == TypeInv /\ \A s \in Stores : SpanInv(s)
<1>1. Init => J
  <2>1. Init => \A s \in Stores : SpanInv(s)
    BY DEF Init, SpanInv, FreshMeta
  <2> QED BY <2>1, TypeInvInit
<1>2. J /\ [Next]_vars => J'
  BY TypeInvStep, SpanInvStep
<1>3. J => CountIsSpan
  BY DEF SpanInv, CountIsSpan
<1> HIDE DEF J
<1> QED
  BY <1>1, <1>2, <1>3, PTL DEF Spec

-----------------------------------------------------------------------------
(***************************************************************************)
(* The order of a download.                                                *)
(***************************************************************************)
\* A step that only loses or hands on records of a store keeps them ordered.
LEMMA OrderShrink ==
  ASSUME NEW t \in Stores, TypeInv, TypeInv', OrderInv(t),
         offered[t] <= offered'[t],
         \A p \in ring'[t].tail .. (ring'[t].put - 1) :
           p \in ring[t].tail .. (ring[t].put - 1) /\ ring'[t].slot[p] = ring[t].slot[p],
         \A p \in TailPos(t)' : p \in TailPos(t) /\ ring'[t].slot[p] = ring[t].slot[p],
         \A k \in DOMAIN flash'[t].data :
           k \in DOMAIN flash[t].data /\ flash'[t].data[k] = flash[t].data[k],
         \A k \in OldKeys(t)' : k \in OldKeys(t),
         ready' => flash'[t].meta.write <= meta'[t].write
  PROVE  OrderInv(t)'
<1>0. /\ offered[t] \in Nat /\ offered'[t] \in Nat
      /\ IsRing(ring[t]) /\ IsFlash(flash[t])
      /\ \A p \in ring[t].tail .. (ring[t].put - 1) : ring[t].slot[p] \in Nat
      /\ \A k \in DOMAIN flash[t].data : \A i \in Offsets : flash[t].data[k][i] \in Nat
  BY RingCursors DEF TypeInv, TypeOK, IsFlash
<1>1. OfferedInv(t)'
  BY <1>0 DEF OrderInv, OfferedInv
<1>2. RingSorted(t)'
  BY DEF OrderInv, RingSorted
<1>3. \A k \in OldKeys(t)' : flash'[t].data[k] = flash[t].data[k]
  BY DEF OldKeys
<1>4. FlashSorted(t)'
  BY <1>3 DEF OrderInv, FlashSorted, ChunkSorted, Before
<1>5. FlashBeforeRing(t)'
  BY <1>3 DEF OrderInv, FlashBeforeRing
<1> QED
  BY <1>1, <1>2, <1>4, <1>5 DEF OrderInv

\* A step that leaves a store alone keeps it ordered.
LEMMA OrderFrame ==
  ASSUME NEW t \in Stores, TypeInv, TypeInv', OrderInv(t),
         ring'[t] = ring[t], flash'[t] = flash[t], meta'[t] = meta[t], ready' = ready,
         offered[t] <= offered'[t], TailFrom(t)' = TailFrom(t)
  PROVE  OrderInv(t)'
<1>1. \A p \in TailPos(t)' : p \in TailPos(t)
  BY DEF TailPos
<1>2. \A k \in OldKeys(t)' : k \in OldKeys(t)
  BY DEF OldKeys, NextKey
<1>3. ready' => flash'[t].meta.write <= meta'[t].write
  BY DEF OrderInv, FlashSorted
<1> QED
  BY <1>1, <1>2, <1>3, OrderShrink

\* A new record is newer than everything the store holds.
LEMMA OrderPut ==
  ASSUME NEW s \in Stores, TypeInv, TypeInv', OrderInv(s), PutAccepted(s)
  PROVE  OrderInv(s)'
<1> DEFINE r == RbPut(ring[s], offered[s] + 1)
<1>1. /\ IsRing(ring[s]) /\ IsFlash(flash[s]) /\ offered[s] \in Nat
      /\ offered[s] + 1 \in Nat /\ commit[s].pc \in {"idle", "write", "save", "done", "fail"}
      /\ Chunk \in Nat
  BY ConstantsAssumption DEF TypeInv, TypeOK
<1>2. /\ ring[s].tail \in Nat /\ ring[s].head \in Nat /\ ring[s].put \in Nat
      /\ ring[s].tail <= ring[s].put
      /\ \A p \in ring[s].tail .. (ring[s].put - 1) : ring[s].slot[p] \in Nat
  BY <1>1, RingCursors
<1>3. /\ r.tail = ring[s].tail /\ r.put = ring[s].put + 1 /\ r.slot[ring[s].put] = offered[s] + 1
      /\ \A p \in ring[s].tail .. (ring[s].put - 1) : r.slot[p] = ring[s].slot[p]
  BY <1>1, RbPutIsRing
<1>4. /\ ring'[s] = r /\ offered'[s] = offered[s] + 1
      /\ flash' = flash /\ meta' = meta /\ ready' = ready /\ commit' = commit
  BY DEF PutAccepted, Offer, TypeInv, TypeOK
<1> HIDE DEF r
<1>5. \A p \in r.tail .. (r.put - 1) :
        p \in ring[s].tail .. (ring[s].put - 1) \/ p = ring[s].put
  BY <1>2, <1>3
<1>6. \A k \in DOMAIN flash[s].data : \A i \in Offsets : flash[s].data[k][i] \in Nat
  BY <1>1 DEF IsFlash
<1>7. OfferedInv(s)'
  BY <1>1, <1>2, <1>3, <1>4, <1>5, <1>6 DEF OrderInv, OfferedInv
<1>8. RingSorted(s)'
  BY <1>1, <1>2, <1>3, <1>4, <1>5 DEF OrderInv, OfferedInv, RingSorted
<1>9. OldKeys(s)' = OldKeys(s) /\ NextKey(s)' = NextKey(s)
  BY <1>4 DEF OldKeys, NextKey
<1>10. FlashSorted(s)'
  BY <1>4, <1>9 DEF OrderInv, FlashSorted
<1>11. FlashBeforeRing(s)'
  <2>1. TailFrom(s)' = TailFrom(s) /\ TailFrom(s) \in Nat /\ ring[s].tail <= TailFrom(s)
    BY <1>1, <1>2, <1>3, <1>4 DEF TailFrom
  <2>2. \A p \in TailPos(s)' : p \in TailPos(s) \/ p = ring[s].put
    BY <1>2, <1>3, <1>4, <2>1 DEF TailPos
  <2>3. \A p \in TailPos(s) : ring'[s].slot[p] = ring[s].slot[p]
    BY <1>2, <1>3, <1>4, <2>1 DEF TailPos
  <2>4. \A k \in OldKeys(s) : \A i \in Offsets :
          flash[s].data[k][i] \in Nat /\ flash[s].data[k][i] <= offered[s]
    BY <1>6 DEF OrderInv, OfferedInv, OldKeys
  <2> QED
    BY <1>1, <1>3, <1>4, <1>9, <2>2, <2>3, <2>4 DEF OrderInv, FlashBeforeRing
<1> QED
  BY <1>7, <1>8, <1>10, <1>11 DEF OrderInv

\* A data write appends a chunk that is newer than every entry before it and
\* older than the records left in the tail.
LEMMA OrderStore ==
  ASSUME NEW s \in Stores, TypeInv, TypeInv', OrderInv(s), CommitStore(s)
  PROVE  OrderInv(s)'
<1> DEFINE w == meta[s].write
           c == ChunkOf(s)
<1>1. /\ IsRing(ring[s]) /\ IsFlash(flash[s]) /\ offered[s] \in Nat
      /\ w \in Nat /\ Chunk \in Nat \ {0}
  BY ConstantsAssumption DEF TypeInv, TypeOK, Meta
<1>2. ready /\ commit[s].pc = "write" /\ ring[s].head = ring[s].tail + Chunk
  BY DEF CommitStore, TypeInv, ClaimInv
<1>3. /\ ring[s].tail \in Nat /\ ring[s].put \in Nat
      /\ ring[s].tail + Chunk <= ring[s].put
      /\ \A p \in ring[s].tail .. (ring[s].put - 1) : ring[s].slot[p] \in Nat
  BY <1>1, <1>2, RingCursors
<1>4. /\ ring' = ring /\ offered' = offered /\ ready' = ready
      /\ meta'[s].write = w + 1
      /\ flash'[s].meta = flash[s].meta
      /\ DOMAIN flash'[s].data = DOMAIN flash[s].data \cup {w}
      /\ flash'[s].data[w] = c
      /\ \A k \in DOMAIN flash[s].data \ {w} : flash'[s].data[k] = flash[s].data[k]
      /\ commit'[s].pc = "save"
  BY DEF CommitStore, Appended, TypeInv, TypeOK, At
<1>5. \A i \in Offsets : c[i] = ring[s].slot[ring[s].tail + i]
  BY DEF ChunkOf
<1>6. \A i \in Offsets : ring[s].tail + i \in ring[s].tail .. (ring[s].tail + Chunk - 1)
                         /\ ring[s].tail + i \in ring[s].tail .. (ring[s].put - 1)
  BY <1>1, <1>3 DEF Offsets
<1>7. /\ TailPos(s) = ring[s].tail .. (ring[s].put - 1)
      /\ TailPos(s)' = (ring[s].tail + Chunk) .. (ring[s].put - 1)
  BY <1>1, <1>2, <1>3, <1>4 DEF TailPos, TailFrom
<1>8. OldKeys(s)' \subseteq OldKeys(s) \cup {w}
  <2> SUFFICES ASSUME NEW k \in OldKeys(s)', k # w
               PROVE  k \in OldKeys(s)
    OBVIOUS
  <2>1. NextKey(s) = w /\ NextKey(s)' = w + 1
    BY <1>2, <1>4 DEF NextKey
  <2>2. k \in DOMAIN flash[s].data /\ k < w + 1
    BY <1>4, <2>1 DEF OldKeys
  <2>3. k \in Nat
    BY <1>1, <2>2 DEF IsFlash
  <2>4. w \in Nat
    BY <1>1
  <2> HIDE DEF w
  <2>5. k < w
    BY <2>2, <2>3, <2>4
  <2> QED BY <2>1, <2>2, <2>5 DEF OldKeys
<1>9. \A k \in OldKeys(s) : k \in DOMAIN flash[s].data \ {w} /\ k \in Nat /\ k < w
  BY <1>1, <1>2 DEF OldKeys, NextKey, IsFlash
<1>10. ChunkSorted(c)
  BY <1>5, <1>6, <1>1, <1>3 DEF ChunkSorted, OrderInv, RingSorted, Offsets
<1>11. \A k \in OldKeys(s) : Before(flash[s].data[k], c)
  BY <1>5, <1>6, <1>7 DEF Before, OrderInv, FlashBeforeRing
<1> HIDE DEF c, w
<1>12. OfferedInv(s)'
  BY <1>4, <1>5, <1>6 DEF OrderInv, OfferedInv
<1>13. RingSorted(s)'
  BY <1>4 DEF OrderInv, RingSorted
<1>14. FlashSorted(s)'
  <2>1. flash'[s].meta.write <= meta'[s].write
    BY <1>1, <1>2, <1>4 DEF OrderInv, FlashSorted, IsFlash, Meta, w
  <2>2. \A k \in OldKeys(s)' : ChunkSorted(flash'[s].data[k])
    BY <1>4, <1>8, <1>9, <1>10 DEF OrderInv, FlashSorted
  <2>3. ASSUME NEW k \in OldKeys(s)', NEW l \in OldKeys(s)', k < l
        PROVE  Before(flash'[s].data[k], flash'[s].data[l])
    <3>1. k \in OldKeys(s)
      BY <1>1, <1>8, <1>9, <2>3
    <3>2. CASE l \in OldKeys(s)
      BY <1>4, <1>9, <2>3, <3>1, <3>2 DEF OrderInv, FlashSorted
    <3>3. CASE l = w
      BY <1>4, <1>9, <1>11, <3>1, <3>3
    <3> QED BY <1>8, <3>2, <3>3
  <2> QED BY <2>1, <2>2, <2>3 DEF FlashSorted
<1>15. FlashBeforeRing(s)'
  <2>1. \A p \in TailPos(s)' : p \in TailPos(s)
    BY <1>1, <1>3, <1>7
  <2>2. \A p \in TailPos(s)', i \in Offsets : c[i] < ring[s].slot[p]
    <3> TAKE p \in TailPos(s)', i \in Offsets
    <3>1. /\ p \in ring[s].tail .. (ring[s].put - 1)
          /\ ring[s].tail + i \in ring[s].tail .. (ring[s].put - 1)
          /\ ring[s].tail + i < p
      BY <1>1, <1>3, <1>6, <1>7 DEF Offsets
    <3> QED BY <1>5, <3>1 DEF OrderInv, RingSorted
  <2> QED
    BY <1>4, <1>8, <1>9, <2>1, <2>2 DEF OrderInv, FlashBeforeRing
<1> QED
  BY <1>12, <1>13, <1>14, <1>15 DEF OrderInv

LEMMA OrderInit == Init => \A s \in Stores : OrderInv(s)
BY RbEmptyIsRing, ConstantsAssumption
   DEF Init, OrderInv, OfferedInv, RingSorted, FlashSorted, FlashBeforeRing, OldKeys,
       TailPos, TailFrom, RbEmpty, NoData, FreshMeta, Idle

\* A restart that reads what it mounts restores the metadata of every partition.
LEMMA RebootRestores ==
  ASSUME "read" \notin Faults, NEW m \in Mountable, NEW r \in Restorable(m), Reboot(m, r)
  PROVE  /\ r = m
         /\ ready' => \A s \in Stores : meta'[s] = flash[s].meta
<1>1. r = m
  BY DEF Restorable
<1> QED BY <1>1 DEF Reboot

LEMMA OrderStep ==
  ASSUME "clear" \notin Faults, "read" \notin Faults \/ reboots' = reboots,
         TypeInv, TypeInv', \A s \in Stores : OrderInv(s), [Next]_vars, NEW t \in Stores
  PROVE  OrderInv(t)'
<1>1. /\ IsRing(ring[t]) /\ IsFlash(flash[t]) /\ offered[t] \in Nat /\ Chunk \in Nat \ {0}
      /\ OrderInv(t) /\ meta[t] \in Meta
      /\ commit[t].pc \in {"idle", "write", "save", "done", "fail"}
  BY ConstantsAssumption DEF TypeInv, TypeOK
<1>2. /\ ring[t].tail \in Nat /\ ring[t].head \in Nat /\ ring[t].put \in Nat
      /\ ring[t].tail <= ring[t].head /\ ring[t].head <= ring[t].put
      /\ TailFrom(t) \in Nat /\ RbSize(ring[t]) \in Nat
  BY <1>1, RingCursors DEF TailFrom
<1>3. CASE /\ UNCHANGED <<ring, flash, meta, ready>>
           /\ offered[t] <= offered'[t]
           /\ TailFrom(t)' = TailFrom(t)
  BY <1>1, <1>3, OrderFrame
<1>4. ASSUME NEW s \in Stores, s # t, CommitStep(s) \/ PutAccepted(s) \/ StreamDrain(s)
      PROVE  OrderInv(t)'
  <2>1. /\ ring'[t] = ring[t] /\ flash'[t] = flash[t] /\ meta'[t] = meta[t]
        /\ ready' = ready /\ commit'[t] = commit[t] /\ offered'[t] = offered[t]
    BY <1>4 DEF CommitStep, CommitSkip, CommitShort, CommitClaim, CommitStore, Evict, CommitFail,
       CommitSave, CommitFinish, PutAccepted, Offer, StreamDrain, TypeInv, TypeOK
  <2>2. TailFrom(t)' = TailFrom(t) /\ offered[t] <= offered'[t]
    BY <1>1, <2>1 DEF TailFrom
  <2> QED BY <1>1, <2>1, <2>2, OrderFrame
<1>5. ASSUME NEW s \in Stores, PutRefused(s)
      PROVE  OrderInv(t)'
  <2>1. offered[t] <= offered'[t] /\ TailFrom(t)' = TailFrom(t)
    BY <1>1, <1>5 DEF PutRefused, Offer, TailFrom, TypeInv, TypeOK
  <2> QED BY <1>5, <1>3, <2>1 DEF PutRefused
<1>6. CASE PutAccepted(t)
  BY <1>1, <1>6, OrderPut
<1>7. CASE CommitStore(t)
  BY <1>1, <1>7, OrderStore
<1>8. CASE CommitSkip(t) \/ CommitFail(t)
  <2>1. TailFrom(t)' = TailFrom(t) /\ offered[t] <= offered'[t]
    BY <1>1, <1>8 DEF CommitSkip, CommitFail, TailFrom, TypeInv, TypeOK, At
  <2> QED BY <1>3, <1>8, <2>1 DEF CommitSkip, CommitFail
<1>9. CASE CommitShort(t)
  <2> DEFINE r == RbClaim(ring[t], Claimed(t))
             f == RbFinish(r, 0)
  <2>1. Claimed(t) \in Nat /\ Claimed(t) <= RbSize(ring[t])
    BY <1>1, RbClaimLenBounds, ConstantsAssumption DEF Claimed
  <2>2. /\ IsRing(r) /\ r.tail = ring[t].tail /\ r.put = ring[t].put
        /\ r.slot = ring[t].slot
    BY <1>1, <2>1, RbClaimIsRing
  <2>3. 0 \in Nat /\ 0 <= r.head - r.tail /\ r.tail + 0 = r.tail
    BY <2>2, RingCursors
  <2>4. /\ f.tail = ring[t].tail /\ f.put = ring[t].put
        /\ \A p \in ring[t].tail .. (ring[t].put - 1) : f.slot[p] = ring[t].slot[p]
    BY <2>2, <2>3, RbFinishMoves
  <2>5. ring'[t] = f /\ UNCHANGED <<flash, meta, ready, offered, commit>>
    BY <1>9 DEF CommitShort, TypeInv, TypeOK
  <2> HIDE DEF f
  <2>6. TailPos(t)' = TailPos(t) /\ \A p \in TailPos(t) : f.slot[p] = ring[t].slot[p]
    BY <1>1, <1>2, <2>4, <2>5 DEF TailPos, TailFrom
  <2>7. OldKeys(t)' = OldKeys(t) /\ (ready => flash[t].meta.write <= meta[t].write)
    BY <1>1, <2>5 DEF OldKeys, NextKey, OrderInv, FlashSorted
  <2> QED BY <1>1, <2>4, <2>5, <2>6, <2>7, OrderShrink
<1>10. CASE CommitClaim(t)
  <2> DEFINE r == RbClaim(ring[t], Chunk)
  <2>1. Chunk <= RbSize(ring[t])
    BY <1>1, <1>10, RbClaimLenBounds, ConstantsAssumption DEF CommitClaim, Claimed
  <2>2. r.tail = ring[t].tail /\ r.put = ring[t].put /\ r.slot = ring[t].slot
    BY <1>1, <2>1, RbClaimIsRing
  <2>3. /\ ring'[t] = r /\ UNCHANGED <<flash, meta, ready, offered>>
        /\ commit[t].pc = "idle" /\ commit'[t].pc = "write"
    BY <1>10 DEF CommitClaim, TypeInv, TypeOK, SysIdle, Idle, At
  <2> HIDE DEF r
  <2>4. TailPos(t)' = TailPos(t)
    BY <2>2, <2>3 DEF TailPos, TailFrom
  <2>5. OldKeys(t)' = OldKeys(t) /\ (ready => flash[t].meta.write <= meta[t].write)
    BY <1>1, <2>3 DEF OldKeys, NextKey, OrderInv, FlashSorted
  <2> QED BY <1>1, <2>2, <2>3, <2>4, <2>5, OrderShrink
<1>11. CASE Evict(t)
  <2>1. /\ UNCHANGED <<ring, ready, offered>> /\ meta'[t].write = meta[t].write
        /\ flash'[t].meta = flash[t].meta
        /\ DOMAIN flash'[t].data \subseteq DOMAIN flash[t].data
        /\ \A k \in DOMAIN flash'[t].data : flash'[t].data[k] = flash[t].data[k]
        /\ commit[t].pc = "write" /\ commit'[t].pc \in {"write", "fail"}
    <3>1. flash[t] = [data |-> flash[t].data, meta |-> flash[t].meta]
      BY <1>1 DEF IsFlash
    <3>2. UNCHANGED <<ring, ready, offered>> /\ meta'[t].write = meta[t].write
      BY <1>11 DEF Evict, Evicted, CanEvict, Victim, LastAttempt, TypeInv, TypeOK
    <3>3. commit[t].pc = "write" /\ commit'[t].pc \in {"write", "fail"}
      BY <1>11 DEF Evict, Evicted, CanEvict, Victim, LastAttempt, TypeInv, TypeOK, At
    <3>4. CASE flash' = flash
      BY <3>2, <3>3, <3>4
    <3>5. CASE flash' = [flash EXCEPT ![t].data =
                 [k \in DOMAIN flash[t].data \ {Victim(t)} |-> flash[t].data[k]]]
      <4>1. flash'[t].data = [k \in DOMAIN flash[t].data \ {Victim(t)} |-> flash[t].data[k]]
            /\ flash'[t].meta = flash[t].meta
        BY <3>1, <3>5 DEF TypeInv, TypeOK
      <4> QED BY <3>2, <3>3, <4>1
    <3> QED BY <1>11, <3>4, <3>5 DEF Evict
  <2>2. TailPos(t)' = TailPos(t)
    BY <2>1 DEF TailPos, TailFrom
  <2>3. OldKeys(t)' \subseteq OldKeys(t) /\ (ready => flash[t].meta.write <= meta[t].write)
    BY <1>1, <2>1 DEF OldKeys, NextKey, OrderInv, FlashSorted
  <2> QED BY <1>1, <2>1, <2>2, <2>3, OrderShrink
<1>12. CASE CommitSave(t)
  <2>1. /\ UNCHANGED <<ring, ready, offered, meta>> /\ ready
        /\ flash'[t].data = flash[t].data
        /\ flash'[t].meta \in {flash[t].meta, meta[t]}
        /\ commit[t].pc = "save" /\ commit'[t].pc = "done"
    <3>1. flash[t] = [data |-> flash[t].data, meta |-> flash[t].meta]
      BY <1>1 DEF IsFlash
    <3>2. UNCHANGED <<ring, ready, offered, meta>> /\ commit[t].pc = "save" /\ commit'[t].pc = "done"
      BY <1>12 DEF CommitSave, SavedMeta, TypeInv, TypeOK, At
    <3>3. ready
      BY <3>2 DEF TypeInv, ClaimInv
    <3>4. flash'[t].data = flash[t].data /\ flash'[t].meta \in {flash[t].meta, meta[t]}
      BY <1>12, <3>1 DEF CommitSave, SavedMeta, TypeInv, TypeOK
    <3> QED BY <3>2, <3>3, <3>4
  <2>2. TailPos(t)' = TailPos(t)
    BY <2>1 DEF TailPos, TailFrom
  <2>3. OldKeys(t)' = OldKeys(t)
    BY <2>1 DEF OldKeys, NextKey
  <2>4. flash'[t].meta.write <= meta[t].write
    BY <1>1, <2>1 DEF OrderInv, FlashSorted, Meta
  <2> QED BY <1>1, <2>1, <2>2, <2>3, <2>4, OrderShrink
<1>13. CASE CommitFinish(t)
  <2> DEFINE n == IF commit[t].pc = "done" THEN Chunk ELSE 0
             f == RbFinish(ring[t], n)
  <2>1. n \in Nat /\ n <= ring[t].head - ring[t].tail
    BY <1>1, <1>2, <1>13 DEF CommitFinish, FinishLen, TypeInv, ClaimInv
  <2>2. /\ f.tail = ring[t].tail + n /\ f.put = ring[t].put
        /\ \A p \in (ring[t].tail + n) .. (ring[t].put - 1) : f.slot[p] = ring[t].slot[p]
    BY <1>1, <2>1, RbFinishMoves
  <2>3. /\ ring'[t] = f /\ UNCHANGED <<flash, meta, ready, offered>>
        /\ commit'[t].pc = "idle" /\ TailFrom(t) = ring[t].tail + n
    BY <1>1, <1>2, <1>13 DEF CommitFinish, FinishLen, TypeInv, TypeOK, Idle, TailFrom
  <2>4. n \in Nat
    BY <2>1
  <2> HIDE DEF f, n
  <2>5. TailFrom(t)' = TailFrom(t)
    BY <1>2, <2>2, <2>3, <2>4 DEF TailFrom
  <2>6. TailPos(t)' = TailPos(t)
    BY <2>2, <2>3, <2>5 DEF TailPos
  <2>7. \A p \in (ring[t].tail + n) .. (ring[t].put - 1) : p \in ring[t].tail .. (ring[t].put - 1)
    BY <1>2, <2>4
  <2>8. OldKeys(t)' = OldKeys(t) /\ (ready => flash[t].meta.write <= meta[t].write)
    BY <1>1, <2>3 DEF OldKeys, NextKey, OrderInv, FlashSorted
  <2>9. \A p \in TailPos(t) : f.slot[p] = ring[t].slot[p]
    BY <2>2, <2>3 DEF TailPos
  <2> QED BY <1>1, <2>2, <2>3, <2>6, <2>7, <2>8, <2>9, OrderShrink
<1>14. CASE StreamDrain(t)
  <2>1. PICK n \in 1 .. RbClaimLen(ring[t], RbSize(ring[t]), RingSize[t]) :
          ring' = [ring EXCEPT ![t] = RbFinish(RbClaim(ring[t], n), n)]
    BY <1>14 DEF StreamDrain
  <2> DEFINE r == RbClaim(ring[t], n)
             f == RbFinish(r, n)
  <2>2. n \in Nat /\ n <= RbSize(ring[t])
    BY <1>1, <1>2, RbClaimLenBounds, ConstantsAssumption
  <2>3. commit[t].pc = "idle" /\ ring[t].head = ring[t].tail
    BY <1>14 DEF StreamDrain, TypeInv, ExclusionInv, SysIdle, ClaimInv, Idle
  <2>4. /\ IsRing(r) /\ r.tail = ring[t].tail /\ r.head = ring[t].tail + n
        /\ r.put = ring[t].put /\ r.slot = ring[t].slot
    BY <1>1, <2>2, <2>3, RbClaimIsRing
  <2>5. n <= r.head - r.tail
    BY <2>2, <2>4, RingCursors
  <2>6. /\ f.tail = ring[t].tail + n /\ f.put = ring[t].put
        /\ \A p \in (ring[t].tail + n) .. (ring[t].put - 1) : f.slot[p] = ring[t].slot[p]
    BY <2>2, <2>4, <2>5, RbFinishMoves
  <2>7. /\ ring'[t] = f /\ UNCHANGED <<flash, meta, ready, offered, commit>>
    BY <1>14, <2>1 DEF StreamDrain, TypeInv, TypeOK
  <2> HIDE DEF f
  <2>8. TailFrom(t) = ring[t].tail /\ TailFrom(t)' = ring[t].tail + n
    BY <1>2, <2>2, <2>3, <2>6, <2>7 DEF TailFrom
  <2>9. /\ \A p \in (ring[t].tail + n) .. (ring[t].put - 1) : p \in ring[t].tail .. (ring[t].put - 1)
        /\ \A p \in TailPos(t)' : p \in TailPos(t) /\ f.slot[p] = ring[t].slot[p]
    BY <1>2, <2>2, <2>6, <2>7, <2>8 DEF TailPos
  <2>10. OldKeys(t)' = OldKeys(t) /\ (ready => flash[t].meta.write <= meta[t].write)
    BY <1>1, <2>7 DEF OldKeys, NextKey, OrderInv, FlashSorted
  <2> QED BY <1>1, <2>6, <2>7, <2>9, <2>10, OrderShrink
<1>15. CASE StreamCancel \/ StreamStart \/ StreamStop \/ ClearBegin \/ ClearCancel \/ UNCHANGED vars
  <2>1. UNCHANGED <<ring, flash, meta, ready, offered, commit>>
    BY <1>15 DEF StreamCancel, StreamStart, StreamStop, ClearBegin, ClearCancel, vars
  <2>2. TailFrom(t)' = TailFrom(t) /\ offered[t] <= offered'[t]
    BY <1>1, <2>1 DEF TailFrom
  <2> QED BY <1>3, <2>1, <2>2
<1>16. ASSUME NEW s \in Stores, ClearFlash(s)
       PROVE  OrderInv(t)'
  <2>1. UNCHANGED <<ring, ready, offered, commit>>
    BY <1>16 DEF ClearFlash
  <2>2. TailPos(t)' = TailPos(t)
    BY <2>1 DEF TailPos, TailFrom
  <2>3. CASE s # t
    <3>1. flash'[t] = flash[t] /\ meta'[t] = meta[t]
      BY <1>16, <2>3 DEF ClearFlash, TypeInv, TypeOK
    <3>2. TailFrom(t)' = TailFrom(t) /\ offered[t] <= offered'[t]
      BY <1>1, <2>1 DEF TailFrom
    <3> QED BY <1>1, <2>1, <3>1, <3>2, OrderFrame
  <2>4. CASE s = t
    <3>1. flash'[t] = [data |-> NoData, meta |-> FreshMeta] /\ meta'[t] = FreshMeta
      BY <1>16, <2>4 DEF ClearFlash, TypeInv, TypeOK
    <3>2. DOMAIN flash'[t].data = {} /\ flash'[t].meta.write <= meta'[t].write
      BY <3>1 DEF NoData, FreshMeta
    <3>3. OldKeys(t)' = {}
      BY <3>2 DEF OldKeys
    <3> QED BY <1>1, <2>1, <2>2, <3>2, <3>3, OrderShrink
  <2> QED BY <2>3, <2>4
<1>17. ASSUME ring'[t] = RbEmpty, commit'[t] = Idle, UNCHANGED <<flash, offered>>,
              OldKeys(t)' \subseteq OldKeys(t), ready' => flash[t].meta.write <= meta'[t].write
       PROVE  OrderInv(t)'
  <2>1. ring'[t].tail .. (ring'[t].put - 1) = {} /\ TailPos(t)' = {}
    BY <1>17 DEF RbEmpty, TailPos, TailFrom, Idle
  <2> QED BY <1>1, <1>17, <2>1, OrderShrink
<1>18. CASE ClearRam
  <2>1. commit[t] = Idle /\ UNCHANGED <<flash, meta, ready, offered, commit>> /\ ring'[t] = RbEmpty
    BY <1>18 DEF ClearRam, TypeInv, ExclusionInv, SysIdle
  <2>2. OldKeys(t)' = OldKeys(t) /\ (ready => flash[t].meta.write <= meta[t].write)
    BY <1>1, <2>1 DEF OldKeys, NextKey, OrderInv, FlashSorted
  <2> QED BY <1>17, <2>1, <2>2
<1>19. ASSUME NEW m \in Mountable, NEW r \in Restorable(m), Reboot(m, r)
       PROVE  OrderInv(t)'
  <2>0. "read" \notin Faults
    BY <1>19 DEF Reboot, TypeInv, TypeOK
  <2>1. /\ ring'[t] = RbEmpty /\ commit'[t] = Idle /\ UNCHANGED <<flash, offered>>
        /\ ready' => meta'[t] = flash[t].meta
    BY <1>19, <2>0, RebootRestores DEF Reboot
  <2>2. NextKey(t)' = flash[t].meta.write
    BY <2>1 DEF NextKey
  <2>3. ready => flash[t].meta.write <= meta[t].write
    BY <1>1 DEF OrderInv, FlashSorted
  <2>4. OldKeys(t)' \subseteq OldKeys(t)
    <3> SUFFICES ASSUME NEW k \in OldKeys(t)' PROVE k < NextKey(t)
      BY <2>1 DEF OldKeys
    <3>1. k \in Nat /\ k < flash[t].meta.write
      BY <1>1, <2>1, <2>2 DEF OldKeys, IsFlash
    <3>2. flash[t].meta.write \in Nat /\ meta[t].write \in Nat
      BY <1>1 DEF IsFlash, Meta
    <3> QED BY <2>3, <3>1, <3>2 DEF NextKey
  <2>5. ready' => flash[t].meta.write <= meta'[t].write
    BY <1>1, <2>1 DEF IsFlash, Meta
  <2> QED BY <1>17, <2>1, <2>4, <2>5
<1> QED
  BY <1>4, <1>5, <1>6, <1>7, <1>8, <1>9, <1>10, <1>11, <1>12, <1>13, <1>14, <1>15, <1>16,
     <1>18, <1>19
     DEF Next, CommitStep, ClearStep

\* As long as zms_clear and the read of the metadata at boot do not fail, a
\* download returns every record once and in the order logged, in every
\* reachable state.
THEOREM DownloadIsOrdered ==
  ASSUME "clear" \notin Faults, "read" \notin Faults
  PROVE  Spec => []DownloadOrdered
<1> DEFINE J == TypeInv /\ \A s \in Stores : OrderInv(s)
<1>1. Init => J
  BY TypeInvInit, OrderInit
<1>2. J /\ [Next]_vars => J'
  <2>1. TypeInv /\ [Next]_vars => TypeInv'
    BY TypeInvStep
  <2> QED BY <2>1, OrderStep
<1>3. J => DownloadOrdered
  <2> SUFFICES ASSUME J, NEW s \in Stores, ready
               PROVE  /\ \A k \in LiveKeys(s) : ChunkSorted(flash[s].data[k])
                      /\ \A k, l \in LiveKeys(s) : k < l => Before(flash[s].data[k], flash[s].data[l])
                      /\ \A k \in LiveKeys(s), p \in TailPos(s), i \in Offsets :
                           flash[s].data[k][i] < ring[s].slot[p]
                      /\ \A p, q \in TailPos(s) : p < q => ring[s].slot[p] < ring[s].slot[q]
    BY DEF DownloadOrdered
  <2>1. \A k \in LiveKeys(s) : k \in OldKeys(s)
    BY DEF LiveKeys, OldKeys, NextKey
  <2>2. \A p \in TailPos(s) : p \in ring[s].tail .. (ring[s].put - 1)
    BY RingCursors, ConstantsAssumption DEF TailPos, TailFrom, TypeInv, TypeOK
  <2> QED
    BY <2>1, <2>2 DEF OrderInv, FlashSorted, FlashBeforeRing, RingSorted
<1> HIDE DEF J
<1> QED
  BY <1>1, <1>2, <1>3, PTL DEF Spec

-----------------------------------------------------------------------------
(***************************************************************************)
(* Claims in one piece.                                                    *)
(***************************************************************************)
\* Only whole chunks have left the tail.
TailWhole(s) == \E m \in Nat : ring[s].tail = m * Chunk

WholeInv ==
  /\ ~active
  /\ \A s \in Stores : TailWhole(s)

\* Consuming one more chunk, or starting over, keeps the tail whole.
LEMMA TailKeptWhole ==
  ASSUME NEW s \in Stores, TailWhole(s), IsRing(ring[s]),
         ring'[s].tail \in {ring[s].tail, ring[s].tail + Chunk, 0}
  PROVE  TailWhole(s)'
<1>1. PICK m \in Nat : ring[s].tail = m * Chunk
  BY DEF TailWhole
<1>2. /\ m + 1 \in Nat /\ ring[s].tail + Chunk = (m + 1) * Chunk
      /\ 0 \in Nat /\ 0 = 0 * Chunk
  BY <1>1, ConstantsAssumption
<1> QED
  BY <1>1, <1>2 DEF TailWhole

LEMMA WholeStep ==
  ASSUME ~Streams, TypeInv, WholeInv, [Next]_vars
  PROVE  WholeInv'
<1> USE DEF TypeInv, TypeOK, WholeInv
<1>1. ~active'
  BY DEF Next, CommitStep, ClearStep, vars, PutRefused, PutAccepted, CommitSkip, CommitShort,
         CommitClaim, CommitStore, Evict, CommitFail, CommitSave, CommitFinish, StreamCancel,
         StreamStart, StreamDrain, StreamStop, ClearBegin, ClearCancel, ClearFlash, ClearRam, Reboot
<1> SUFFICES ASSUME NEW t \in Stores
             PROVE  TailWhole(t)'
  BY <1>1
<1>2. IsRing(ring[t]) /\ Chunk \in Nat \ {0} /\ TailWhole(t)
  BY ConstantsAssumption
<1>3. CASE ring'[t].tail \in {ring[t].tail, ring[t].tail + Chunk, 0}
  BY <1>2, <1>3, TailKeptWhole
<1>4. CASE UNCHANGED ring
  BY <1>3, <1>4
<1>5. ASSUME NEW s \in Stores, PutAccepted(s)
      PROVE  ring'[t].tail = ring[t].tail
  BY <1>5 DEF PutAccepted, RbPut
<1>6. ASSUME NEW s \in Stores, CommitShort(s)
      PROVE  ring'[t].tail = ring[t].tail
  <2>1. Claimed(s) \in Nat /\ Claimed(s) <= RbSize(ring[s]) /\ IsRing(ring[s])
    BY RbClaimLenBounds, ConstantsAssumption DEF Claimed
  <2> DEFINE r == RbClaim(ring[s], Claimed(s))
  <2>2. IsRing(r) /\ r.tail = ring[s].tail
    BY <2>1, RbClaimIsRing
  <2>3. 0 \in Nat /\ 0 <= r.head - r.tail /\ r.tail + 0 = r.tail
    BY <2>2, RingCursors
  <2>4. RbFinish(r, 0).tail = ring[s].tail
    BY <2>2, <2>3, RbFinishMoves
  <2>5. ring' = [ring EXCEPT ![s] = RbFinish(r, 0)]
    BY <1>6 DEF CommitShort
  <2> QED BY <2>4, <2>5
<1>7. ASSUME NEW s \in Stores, CommitClaim(s)
      PROVE  ring'[t].tail = ring[t].tail
  <2>1. IsRing(ring[s]) /\ Chunk \in Nat /\ RingSize[s] \in Nat \ {0}
    BY ConstantsAssumption
  <2>a. Chunk <= RbSize(ring[s])
    BY <1>7, <2>1, RbClaimLenBounds DEF CommitClaim, Claimed
  <2>2. RbClaim(ring[s], Chunk).tail = ring[s].tail
    BY <2>1, <2>a, RbClaimIsRing
  <2> QED BY <1>7, <2>2 DEF CommitClaim
<1>8. ASSUME NEW s \in Stores, CommitFinish(s)
      PROVE  ring'[t].tail \in {ring[t].tail, ring[t].tail + Chunk}
  <2> DEFINE n == FinishLen(s)
             f == RbFinish(ring[s], n)
  <2>1. n \in {0, Chunk} /\ n \in Nat /\ IsRing(ring[s])
    BY ConstantsAssumption DEF FinishLen
  <2>2. f.tail \in {ring[s].tail, ring[s].tail + n}
    BY <2>1, RbFinishMoves DEF RbFinish
  <2>3. f.tail \in {ring[s].tail, ring[s].tail + Chunk}
    BY <2>1, <2>2 DEF IsRing
  <2>4. ring' = [ring EXCEPT ![s] = f]
    BY <1>8 DEF CommitFinish
  <2> QED BY <2>3, <2>4
<1>9. ASSUME ClearRam \/ \E m \in Mountable : \E r \in Restorable(m) : Reboot(m, r)
      PROVE  ring'[t].tail = 0
  BY <1>9 DEF ClearRam, Reboot, RbEmpty
<1> QED
  BY <1>3, <1>4, <1>5, <1>6, <1>7, <1>8, <1>9
     DEF Next, CommitStep, ClearStep, vars, PutRefused, CommitSkip, CommitStore, Evict, CommitFail,
         CommitSave, StreamCancel, StreamStart, StreamDrain, StreamStop, ClearBegin, ClearCancel,
         ClearFlash

\* As long as no download takes records out of the tail, a chunk that has
\* accumulated can always be claimed in one piece: the ring holds whole chunks
\* and its tail moves by whole chunks.  (With downloads the property fails.)
THEOREM ChunkInOnePiece ==
  ASSUME ~Streams
  PROVE  Spec => []ChunkClaimable
<1> DEFINE J == TypeInv /\ WholeInv
<1>1. Init => J
  <2> SUFFICES ASSUME Init PROVE WholeInv
    BY TypeInvInit
  <2>1. 0 \in Nat /\ 0 = 0 * Chunk
    BY ConstantsAssumption
  <2>2. \A s \in Stores : ring[s].tail = 0
    BY DEF Init, RbEmpty
  <2> QED BY <2>1, <2>2 DEF Init, WholeInv, TailWhole
<1>2. J /\ [Next]_vars => J'
  BY TypeInvStep, WholeStep
<1>3. J => ChunkClaimable
  <2> SUFFICES ASSUME J, NEW s \in Stores, commit[s] = Idle, RbSize(ring[s]) >= Chunk
               PROVE  Claimed(s) = Chunk
    BY DEF ChunkClaimable
  <2>1. IsRing(ring[s]) /\ ring[s].head = ring[s].tail
    BY DEF TypeInv, TypeOK, ClaimInv, Idle
  <2>2. PICK m \in Nat : ring[s].tail = m * Chunk
    BY DEF WholeInv, TailWhole
  <2>3. Chunk \in Nat \ {0} /\ RingSize[s] \in Nat \ {0} /\ RingSize[s] % Chunk = 0
    BY ConstantsAssumption
  <2>4. PICK n \in Nat \ {0} : RingSize[s] = n * Chunk
    BY <2>3, WholeChunks
  <2>5. ring[s].head % RingSize[s] <= RingSize[s] - Chunk
    BY <2>1, <2>2, <2>3, <2>4, ModWhole
  <2>6. ring[s].head % RingSize[s] \in Nat /\ RbSize(ring[s]) \in Nat
    BY <2>1, <2>3, RingCursors
  <2>7. RbContig(ring[s], RingSize[s]) >= Chunk
    BY <2>3, <2>5, <2>6 DEF RbContig
  <2>8. RbContig(ring[s], RingSize[s]) \in Int
    BY <2>3, <2>6 DEF RbContig
  <2> QED
    BY <2>3, <2>6, <2>7, <2>8 DEF Claimed, RbClaimLen
<1> HIDE DEF J
<1> QED
  BY <1>1, <1>2, <1>3, PTL DEF Spec

-----------------------------------------------------------------------------
(***************************************************************************)
(* Orphans.                                                                *)
(***************************************************************************)
\* The keys present lie between the saved metadata's oldest and next key, and
\* only a data write that is not saved yet puts the RAM metadata ahead of it.
Unsaved(s) == IF commit[s].pc = "save" THEN 1 ELSE 0

KeysInv(s) ==
  /\ \A k \in DOMAIN flash[s].data : flash[s].meta.oldest <= k /\ k <= flash[s].meta.write
  /\ ready => /\ meta[s].write = flash[s].meta.write + Unsaved(s)
              /\ \A k \in DOMAIN flash[s].data : meta[s].oldest <= k

\* What each flash operation of a commit, and of a clear, does to its store.
LEMMA StoreEffect ==
  ASSUME NEW s \in Stores, TypeOK, CommitStore(s)
  PROVE  /\ flash'[s].data = [k \in DOMAIN flash[s].data \cup {meta[s].write} |->
                                IF k = meta[s].write THEN ChunkOf(s) ELSE flash[s].data[k]]
         /\ flash'[s].meta = flash[s].meta
         /\ meta'[s] = Appended(meta[s])
         /\ commit'[s] = At("save")
         /\ UNCHANGED <<ring, ready, offered, reboots>>
<1>0. /\ DOMAIN flash = Stores /\ flash[s] = [data |-> flash[s].data, meta |-> flash[s].meta]
      /\ DOMAIN meta = Stores /\ DOMAIN commit = Stores
  BY DEF TypeOK, IsFlash
<1> DEFINE d == [k \in DOMAIN flash[s].data \cup {meta[s].write} |->
                   IF k = meta[s].write THEN ChunkOf(s) ELSE flash[s].data[k]]
<1>1. flash' = [flash EXCEPT ![s].data = d]
  BY Zenon DEF CommitStore
<1>2. UNCHANGED <<ring, ready, offered, reboots>>
  BY Zenon DEF CommitStore
<1> HIDE DEF d
<1>3. flash'[s].data = d /\ flash'[s].meta = flash[s].meta
  BY <1>1, <1>0
<1>4. meta'[s] = Appended(meta[s]) /\ commit'[s] = At("save")
  BY <1>0 DEF CommitStore
<1> QED
  BY <1>2, <1>3, <1>4 DEF d

LEMMA EvictEffect ==
  ASSUME NEW s \in Stores, TypeOK, Evict(s)
  PROVE  /\ \/ flash'[s].data = [k \in DOMAIN flash[s].data \ {Victim(s)} |-> flash[s].data[k]]
            \/ "delete" \in Faults /\ flash'[s].data = flash[s].data
         /\ flash'[s].meta = flash[s].meta
         /\ meta'[s] = Evicted(meta[s])
         /\ commit'[s] = IF LastAttempt(s) THEN At("fail")
                         ELSE [pc |-> "write", attempt |-> commit[s].attempt + 1]
         /\ UNCHANGED <<ring, ready, offered, reboots>>
<1>0. /\ DOMAIN flash = Stores /\ flash[s] = [data |-> flash[s].data, meta |-> flash[s].meta]
      /\ DOMAIN meta = Stores /\ DOMAIN commit = Stores
  BY DEF TypeOK, IsFlash
<1> DEFINE d == [k \in DOMAIN flash[s].data \ {Victim(s)} |-> flash[s].data[k]]
<1>1. flash' = [flash EXCEPT ![s].data = d] \/ ("delete" \in Faults /\ flash' = flash)
  BY Zenon DEF Evict
<1>2. UNCHANGED <<ring, ready, offered, reboots>>
  BY Zenon DEF Evict
<1> HIDE DEF d
<1>3. /\ flash'[s].data = d \/ ("delete" \in Faults /\ flash'[s].data = flash[s].data)
      /\ flash'[s].meta = flash[s].meta
  BY <1>1, <1>0
<1>4. /\ meta'[s] = Evicted(meta[s])
      /\ commit'[s] = IF LastAttempt(s) THEN At("fail")
                      ELSE [pc |-> "write", attempt |-> commit[s].attempt + 1]
  BY <1>0 DEF Evict
<1> QED
  BY <1>2, <1>3, <1>4 DEF d

LEMMA SaveEffect ==
  ASSUME NEW s \in Stores, TypeOK, CommitSave(s)
  PROVE  /\ flash'[s].data = flash[s].data
         /\ \/ flash'[s].meta = meta[s]
            \/ "meta" \in Faults /\ flash'[s].meta = flash[s].meta
         /\ commit'[s] = At("done")
         /\ UNCHANGED <<ring, meta, ready, offered, reboots>>
<1>0. /\ DOMAIN flash = Stores /\ flash[s] = [data |-> flash[s].data, meta |-> flash[s].meta]
      /\ DOMAIN meta = Stores /\ DOMAIN commit = Stores
  BY DEF TypeOK, IsFlash
<1>1. UNCHANGED <<ring, meta, ready, offered, reboots>>
  BY Zenon DEF CommitSave
<1> QED
  BY <1>1, <1>0 DEF CommitSave, SavedMeta

LEMMA ClearEffect ==
  ASSUME NEW s \in Stores, TypeOK, ClearFlash(s)
  PROVE  /\ \/ flash'[s].data = NoData /\ flash'[s].meta = FreshMeta
            \/ "clear" \in Faults /\ flash'[s] = flash[s]
         /\ meta'[s] = FreshMeta
         /\ UNCHANGED <<ring, commit, ready, offered, reboots>>
<1>0. /\ DOMAIN flash = Stores /\ flash[s] = [data |-> flash[s].data, meta |-> flash[s].meta]
      /\ DOMAIN meta = Stores /\ DOMAIN commit = Stores
  BY DEF TypeOK, IsFlash
<1>1. UNCHANGED <<ring, commit, ready, offered, reboots>>
  BY Zenon DEF ClearFlash
<1> QED
  BY <1>1, <1>0 DEF ClearFlash

\* The steps that touch neither partition nor metadata.
QuietStep ==
  \/ \E s \in Stores : \/ PutRefused(s) \/ PutAccepted(s) \/ CommitSkip(s) \/ CommitShort(s)
                       \/ CommitClaim(s) \/ CommitFail(s) \/ CommitFinish(s) \/ StreamDrain(s)
  \/ StreamCancel \/ StreamStart \/ StreamStop \/ ClearBegin \/ ClearCancel \/ ClearRam
  \/ UNCHANGED vars

LEMMA QuietSteps ==
  ASSUME NEW t \in Stores, TypeOK, QuietStep
  PROVE  /\ UNCHANGED <<flash, meta, ready, reboots>>
         /\ commit[t].pc = "save" <=> commit'[t].pc = "save"
<1>1. UNCHANGED <<flash, meta, ready, reboots>>
  <2>1. ASSUME NEW s \in Stores, PutRefused(s) \/ PutAccepted(s) \/ CommitSkip(s) \/ CommitShort(s)
        PROVE  UNCHANGED <<flash, meta, ready, reboots>>
    BY <2>1, Zenon DEF PutRefused, PutAccepted, CommitSkip, CommitShort
  <2>2. ASSUME NEW s \in Stores, CommitClaim(s) \/ CommitFail(s) \/ CommitFinish(s) \/ StreamDrain(s)
        PROVE  UNCHANGED <<flash, meta, ready, reboots>>
    BY <2>2, Zenon DEF CommitClaim, CommitFail, CommitFinish, StreamDrain
  <2>3. CASE StreamCancel \/ StreamStart \/ StreamStop \/ ClearBegin \/ ClearCancel \/ ClearRam
             \/ UNCHANGED vars
    BY <2>3, Zenon DEF StreamCancel, StreamStart, StreamStop, ClearBegin, ClearCancel, ClearRam, vars
  <2> QED BY <2>1, <2>2, <2>3, Zenon DEF QuietStep
<1>2. CASE commit' = commit
  BY <1>1, <1>2
<1>3. ASSUME NEW s \in Stores, CommitClaim(s) \/ CommitFail(s) \/ CommitFinish(s)
      PROVE  commit[t].pc = "save" <=> commit'[t].pc = "save"
  <2>1. /\ \E c \in {Idle, At("write"), At("fail")} : commit' = [commit EXCEPT ![s] = c]
        /\ commit[s].pc # "save"
    BY <1>3 DEF CommitClaim, CommitFail, CommitFinish, SysIdle, Idle
  <2>2. DOMAIN commit = Stores
    BY DEF TypeOK
  <2> QED BY <2>1, <2>2 DEF At, Idle
<1> QED
  BY <1>1, <1>2, <1>3
     DEF QuietStep, PutRefused, PutAccepted, CommitSkip, CommitShort, StreamDrain, StreamCancel,
         StreamStart, StreamStop, ClearBegin, ClearCancel, ClearRam, vars

\* A flash operation on one store leaves the other alone.
LEMMA OtherStore ==
  ASSUME NEW s \in Stores, NEW t \in Stores, s # t, TypeOK,
         CommitStore(s) \/ Evict(s) \/ CommitSave(s) \/ ClearFlash(s)
  PROVE  /\ flash'[t] = flash[t] /\ meta'[t] = meta[t] /\ commit'[t] = commit[t]
         /\ UNCHANGED <<ring, ready, offered, reboots>>
<1>1. UNCHANGED <<ring, ready, offered, reboots>>
  BY Zenon DEF CommitStore, Evict, CommitSave, ClearFlash
<1>2. flash'[t] = flash[t] /\ meta'[t] = meta[t] /\ commit'[t] = commit[t]
  BY DEF CommitStore, Evict, CommitSave, ClearFlash, TypeOK
<1> QED BY <1>1, <1>2

LEMMA NextSplit ==
  ASSUME [Next]_vars
  PROVE  \/ QuietStep
         \/ \E s \in Stores : CommitStore(s) \/ Evict(s) \/ CommitSave(s) \/ ClearFlash(s)
         \/ \E m \in Mountable : \E r \in Restorable(m) : Reboot(m, r)
BY DEF Next, CommitStep, ClearStep, QuietStep

LEMMA KeysStep ==
  ASSUME Faults \subseteq {"write", "mount"}, TypeInv, [Next]_vars, NEW t \in Stores,
         KeysInv(t), SpanInv(t)
  PROVE  KeysInv(t)'
<1> USE DEF TypeInv
<1>1. /\ IsFlash(flash[t]) /\ meta[t] \in Meta /\ flash[t].meta \in Meta
      /\ DOMAIN flash[t].data \subseteq Nat
      /\ meta[t].write \in Nat /\ meta[t].oldest \in Nat /\ meta[t].count \in Nat
      /\ flash[t].meta.write \in Nat /\ flash[t].meta.oldest \in Nat
      /\ meta[t].oldest <= meta[t].write
  BY DEF TypeOK, IsFlash, Meta, SpanInv
<1>0. /\ "delete" \notin Faults /\ "meta" \notin Faults /\ "clear" \notin Faults
      /\ "read" \notin Faults
  OBVIOUS
<1>2. CASE /\ flash'[t] = flash[t] /\ meta'[t] = meta[t] /\ ready' = ready
           /\ commit[t].pc = "save" <=> commit'[t].pc = "save"
  BY <1>2 DEF KeysInv, Unsaved
<1>3. CASE QuietStep
  BY <1>2, <1>3, QuietSteps
<1>4. ASSUME NEW s \in Stores, s # t, CommitStore(s) \/ Evict(s) \/ CommitSave(s) \/ ClearFlash(s)
      PROVE  KeysInv(t)'
  BY <1>2, <1>4, OtherStore
<1>5. CASE CommitStore(t)
  <2>1. commit[t].pc = "write" /\ ready
    BY <1>5 DEF CommitStore, ClaimInv
  <2>2. /\ DOMAIN flash'[t].data = DOMAIN flash[t].data \cup {meta[t].write}
        /\ flash'[t].meta = flash[t].meta /\ meta'[t] = Appended(meta[t])
        /\ commit'[t].pc = "save" /\ ready' = ready
    <3>1. DOMAIN flash'[t].data = DOMAIN flash[t].data \cup {meta[t].write}
      BY <1>5, StoreEffect
    <3>2. flash'[t].meta = flash[t].meta /\ meta'[t] = Appended(meta[t])
      BY <1>5, StoreEffect
    <3>3. commit'[t].pc = "save"
      <4>1. commit'[t] = At("save")
        BY <1>5, StoreEffect
      <4> QED BY <4>1 DEF At
    <3>4. ready' = ready
      BY <1>5, StoreEffect, Zenon
    <3> QED BY <3>1, <3>2, <3>3, <3>4
  <2>3. meta[t].write = flash[t].meta.write
    BY <2>1, <1>1 DEF KeysInv, Unsaved
  <2>4. flash[t].meta.oldest <= flash[t].meta.write
    BY <1>1 DEF SpanInv, IsFlash, Meta
  <2> QED BY <1>1, <2>1, <2>2, <2>3, <2>4 DEF KeysInv, Unsaved, Appended
<1>6. CASE Evict(t)
  <2>1. commit[t].pc = "write" /\ ready
    BY <1>6 DEF Evict, ClaimInv
  <2>2. /\ DOMAIN flash'[t].data = DOMAIN flash[t].data \ {meta[t].oldest}
        /\ flash'[t].meta = flash[t].meta /\ meta'[t] = Evicted(meta[t])
        /\ commit'[t].pc # "save" /\ ready' = ready
    <3>1. DOMAIN flash'[t].data = DOMAIN flash[t].data \ {meta[t].oldest}
      BY <1>0, <1>6, EvictEffect DEF Victim
    <3>2. flash'[t].meta = flash[t].meta /\ meta'[t] = Evicted(meta[t])
      BY <1>6, EvictEffect
    <3>3. commit'[t].pc # "save"
      <4>1. commit'[t] = At("fail") \/ commit'[t] = [pc |-> "write", attempt |-> commit[t].attempt + 1]
        BY <1>6, EvictEffect
      <4> QED BY <4>1 DEF At
    <3>4. ready' = ready
      BY <1>6, EvictEffect, Zenon
    <3> QED BY <3>1, <3>2, <3>3, <3>4
  <2>3. \A k \in DOMAIN flash'[t].data : k \in Nat /\ meta[t].oldest <= k /\ k # meta[t].oldest
    BY <1>1, <2>1, <2>2 DEF KeysInv
  <2>4. \A k \in DOMAIN flash'[t].data : meta[t].oldest + 1 <= k
    BY <1>1, <2>3
  <2> QED BY <1>1, <2>1, <2>2, <2>4 DEF KeysInv, Unsaved, Evicted
<1>7. CASE CommitSave(t)
  <2>1. commit[t].pc = "save" /\ ready
    BY <1>7 DEF CommitSave, ClaimInv
  <2>2. /\ flash'[t].data = flash[t].data /\ flash'[t].meta = meta[t]
        /\ meta'[t] = meta[t] /\ commit'[t].pc # "save" /\ ready' = ready
    BY <1>0, <1>7, SaveEffect DEF At
  <2> QED BY <1>1, <2>1, <2>2 DEF KeysInv, Unsaved
<1>8. CASE ClearFlash(t)
  <2>1. commit[t].pc # "save"
    BY <1>8 DEF ClearFlash, ExclusionInv, SysIdle, Idle, Stores
  <2>2. /\ DOMAIN flash'[t].data = {} /\ flash'[t].meta = FreshMeta /\ meta'[t] = FreshMeta
        /\ commit'[t].pc # "save"
    BY <1>0, <1>8, <2>1, ClearEffect DEF NoData
  <2> QED BY <2>2 DEF KeysInv, Unsaved, FreshMeta
<1>9. ASSUME NEW m \in Mountable, NEW r \in Restorable(m), Reboot(m, r)
      PROVE  KeysInv(t)'
  <2>1. /\ flash' = flash /\ (ready' => meta'[t] = flash[t].meta) /\ commit'[t] = Idle
    BY <1>0, <1>9, RebootRestores DEF Reboot
  <2> QED BY <1>1, <2>1 DEF KeysInv, Unsaved, Idle
<1> QED
  BY <1>3, <1>4, <1>5, <1>6, <1>7, <1>8, <1>9, NextSplit

\* A failing write or mount and a power loss between any two steps of any
\* number of commits leave at most one entry outside the live keys.
THEOREM OneOrphanOnly ==
  ASSUME Faults \subseteq {"write", "mount"}
  PROVE  Spec => []OneOrphan
<1> DEFINE J == TypeInv /\ \A s \in Stores : SpanInv(s) /\ KeysInv(s)
<1>1. Init => J
  BY TypeInvInit DEF Init, SpanInv, KeysInv, Unsaved, FreshMeta, NoData, Idle
<1>2. J /\ [Next]_vars => J'
  BY TypeInvStep, SpanInvStep, KeysStep
<1>3. J => OneOrphan
  <2> SUFFICES ASSUME J, NEW s \in Stores, ready
               PROVE  Cardinality(DOMAIN flash[s].data \ LiveKeys(s)) <= 1
    BY DEF OneOrphan
  <2>1. /\ DOMAIN flash[s].data \subseteq Nat /\ meta[s].write \in Nat
        /\ flash[s].meta.write \in Nat /\ meta[s].oldest \in Nat
    BY DEF TypeInv, TypeOK, IsFlash, Meta
  <2>2. DOMAIN flash[s].data \ LiveKeys(s) \subseteq {flash[s].meta.write}
    BY <2>1 DEF KeysInv, Unsaved, LiveKeys
  <2>3. IsFiniteSet({flash[s].meta.write}) /\ Cardinality({flash[s].meta.write}) = 1
    BY FS_Singleton
  <2> HIDE DEF J
  <2>4. Cardinality(DOMAIN flash[s].data \ LiveKeys(s)) <= Cardinality({flash[s].meta.write})
    BY <2>2, <2>3, FS_Subset
  <2> QED BY <2>3, <2>4
<1> HIDE DEF J
<1> QED
  BY <1>1, <1>2, <1>3, PTL DEF Spec

-----------------------------------------------------------------------------
(***************************************************************************)
(* Overwriting always finds room.                                          *)
(***************************************************************************)
\* The keys present from key l on: all up to the next key of the saved metadata,
\* and perhaps an orphan at that key.
PresentFrom(s, l) ==
  LET f == flash[s].meta IN
  /\ DOMAIN flash[s].data \ {f.write} = l .. (f.write - 1)
  /\ f.oldest <= l /\ l <= f.write
  /\ Cardinality(DOMAIN flash[s].data) <= Slots

\* Every reset leaves at most one key between the saved oldest key and the first
\* key present.  An eviction passes those first, then frees one slot and is over.
EvictAt(s, l) ==
  LET f == flash[s].meta
      m == meta[s]
      gone == l - f.oldest
  IN
  /\ PresentFrom(s, l)
  /\ commit[s].pc # "fail"
  /\ commit[s].pc \in {"idle", "done"} => gone <= reboots /\ (ready => m = f)
  /\ commit[s].pc = "write" =>
       /\ m.write = f.write
       /\ commit[s].attempt = m.oldest - f.oldest
       /\ m.oldest <= l
       /\ \/ gone <= reboots
          \/ m.oldest = l /\ gone <= reboots + 1 /\ Cardinality(DOMAIN flash[s].data) < Slots
  /\ commit[s].pc = "save" =>
       /\ f.write \in DOMAIN flash[s].data
       /\ m.write = f.write + 1
       /\ f.oldest <= m.oldest /\ m.oldest <= l
       /\ gone <= reboots + 1 /\ l - m.oldest <= reboots

EvictInv(s) == reboots < MaxEvict - 1 => \E l \in Nat : EvictAt(s, l)

\* Facts about one store that every case below uses.
LEMMA EvictTyped ==
  ASSUME TypeInv, NEW s \in Stores
  PROVE  /\ meta[s] \in Meta /\ flash[s].meta \in Meta
         /\ DOMAIN flash[s].data \subseteq Nat
         /\ meta[s].write \in Nat /\ meta[s].oldest \in Nat /\ meta[s].count \in Nat
         /\ flash[s].meta.write \in Nat /\ flash[s].meta.oldest \in Nat
         /\ commit[s].attempt \in Nat
         /\ commit[s].pc \in {"idle", "write", "save", "done", "fail"}
         /\ reboots \in Nat
BY DEF TypeInv, TypeOK, IsFlash, Meta

\* The keys present are finitely many.
LEMMA PresentFinite ==
  ASSUME NEW D, NEW w \in Nat, NEW l \in Nat, D \ {w} = l .. (w - 1)
  PROVE  /\ IsFiniteSet(D) /\ Cardinality(D) \in Nat
         /\ l = w => Cardinality(D) <= 1
<1>1. IsFiniteSet(l .. (w - 1)) /\ IsFiniteSet({w}) /\ Cardinality({w}) = 1
  <2>1. l \in Int /\ w - 1 \in Int
    OBVIOUS
  <2>2. IsFiniteSet(l .. (w - 1))
    BY <2>1, FS_Interval
  <2> QED BY <2>2, FS_Singleton
<1>2. IsFiniteSet((l .. (w - 1)) \cup {w})
  BY <1>1, FS_Union
<1>3. D \subseteq (l .. (w - 1)) \cup {w}
  OBVIOUS
<1>4. IsFiniteSet(D) /\ Cardinality(D) \in Nat
  BY <1>2, <1>3, FS_Subset, FS_CardinalityType
<1>5. ASSUME l = w PROVE Cardinality(D) <= 1
  <2>1. D \subseteq {w}
    BY <1>3, <1>5
  <2> QED BY <1>1, <2>1, FS_Subset
<1> QED
  BY <1>4, <1>5

\* A data write keeps the keys below it and finds or takes a slot.
LEMMA EvictStore ==
  ASSUME TypeInv, NEW s \in Stores, NEW l \in Nat, EvictAt(s, l), CommitStore(s)
  PROVE  EvictAt(s, l)'
<1> DEFINE f == flash[s].meta
<1>1. commit[s].pc = "write" /\ f.write = meta[s].write
  BY DEF CommitStore, EvictAt
<1>2. DOMAIN flash'[s].data = DOMAIN flash[s].data \cup {f.write}
  BY <1>1, StoreEffect DEF TypeInv
<1>3. flash'[s].meta = f /\ meta'[s] = Appended(meta[s])
  BY StoreEffect DEF TypeInv
<1>4. commit'[s].pc = "save"
  <2>1. commit'[s] = At("save")
    BY StoreEffect DEF TypeInv
  <2> QED BY <2>1 DEF At
<1>5. reboots' = reboots
  BY DEF CommitStore
<1>6. Cardinality(DOMAIN flash'[s].data) <= Slots
  BY <1>1, <1>2 DEF CommitStore, Fits
<1>7. PresentFrom(s, l)'
  BY <1>2, <1>3, <1>6 DEF EvictAt, PresentFrom
<1>8. /\ meta'[s].write = f.write + 1 /\ meta'[s].oldest = meta[s].oldest
      /\ f.oldest <= meta[s].oldest /\ meta[s].oldest <= l
      /\ l - f.oldest <= reboots + 1 /\ l - meta[s].oldest <= reboots
  BY <1>1, <1>3, EvictTyped DEF EvictAt, Appended
<1> QED
  BY <1>2, <1>3, <1>4, <1>5, <1>7, <1>8 DEF EvictAt

\* An eviction passes a key that is gone, or frees the first key present; it is
\* never the last one allowed.
LEMMA EvictEvict ==
  ASSUME "delete" \notin Faults, TypeInv, NEW s \in Stores, SpanInv(s), NEW l \in Nat,
         EvictAt(s, l), reboots < MaxEvict - 1, Evict(s)
  PROVE  \E n \in Nat : EvictAt(s, n)'
<1> DEFINE f == flash[s].meta
           m == meta[s]
           D == DOMAIN flash[s].data
<1>1. /\ commit[s].pc = "write" /\ Cardinality(D) >= Slots /\ m.count > 0
  BY DEF Evict, NoSpace, CanEvict
<1>2. DOMAIN flash'[s].data = D \ {m.oldest}
  BY EvictEffect DEF TypeInv, Victim
<1>3. flash'[s].meta = f /\ meta'[s] = Evicted(m)
  BY EvictEffect DEF TypeInv
<1>4. reboots' = reboots
  BY DEF Evict
<1>5. /\ Slots \in Nat /\ MaxEvict \in Nat /\ f.write \in Nat /\ f.oldest \in Nat
      /\ m.oldest \in Nat /\ m.write \in Nat /\ reboots \in Nat /\ commit[s].attempt \in Nat
  BY EvictTyped, ConstantsAssumption
<1>6. IsFiniteSet(D) /\ Cardinality(D) \in Nat /\ Cardinality(D) <= Slots
  BY <1>5, PresentFinite DEF EvictAt, PresentFrom
<1>7. /\ m.write = f.write /\ commit[s].attempt = m.oldest - f.oldest
      /\ m.oldest <= l /\ l - f.oldest <= reboots
      /\ D \ {f.write} = l .. (f.write - 1) /\ f.oldest <= l /\ l <= f.write
  <2>1. ~(Cardinality(D) < Slots)
    BY <1>1, <1>5, <1>6
  <2> QED BY <1>1, <2>1 DEF EvictAt, PresentFrom
<1>8. m.oldest < f.write
  <2>1. m.count = m.write - m.oldest
    BY DEF SpanInv
  <2> QED BY <1>1, <1>5, <1>7, <2>1
<1>9. ~LastAttempt(s)
  BY <1>5, <1>7 DEF LastAttempt
<1>10. commit'[s].pc = "write" /\ commit'[s].attempt = commit[s].attempt + 1
  <2>1. commit'[s] = [pc |-> "write", attempt |-> commit[s].attempt + 1]
    BY <1>9, EvictEffect DEF TypeInv
  <2> QED BY <2>1
<1>11. meta'[s].write = f.write /\ meta'[s].oldest = m.oldest + 1
  BY <1>3, <1>7 DEF Evicted
<1> HIDE DEF f, m, D
<1>12. CASE m.oldest < l
  <2>1. m.oldest \notin D
    BY <1>5, <1>7, <1>8, <1>12
  <2>2. DOMAIN flash'[s].data = D
    BY <1>2, <2>1
  <2>3. PresentFrom(s, l)'
    BY <1>3, <1>6, <1>7, <2>2 DEF PresentFrom
  <2>4. m.oldest + 1 <= l /\ commit[s].attempt + 1 = (m.oldest + 1) - f.oldest
    BY <1>5, <1>7, <1>12
  <2>5. EvictAt(s, l)'
    BY <1>3, <1>4, <1>7, <1>10, <1>11, <2>3, <2>4 DEF EvictAt
  <2> QED BY <2>5
<1>13. CASE m.oldest = l
  <2>1. l \in D
    BY <1>5, <1>7, <1>8, <1>13
  <2>2. Cardinality(D \ {l}) = Cardinality(D) - 1
    BY <1>6, <2>1, FS_RemoveElement
  <2>3. (D \ {l}) \ {f.write} = (l + 1) .. (f.write - 1)
    BY <1>5, <1>7
  <2>4. /\ l + 1 \in Nat /\ f.oldest <= l + 1 /\ l + 1 <= f.write
        /\ Cardinality(D \ {l}) < Slots /\ Cardinality(D \ {l}) <= Slots
        /\ (l + 1) - f.oldest <= reboots + 1
        /\ commit[s].attempt + 1 = (l + 1) - f.oldest
    BY <1>5, <1>6, <1>7, <1>8, <1>13, <2>2
  <2>5. PresentFrom(s, l + 1)'
    BY <1>2, <1>3, <1>13, <2>3, <2>4 DEF PresentFrom
  <2>6. EvictAt(s, l + 1)'
    BY <1>2, <1>3, <1>4, <1>10, <1>11, <1>13, <2>4, <2>5 DEF EvictAt
  <2> QED BY <2>4, <2>6
<1> QED
  BY <1>5, <1>7, <1>12, <1>13

\* A full partition is never out of counted entries.
LEMMA NeverFails ==
  ASSUME Overwrite, Slots >= 2, "write" \notin Faults, TypeInv, NEW s \in Stores, SpanInv(s),
         NEW l \in Nat, EvictAt(s, l)
  PROVE  ~CommitFail(s)
<1> SUFFICES ASSUME commit[s].pc = "write", NoSpace(s), ~CanEvict(s)
             PROVE  FALSE
  BY DEF CommitFail
<1> DEFINE f == flash[s].meta
           m == meta[s]
           D == DOMAIN flash[s].data
<1>1. /\ Slots \in Nat /\ f.write \in Nat /\ m.oldest \in Nat /\ m.write \in Nat /\ m.count \in Nat
  BY EvictTyped, ConstantsAssumption
<1>2. IsFiniteSet(D) /\ Cardinality(D) \in Nat /\ (l = f.write => Cardinality(D) <= 1)
  BY <1>1, PresentFinite DEF EvictAt, PresentFrom
<1>3. Cardinality(D) >= Slots /\ m.count = 0
  BY <1>1 DEF NoSpace, CanEvict
<1>4. m.oldest <= l /\ l <= f.write /\ m.write = f.write
  BY DEF EvictAt, PresentFrom
<1>5. m.oldest = m.write
  BY <1>1, <1>3 DEF SpanInv
<1>6. l = f.write
  BY <1>1, <1>4, <1>5
<1> QED
  BY <1>1, <1>2, <1>3, <1>6

LEMMA EvictStep ==
  ASSUME Overwrite, Slots >= 2, Faults \subseteq {"mount"}, TypeInv, [Next]_vars,
         NEW t \in Stores, SpanInv(t), EvictInv(t)
  PROVE  EvictInv(t)'
<1> SUFFICES ASSUME reboots' < MaxEvict - 1
             PROVE  \E n \in Nat : EvictAt(t, n)'
  BY DEF EvictInv
<1>0. /\ "delete" \notin Faults /\ "meta" \notin Faults /\ "clear" \notin Faults
      /\ "write" \notin Faults /\ "read" \notin Faults
  OBVIOUS
<1>1. /\ reboots \in Nat /\ MaxEvict \in Nat /\ Slots \in Nat
      /\ reboots <= reboots' /\ reboots < MaxEvict - 1
  <2>1. reboots \in Nat /\ MaxEvict \in Nat /\ Slots \in Nat
    BY ConstantsAssumption DEF TypeInv, TypeOK
  <2>2. reboots' = reboots \/ reboots' = reboots + 1
    BY DEF Next, CommitStep, ClearStep, vars, PutRefused, PutAccepted, CommitSkip, CommitShort,
           CommitClaim, CommitStore, Evict, CommitFail, CommitSave, CommitFinish, StreamCancel,
           StreamStart, StreamDrain, StreamStop, ClearBegin, ClearCancel, ClearFlash, ClearRam, Reboot
  <2> QED BY <2>1, <2>2
<1>2. PICK l \in Nat : EvictAt(t, l)
  BY <1>1 DEF EvictInv
<1>3. /\ meta[t] \in Meta /\ flash[t].meta \in Meta
      /\ DOMAIN flash[t].data \subseteq Nat
      /\ meta[t].write \in Nat /\ meta[t].oldest \in Nat
      /\ flash[t].meta.write \in Nat /\ flash[t].meta.oldest \in Nat
      /\ commit[t].attempt \in Nat
      /\ commit[t].pc \in {"idle", "write", "save", "done", "fail"}
  BY EvictTyped
<1>4. CASE /\ flash'[t] = flash[t] /\ meta'[t] = meta[t] /\ commit'[t] = commit[t]
           /\ ready' = ready /\ reboots' = reboots
  <2>1. EvictAt(t, l)'
    BY <1>2, <1>4 DEF EvictAt, PresentFrom
  <2> QED BY <2>1
<1>5. ASSUME NEW s \in Stores, s # t, CommitStep(s) \/ ClearFlash(s) \/ PutRefused(s)
                                      \/ PutAccepted(s) \/ StreamDrain(s)
      PROVE  \E n \in Nat : EvictAt(t, n)'
  <2>1. ready' = ready /\ reboots' = reboots
    BY <1>5, Zenon DEF CommitStep, CommitSkip, CommitShort, CommitClaim, CommitStore, Evict,
       CommitFail, CommitSave, CommitFinish, ClearFlash, PutRefused, PutAccepted, StreamDrain
  <2>2. flash'[t] = flash[t] /\ meta'[t] = meta[t] /\ commit'[t] = commit[t]
    BY <1>5 DEF CommitStep, CommitSkip, CommitShort, CommitClaim, CommitStore, Evict,
       CommitFail, CommitSave, CommitFinish, ClearFlash, PutRefused, PutAccepted, StreamDrain,
       TypeInv, TypeOK
  <2> QED BY <1>4, <2>1, <2>2
<1>6. CASE UNCHANGED <<flash, meta, commit, ready, reboots>>
  <2>1. flash'[t] = flash[t] /\ meta'[t] = meta[t] /\ commit'[t] = commit[t]
    BY <1>6
  <2>2. ready' = ready /\ reboots' = reboots
    BY <1>6, Zenon
  <2> QED BY <1>4, <2>1, <2>2
<1>7. CASE CommitClaim(t)
  <2>1. commit[t] = Idle /\ commit'[t] = At("write") /\ flash' = flash /\ meta' = meta
    BY <1>7 DEF CommitClaim, SysIdle, TypeInv, TypeOK
  <2>2. reboots' = reboots /\ ready
    BY <1>7 DEF CommitClaim, TypeInv, ExclusionInv
  <2>3. commit[t].pc = "idle" /\ commit'[t].pc = "write" /\ commit'[t].attempt = 0
    BY <2>1 DEF Idle, At
  <2>4. meta[t] = flash[t].meta /\ l - flash[t].meta.oldest <= reboots /\ PresentFrom(t, l)
    BY <1>2, <2>2, <2>3 DEF EvictAt
  <2>5. PresentFrom(t, l)' /\ flash[t].meta.oldest <= l
    BY <2>1, <2>4 DEF PresentFrom
  <2>6. EvictAt(t, l)'
    BY <1>3, <2>1, <2>2, <2>3, <2>4, <2>5 DEF EvictAt
  <2> QED BY <2>6
<1>8. CASE CommitStore(t)
  BY <1>2, <1>8, EvictStore
<1>9. CASE Evict(t)
  BY <1>0, <1>1, <1>2, <1>9, EvictEvict
<1>10. CASE CommitFail(t)
  BY <1>0, <1>2, <1>10, NeverFails
<1>11. CASE CommitSave(t)
  <2>1. commit[t].pc = "save" /\ ready
    BY <1>11 DEF CommitSave, TypeInv, ClaimInv
  <2>2. flash'[t].data = flash[t].data /\ flash'[t].meta = meta[t] /\ meta'[t] = meta[t]
    BY <1>0, <1>11, SaveEffect DEF TypeInv
  <2>3. commit'[t].pc = "done"
    <3>1. commit'[t] = At("done")
      BY <1>11, SaveEffect DEF TypeInv
    <3> QED BY <3>1 DEF At
  <2>4. reboots' = reboots
    BY <1>11 DEF CommitSave
  <2> DEFINE D == DOMAIN flash[t].data
             w == flash[t].meta.write
  <2>5. /\ w \in D /\ meta[t].write = w + 1
        /\ meta[t].oldest <= l /\ l - meta[t].oldest <= reboots
        /\ D \ {w} = l .. (w - 1) /\ l <= w /\ Cardinality(D) <= Slots
    BY <1>2, <2>1 DEF EvictAt, PresentFrom
  <2>6. D \ {w + 1} = l .. w
    <3>1. w \in Nat
      BY <1>3
    <3> HIDE DEF D, w
    <3> QED BY <2>5, <3>1
  <2>7. PresentFrom(t, l)'
    <3>1. w \in Nat
      BY <1>3
    <3>2. l <= w + 1 /\ (w + 1) - 1 = w
      BY <2>5, <3>1
    <3> QED BY <2>2, <2>5, <2>6, <3>2 DEF PresentFrom
  <2>8. EvictAt(t, l)'
    BY <2>2, <2>3, <2>4, <2>5, <2>7 DEF EvictAt
  <2> QED BY <2>8
<1>12. CASE CommitFinish(t)
  <2>1. commit[t].pc = "done"
    BY <1>2, <1>12 DEF CommitFinish, EvictAt
  <2>2. commit'[t].pc = "idle" /\ flash' = flash /\ meta' = meta /\ reboots' = reboots
    BY <1>12 DEF CommitFinish, Idle, TypeInv, TypeOK
  <2>3. ready' = ready
    BY <1>12, Zenon DEF CommitFinish
  <2>4. PresentFrom(t, l)'
    BY <1>2, <2>2 DEF EvictAt, PresentFrom
  <2>5. EvictAt(t, l)'
    BY <1>2, <2>1, <2>2, <2>3, <2>4 DEF EvictAt
  <2> QED BY <2>5
<1>13. CASE ClearFlash(t)
  <2>1. commit[t].pc = "idle"
    BY <1>13 DEF ClearFlash, TypeInv, ExclusionInv, SysIdle, Idle, Stores
  <2>2. flash'[t].data = NoData /\ flash'[t].meta = FreshMeta /\ meta'[t] = FreshMeta
    BY <1>0, <1>13, ClearEffect DEF TypeInv
  <2>3. commit' = commit /\ reboots' = reboots
    BY <1>13 DEF ClearFlash
  <2>4. DOMAIN flash'[t].data = {} /\ Cardinality({}) = 0
    BY <2>2, FS_EmptySet DEF NoData
  <2>5. PresentFrom(t, 1)'
    BY <1>1, <2>2, <2>4 DEF PresentFrom, FreshMeta
  <2>6. EvictAt(t, 1)'
    BY <1>1, <2>1, <2>2, <2>3, <2>5 DEF EvictAt, FreshMeta
  <2> QED BY <2>6
<1>14. ASSUME NEW m \in Mountable, NEW r \in Restorable(m), Reboot(m, r)
       PROVE  \E n \in Nat : EvictAt(t, n)'
  <2>1. /\ flash' = flash /\ (ready' => meta'[t] = flash[t].meta) /\ reboots' = reboots + 1
        /\ commit'[t].pc = "idle"
    BY <1>0, <1>14, RebootRestores DEF Reboot, Idle
  <2>2. l - flash[t].meta.oldest <= reboots + 1
    BY <1>1, <1>2, <1>3 DEF EvictAt
  <2>3. PresentFrom(t, l)'
    BY <1>2, <2>1 DEF EvictAt, PresentFrom
  <2>4. EvictAt(t, l)'
    BY <2>1, <2>2, <2>3 DEF EvictAt
  <2> QED BY <2>4
<1> QED
  BY <1>5, <1>6, <1>7, <1>8, <1>9, <1>10, <1>11, <1>12, <1>13, <1>14
     DEF Next, CommitStep, ClearStep, vars, PutRefused, PutAccepted, CommitSkip, CommitShort,
         StreamCancel, StreamStart, StreamDrain, StreamStop, ClearBegin, ClearCancel, ClearRam

\* On flash whose operations work, a commit in OVERWRITE_OLDEST mode stores its
\* chunk as long as fewer resets came than evictions that still leave a write,
\* for every partition of at least two chunks.
THEOREM OverwriteSucceeds ==
  ASSUME Overwrite, Slots >= 2, Faults \subseteq {"mount"}
  PROVE  Spec => []OverwriteStores
<1> DEFINE J == TypeInv /\ \A s \in Stores : SpanInv(s) /\ EvictInv(s)
<1>1. Init => J
  <2> SUFFICES ASSUME Init, NEW s \in Stores
               PROVE  SpanInv(s) /\ EvictAt(s, 1)
    BY TypeInvInit DEF EvictInv
  <2>1. /\ flash[s].data = NoData /\ flash[s].meta = FreshMeta /\ meta[s] = FreshMeta
        /\ commit[s].pc = "idle" /\ reboots = 0
    BY DEF Init, Idle
  <2>2. DOMAIN flash[s].data = {} /\ Cardinality({}) = 0 /\ Slots \in Nat
    BY <2>1, FS_EmptySet, ConstantsAssumption DEF NoData
  <2>3. PresentFrom(s, 1)
    BY <2>1, <2>2 DEF PresentFrom, FreshMeta
  <2> QED BY <2>1, <2>3 DEF SpanInv, EvictAt, FreshMeta
<1>2. J /\ [Next]_vars => J'
  BY TypeInvStep, SpanInvStep, EvictStep
<1>3. J => OverwriteStores
  BY DEF EvictInv, EvictAt, OverwriteStores
<1> HIDE DEF J
<1> QED
  BY <1>1, <1>2, <1>3, PTL DEF Spec
=============================================================================
