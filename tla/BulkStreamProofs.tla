-------------------------- MODULE BulkStreamProofs --------------------------
(***************************************************************************)
(* Theorems about BulkStream, for every packet size, error limit and way a *)
(* notification may fail, on top of every LogStore.                        *)
(*                                                                         *)
(* The stores are not proved about again: the download is shown to take    *)
(* only steps of LogStore (MapsToStore), and what LogStoreProofs and       *)
(* LogStoreRefinement show of every such step is then cited as Facts!...   *)
(***************************************************************************)
EXTENDS BulkStream, RingBufLemmas, SequenceTheorems, TLAPS

Facts == INSTANCE LogStoreRefinement WITH active <- Reading, ring <- CommittedRing

-----------------------------------------------------------------------------
(***************************************************************************)
(* The inductive invariants.                                               *)
(***************************************************************************)
Packet ==
  [kind : {"none", "zms", "ram", "last"}, store : Stores, recs : Seq(Nat), seq : Nat,
   res : {"ok", "again", "nomem", "other"}]

GhostInv ==
  /\ wire \in Seq(Packet)
  /\ due \in [Stores -> SUBSET Nat]

\* A start that waits for the commits or is about to activate finds no download,
\* no packet and no clear in its way, and once the commits are cancelled none
\* comes back.  Nothing is owed while the stores are cleared.
ControlInv ==
  /\ starting # "no" => ~active /\ hpc = "idle" /\ clearing = "no"
  /\ starting = "activate" => SysIdle /\ pending = {}
  /\ clearing # "no" => due = NothingDue

\* The packet in the works belongs to the current phase.
PacketInv ==
  hpc \in {"notify", "post"} =>
    /\ pkt.kind # "none" /\ pkt.store = StoreOf(phase) /\ pkt.seq = seq
    /\ pkt.res # "again"
    /\ hpc = "notify" => pkt.res = "ok"
    /\ pkt.kind = "zms" => /\ phase \in {"zms stamp", "zms ambient"}
                           /\ stage # <<>> /\ pkt.recs = Prefix(stage)
    /\ pkt.kind # "zms" => phase \in {"ram stamp", "ram ambient"}
    /\ pkt.kind = "last" => pkt.recs = <<>>

\* The handler's packet holds the oldest records of the tail, in one piece.
HoldsClaim(s) ==
  /\ hpc \in {"notify", "post"} /\ pkt.kind = "ram" /\ pkt.store = s
  /\ pkt.recs # <<>>
  /\ ring[s].head = ring[s].tail + Len(pkt.recs)
  /\ Len(pkt.recs) <= RbContig(Unclaimed(ring[s]), RingSize[s])
  /\ \A i \in DOMAIN pkt.recs : pkt.recs[i] = ring[s].slot[ring[s].tail + i - 1]

\* No claim but the commit work's and the handler's.
RingInv(s) ==
  /\ IsRing(ring[s])
  /\ commit[s] = Idle => ring[s].head = ring[s].tail \/ HoldsClaim(s)

BaseInv ==
  /\ Facts!TypeInv
  /\ StreamTypeOK
  /\ GhostInv
  /\ ControlInv
  /\ PacketInv
  /\ DOMAIN ring = Stores /\ \A s \in Stores : RingInv(s)

-----------------------------------------------------------------------------
(***************************************************************************)
(* The operators LogStore and its instance share.                          *)
(***************************************************************************)
LEMMA ConstantsFacts == Facts!ConstantsAssumption
BY ConstantsAssumption DEF Facts!ConstantsAssumption, Stores, Facts!Stores

LEMMA SameNames ==
  /\ Facts!Stores = Stores /\ Facts!Idle = Idle /\ Facts!SysIdle = SysIdle
  /\ Facts!RbEmpty = RbEmpty /\ Facts!Offsets = Offsets /\ Facts!Meta = Meta
  /\ Facts!FreshMeta = FreshMeta /\ Facts!NoData = NoData
  /\ \A pc : Facts!At(pc) = At(pc)
BY DEF Facts!Stores, Stores, Facts!Idle, Idle, Facts!SysIdle, SysIdle, Facts!RbEmpty, RbEmpty,
   Facts!Offsets, Offsets, Facts!Meta, Meta, Facts!FreshMeta, FreshMeta, Facts!NoData, NoData,
   Facts!At, At

LEMMA SameRingOps ==
  /\ \A r : Facts!IsRing(r) = IsRing(r)
  /\ \A r : Facts!RbSize(r) = RbSize(r)
  /\ \A r, n : Facts!RbSpace(r, n) = RbSpace(r, n)
  /\ \A r, n : Facts!RbContig(r, n) = RbContig(r, n)
  /\ \A r, n, m : Facts!RbClaimLen(r, n, m) = RbClaimLen(r, n, m)
  /\ \A r, x : Facts!RbPut(r, x) = RbPut(r, x)
  /\ \A r, n : Facts!RbClaim(r, n) = RbClaim(r, n)
  /\ \A r, n : Facts!RbFinish(r, n) = RbFinish(r, n)
  /\ \A r : Facts!ChunkReady(r) = ChunkReady(r)
BY DEF Facts!IsRing, IsRing, Facts!RbSize, RbSize, Facts!RbSpace, RbSpace, Facts!RbContig,
   RbContig, Facts!RbClaimLen, RbClaimLen, Facts!RbPut, RbPut, Facts!RbClaim, RbClaim,
   Facts!RbFinish, RbFinish, Facts!ChunkReady, ChunkReady

LEMMA SameCardinalities == \A S : Facts!Cardinality(S) = Cardinality(S)
BY DEF Facts!Cardinality, Cardinality

\* The store the theorems of LogStore are about is the one ImplementsStore names.
LEMMA SameStore == Facts!Spec => ImplementsStore
<1>1. Facts!Init => Store!Init
  BY DEF Store!Init, Facts!Init, Store!RbEmpty, Facts!RbEmpty, Store!NoData, Facts!NoData,
     Store!FreshMeta, Facts!FreshMeta, Store!Idle, Facts!Idle, Store!Stores, Facts!Stores
<1>2. /\ \A r, n, m : Store!RbClaimLen(r, n, m) = Facts!RbClaimLen(r, n, m)
      /\ \A S : Store!Cardinality(S) = Facts!Cardinality(S)
  BY DEF Store!RbClaimLen, Facts!RbClaimLen, Store!RbContig, Facts!RbContig, Store!RbSize,
     Facts!RbSize, Store!Cardinality, Facts!Cardinality
<1>3. [Facts!Next]_(Facts!vars) => [Store!Next]_(Store!vars)
  <2>1. \A s : Facts!PutRefused(s) => Store!PutRefused(s)
    BY Zenon DEF Store!PutRefused, Facts!PutRefused, Store!Offer, Facts!Offer, Store!SysIdle,
       Facts!SysIdle, Store!Idle, Facts!Idle, Store!Stores, Facts!Stores, Store!RbSpace,
       Facts!RbSpace
  <2>2. \A s : Facts!PutAccepted(s) => Store!PutAccepted(s)
    BY Zenon DEF Store!PutAccepted, Facts!PutAccepted, Store!Offer, Facts!Offer, Store!SysIdle,
       Facts!SysIdle, Store!Idle, Facts!Idle, Store!Stores, Facts!Stores, Store!RbSpace,
       Facts!RbSpace, Store!RbPut, Facts!RbPut, Store!ChunkReady, Facts!ChunkReady,
       Store!RbSize, Facts!RbSize
  <2>3. \A s : Facts!CommitSkip(s) => Store!CommitSkip(s)
    BY Zenon DEF Store!CommitSkip, Facts!CommitSkip, Store!SysIdle, Facts!SysIdle, Store!Idle,
       Facts!Idle, Store!Stores, Facts!Stores
  <2>4. \A s : Facts!CommitShort(s) => Store!CommitShort(s)
    <3>1. \A r, n : Store!RbFinish(Store!RbClaim(r, n), 0) = Facts!RbFinish(Facts!RbClaim(r, n), 0)
      BY DEF Store!RbFinish, Facts!RbFinish, Store!RbClaim, Facts!RbClaim
    <3>2. \A s : Store!Claimed(s) = Facts!Claimed(s)
      BY Zenon, <1>2 DEF Store!Claimed, Facts!Claimed
    <3> QED
      BY Zenon, <3>1, <3>2 DEF Store!CommitShort, Facts!CommitShort, Store!SysIdle, Facts!SysIdle,
         Store!Idle, Facts!Idle, Store!Stores, Facts!Stores
  <2>5. \A s : Facts!CommitClaim(s) => Store!CommitClaim(s)
    BY Zenon, <1>2 DEF Store!CommitClaim, Facts!CommitClaim, Store!SysIdle, Facts!SysIdle, Store!Idle,
       Facts!Idle, Store!Stores, Facts!Stores, Store!Claimed, Facts!Claimed, Store!RbClaim,
       Facts!RbClaim, Store!At, Facts!At
  <2>6. \A s : Facts!CommitStore(s) => Store!CommitStore(s)
    BY Zenon, <1>2 DEF Store!CommitStore, Facts!CommitStore, Store!Fits, Facts!Fits, Store!ChunkOf,
       Facts!ChunkOf, Store!Offsets, Facts!Offsets, Store!Appended, Facts!Appended,
       Store!At, Facts!At
  <2>7. \A s : Facts!Evict(s) => Store!Evict(s)
    BY Zenon, <1>2 DEF Store!Evict, Facts!Evict, Store!NoSpace, Facts!NoSpace, Store!CanEvict,
       Facts!CanEvict, Store!Victim, Facts!Victim, Store!Evicted, Facts!Evicted,
       Store!LastAttempt, Facts!LastAttempt, Store!At, Facts!At
  <2>8. \A s : Facts!CommitFail(s) => Store!CommitFail(s)
    BY Zenon, <1>2 DEF Store!CommitFail, Facts!CommitFail, Store!NoSpace, Facts!NoSpace, Store!CanEvict,
       Facts!CanEvict, Store!At, Facts!At
  <2>9. \A s : Facts!CommitSave(s) => Store!CommitSave(s)
    BY Zenon DEF Store!CommitSave, Facts!CommitSave, Store!SavedMeta, Facts!SavedMeta, Store!At,
       Facts!At
  <2>10. \A s : Facts!CommitFinish(s) => Store!CommitFinish(s)
    BY Zenon DEF Store!CommitFinish, Facts!CommitFinish, Store!FinishLen, Facts!FinishLen,
       Store!RbFinish, Facts!RbFinish, Store!Idle, Facts!Idle
  <2>11. \A s : Facts!StreamDrain(s) => Store!StreamDrain(s)
    BY Zenon, <1>2 DEF Store!StreamDrain, Facts!StreamDrain, Store!RbSize, Facts!RbSize, Store!RbFinish,
       Facts!RbFinish, Store!RbClaim, Facts!RbClaim
  <2>12. \A s : Facts!ClearFlash(s) => Store!ClearFlash(s)
    BY Zenon DEF Store!ClearFlash, Facts!ClearFlash, Store!NoData, Facts!NoData, Store!FreshMeta,
       Facts!FreshMeta
  <2>13. Facts!StreamCancel => Store!StreamCancel
    BY Zenon DEF Store!StreamCancel, Facts!StreamCancel, Store!SysIdle, Facts!SysIdle, Store!Idle,
       Facts!Idle, Store!Stores, Facts!Stores
  <2>14. Facts!StreamStart => Store!StreamStart
    BY Zenon DEF Store!StreamStart, Facts!StreamStart, Store!SysIdle, Facts!SysIdle, Store!Idle,
       Facts!Idle, Store!Stores, Facts!Stores
  <2>15. Facts!StreamStop => Store!StreamStop
    BY Zenon DEF Store!StreamStop, Facts!StreamStop
  <2>16. Facts!ClearBegin => Store!ClearBegin
    BY Zenon DEF Store!ClearBegin, Facts!ClearBegin
  <2>17. Facts!ClearCancel => Store!ClearCancel
    BY Zenon DEF Store!ClearCancel, Facts!ClearCancel, Store!SysIdle, Facts!SysIdle, Store!Idle,
       Facts!Idle, Store!Stores, Facts!Stores
  <2>18. Facts!ClearRam => Store!ClearRam
    BY Zenon DEF Store!ClearRam, Facts!ClearRam, Store!RbEmpty, Facts!RbEmpty, Store!Stores,
       Facts!Stores
  <2>19. \A m, r : Facts!Reboot(m, r) => Store!Reboot(m, r)
    BY Zenon DEF Store!Reboot, Facts!Reboot, Store!RbEmpty, Facts!RbEmpty, Store!FreshMeta,
       Facts!FreshMeta, Store!Idle, Facts!Idle, Store!Stores, Facts!Stores
  <2>20. Facts!vars' = Facts!vars => Store!vars' = Store!vars
    BY Zenon DEF Store!vars, Facts!vars
  <2> QED
    BY Zenon, <2>1, <2>2, <2>3, <2>4, <2>5, <2>6, <2>7, <2>8, <2>9, <2>10, <2>11, <2>12,
       <2>13, <2>14, <2>15, <2>16, <2>17, <2>18, <2>19, <2>20
       DEF Store!Next, Facts!Next, Store!CommitStep, Facts!CommitStep, Store!ClearStep,
           Facts!ClearStep, Store!Mountable, Facts!Mountable, Store!Restorable,
           Facts!Restorable, Store!Stores, Facts!Stores
<1> QED
  BY <1>1, <1>3, PTL DEF Facts!Spec, ImplementsStore, Store!Spec

-----------------------------------------------------------------------------
(***************************************************************************)
(* Every step of the download is a step of LogStore, or invisible to it.   *)
(***************************************************************************)
LEMMA UnclaimedIsRing ==
  ASSUME NEW r, IsRing(r)
  PROVE  /\ IsRing(Unclaimed(r))
         /\ Unclaimed(r).tail = r.tail /\ Unclaimed(r).head = r.tail
         /\ Unclaimed(r).put = r.put /\ Unclaimed(r).slot = r.slot
BY DEF IsRing, Unclaimed

\* The store a download works on, as LogStore sees it.
LEMMA CommittedAt ==
  ASSUME NEW s \in Stores
  PROVE  /\ CommittedRing[s] = IF commit[s] = Idle THEN Unclaimed(ring[s]) ELSE ring[s]
         /\ CommittedRing'[s] = IF commit'[s] = Idle THEN Unclaimed(ring'[s]) ELSE ring'[s]
BY DEF CommittedRing, Idle

LEMMA CommittedKept ==
  ASSUME UNCHANGED <<ring, commit>>
  PROVE  CommittedRing' = CommittedRing
BY DEF CommittedRing, Idle

\* While a download reads, no commit runs.
LEMMA ReadingIdle ==
  ASSUME BaseInv
  PROVE  /\ Reading => SysIdle
         /\ \A s \in Stores : commit[s].pc = "idle" => commit[s] = Idle
         /\ \A s \in Stores : commit[s] = Idle => commit[s].pc = "idle"
BY SameNames DEF BaseInv, Facts!TypeInv, Facts!ExclusionInv, Facts!ClaimInv, Idle

\* Handing the stores back, or nothing at all.
LEMMA MapsToStop ==
  ASSUME UNCHANGED storeVars, Reading' => Reading
  PROVE  [Facts!Next]_(Facts!vars)
<1>1. UNCHANGED <<CommittedRing, pending, commit, meta, flash, ready, clearing, offered, reboots>>
  BY CommittedKept DEF storeVars
<1>2. CASE Reading' = Reading
  BY <1>1, <1>2 DEF Facts!vars
<1>3. CASE Reading /\ ~Reading'
  <2>1. Reading' = FALSE
    BY <1>3 DEF Reading
  <2> QED BY <1>1, <1>3, <2>1 DEF Facts!StreamStop, Facts!Next
<1> QED
  BY <1>2, <1>3 DEF Reading

\* Steps that leave the stores alone and take nothing up.
LEMMA QuietMaps ==
  ASSUME BaseInv,
         \/ HandlerWait \/ HandlerRun \/ HandlerTimeout \/ SendZms \/ AdvancePhase
         \/ NotifyOk \/ NotifyFails \/ Resched \/ SentCb
         \/ StartBegin \/ StopCommand \/ Connect \/ Disconnect
  PROVE  [Facts!Next]_(Facts!vars)
<1>1. UNCHANGED storeVars
  BY Zenon DEF HandlerWait, HandlerRun, HandlerTimeout, Proceed, SendZms, AdvancePhase, NotifyOk,
     NotifyFails, Resched, SentCb, StartBegin, StopCommand, Connect, Disconnect
<1>2. Reading' => Reading
  <2>1. CASE HandlerWait \/ SentCb \/ StartBegin \/ Connect
    <3>1. active' = active /\ hpc' = hpc
      BY Zenon, <2>1 DEF HandlerWait, SentCb, StartBegin, Connect, handlerVars
    <3> QED BY <3>1 DEF Reading
  <2>2. CASE HandlerRun \/ HandlerTimeout
    <3>1. hpc' = (IF active /\ conn THEN "send" ELSE "idle") /\ active' = (active /\ conn)
      BY Zenon, <2>2 DEF HandlerRun, HandlerTimeout, Proceed
    <3> QED BY <3>1 DEF Reading
  <2>3. CASE SendZms \/ AdvancePhase \/ NotifyOk \/ NotifyFails \/ Resched
    BY <2>3 DEF Reading, SendZms, AdvancePhase, NotifyOk, NotifyFails, Resched
  <2>4. CASE StopCommand \/ Disconnect
    <3>1. active' = FALSE /\ hpc' = hpc
      BY Zenon, <2>4 DEF StopCommand, Disconnect, StopEffects, handlerVars
    <3> QED BY <3>1 DEF Reading
  <2> QED BY <2>1, <2>2, <2>3, <2>4
<1> QED
  BY <1>1, <1>2, MapsToStop

\* To change one store is to change it as LogStore sees it.
LEMMA CommittedExcept ==
  ASSUME NEW s \in Stores,
         \A t \in Stores \ {s} : ring'[t] = ring[t] /\ commit'[t] = commit[t]
  PROVE  CommittedRing' = [CommittedRing EXCEPT ![s] = CommittedRing'[s]]
BY DEF CommittedRing, Idle

LEMMA FinishNothing ==
  ASSUME NEW r, IsRing(r)
  PROVE  Unclaimed(RbFinish(r, 0)) = Unclaimed(r)
<1>1. /\ r.tail \in Nat /\ r.head \in Nat /\ ~(0 > r.head - r.tail)
      /\ r.slot \in [r.tail .. (r.put - 1) -> Nat]
  BY DEF IsRing
<1>2. [p \in r.tail .. (r.put - 1) |-> r.slot[p]] = r.slot
  BY <1>1
<1>3. RbFinish(r, 0) = [tail |-> r.tail + 0, head |-> r.tail + 0, put |-> r.put,
                        slot |-> [p \in (r.tail + 0) .. (r.put - 1) |-> r.slot[p]]]
  BY <1>1 DEF RbFinish
<1>4. r.tail + 0 = r.tail
  BY <1>1
<1>5. RbFinish(r, 0) = [tail |-> r.tail, head |-> r.tail, put |-> r.put, slot |-> r.slot]
  BY <1>2, <1>3, <1>4
<1> QED
  BY <1>5 DEF IsRing, Unclaimed

LEMMA FinishClaim ==
  ASSUME NEW r, IsRing(r), NEW n \in Nat, r.head = r.tail + n
  PROVE  Unclaimed(RbFinish(r, n)) = RbFinish(RbClaim(Unclaimed(r), n), n)
<1>1. r.tail \in Nat /\ ~(n > r.head - r.tail) /\ r.tail + n - r.tail = n
  BY DEF IsRing
<1>2. RbFinish(r, n) = [tail |-> r.tail + n, head |-> r.tail + n, put |-> r.put,
                        slot |-> [p \in (r.tail + n) .. (r.put - 1) |-> r.slot[p]]]
  BY <1>1 DEF RbFinish
<1>3. RbClaim(Unclaimed(r), n) = [tail |-> r.tail, head |-> r.tail + n, put |-> r.put,
                                  slot |-> r.slot]
  BY DEF IsRing, RbClaim, Unclaimed
<1>4. RbFinish(RbClaim(Unclaimed(r), n), n) =
        [tail |-> r.tail + n, head |-> r.tail + n, put |-> r.put,
         slot |-> [p \in (r.tail + n) .. (r.put - 1) |-> r.slot[p]]]
  BY <1>1, <1>3 DEF RbFinish
<1> QED
  BY <1>2, <1>4 DEF Unclaimed

\* What the handler claims, it claims of the oldest records.
LEMMA HeldClaim ==
  ASSUME BaseInv, NEW s \in Stores, HoldsClaim(s), commit[s] = Idle
  PROVE  /\ Len(pkt.recs) \in Nat \ {0}
         /\ Len(pkt.recs) \in 1 .. RbClaimLen(CommittedRing[s], RbSize(CommittedRing[s]),
                                               RingSize[s])
<1>1. pkt.recs \in Seq(Nat) /\ IsRing(ring[s])
  BY DEF BaseInv, StreamTypeOK, RingInv
<1>2. Len(pkt.recs) \in Nat \ {0} /\ Len(pkt.recs) <= ring[s].put - ring[s].tail
  <2>1. Len(pkt.recs) \in Nat \ {0}
    BY <1>1, EmptySeq DEF HoldsClaim
  <2>2. /\ ring[s].tail \in Nat /\ ring[s].head \in Nat /\ ring[s].put \in Nat
        /\ ring[s].head <= ring[s].put /\ ring[s].head = ring[s].tail + Len(pkt.recs)
    BY <1>1, RingCursors DEF HoldsClaim
  <2> QED BY <2>1, <2>2
<1>3. CommittedRing[s] = Unclaimed(ring[s])
  BY CommittedAt
<1>4. /\ RbSize(Unclaimed(ring[s])) = ring[s].put - ring[s].tail
      /\ Len(pkt.recs) <= RbContig(Unclaimed(ring[s]), RingSize[s])
  BY <1>1, UnclaimedIsRing DEF RbSize, HoldsClaim
<1>5. RbSize(Unclaimed(ring[s])) \in Nat
  BY <1>1, UnclaimedIsRing, RingCursors
<1>6. RbContig(Unclaimed(ring[s]), RingSize[s]) \in Int
  <2>1. RingSize[s] \in Nat \ {0} /\ Unclaimed(ring[s]).head \in Nat
    BY <1>1, ConstantsAssumption, UnclaimedIsRing, RingCursors
  <2> QED BY <2>1 DEF RbContig
<1> QED
  BY <1>2, <1>3, <1>4, <1>5, <1>6 DEF RbClaimLen

\* A claim is not seen before it is finished.
LEMMA SendRamMaps ==
  ASSUME BaseInv, SendRam
  PROVE  [Facts!Next]_(Facts!vars)
<1> DEFINE s == StoreOf(phase)
           n == RbClaimLen(ring[s], Cap, RingSize[s])
<1>1. /\ s \in Stores /\ ring' = [ring EXCEPT ![s] = RbClaim(@, n)]
      /\ UNCHANGED <<pending, commit, meta, flash, ready, clearing, offered, reboots, active>>
      /\ hpc = "send" /\ hpc' = "notify"
  BY DEF SendRam, StoreOf, Stores
<1> HIDE DEF n, s
<1>2. \A t \in Stores : IsRing(ring[t]) /\ commit[t] = Idle
  BY <1>1, ReadingIdle DEF Reading, SysIdle, BaseInv, RingInv
<1>3. \A t \in Stores : Unclaimed(ring'[t]) = Unclaimed(ring[t])
  <2>1. \A r, m : IsRing(r) => Unclaimed(RbClaim(r, m)) = Unclaimed(r)
    BY DEF Unclaimed, RbClaim, IsRing
  <2>2. \A t \in Stores : ring'[t] \in {ring[t], RbClaim(ring[t], n)}
    BY <1>1 DEF BaseInv
  <2> QED BY <1>2, <2>1, <2>2
<1>4. CommittedRing' = CommittedRing
  BY <1>1, <1>2, <1>3 DEF CommittedRing, Idle
<1>5. Reading /\ Reading'
  BY <1>1 DEF Reading
<1>6. Reading' = Reading
  BY <1>5 DEF Reading
<1> QED
  BY <1>1, <1>4, <1>6 DEF Facts!vars

\* The records of an accepted notification leave the tail.
LEMMA PostMaps ==
  ASSUME BaseInv, Post
  PROVE  [Facts!Next]_(Facts!vars)
<1>1. /\ hpc = "post" /\ hpc' = "resched"
      /\ UNCHANGED <<pending, commit, meta, flash, ready, clearing, offered, reboots>>
  BY DEF Post
<1>2. Reading /\ Reading'
  BY <1>1 DEF Reading
<1>3. Reading' = Reading
  BY <1>2 DEF Reading
<1>4. \A t \in Stores : IsRing(ring[t]) /\ commit[t] = Idle
  BY <1>2, ReadingIdle DEF SysIdle, BaseInv, RingInv
<1>5. CASE pkt.kind # "ram"
  <2>1. ring' = ring
    BY <1>5 DEF Post
  <2>2. CommittedRing' = CommittedRing
    BY <1>1, <2>1, CommittedKept
  <2> QED BY <1>1, <1>3, <2>2 DEF Facts!vars
<1>6. CASE pkt.kind = "ram"
  <2> DEFINE s == pkt.store
             n == Consumed
  <2>1. /\ s \in Stores /\ ring' = [ring EXCEPT ![s] = RbFinish(@, n)]
        /\ DOMAIN ring = Stores
    BY <1>6 DEF Post, BaseInv, StreamTypeOK
  <2>2. /\ ring'[s] = RbFinish(ring[s], n)
        /\ \A t \in Stores \ {s} : ring'[t] = ring[t] /\ commit'[t] = commit[t]
    BY <1>1, <2>1
  <2>3. /\ CommittedRing[s] = Unclaimed(ring[s])
        /\ CommittedRing'[s] = Unclaimed(RbFinish(ring[s], n))
        /\ CommittedRing' = [CommittedRing EXCEPT ![s] = CommittedRing'[s]]
    BY <1>1, <1>4, <2>1, <2>2, CommittedAt, CommittedExcept
  <2>4. n = 0 \/ n = Len(pkt.recs)
    BY DEF Consumed
  <2>5. ring[s].head = ring[s].tail \/ HoldsClaim(s)
    BY <1>4, <2>1 DEF BaseInv, RingInv
  <2>6. Len(pkt.recs) \in Nat
    BY LenProperties DEF BaseInv, StreamTypeOK
  <2> HIDE DEF n, s
  <2>7. CASE n = 0 \/ ring[s].head = ring[s].tail
    <3>1. RbFinish(ring[s], n) = ring[s] \/ n = 0
      BY <1>4, <2>1, <2>4, <2>6, <2>7, RingCursors DEF RbFinish
    <3>2. CommittedRing'[s] = CommittedRing[s]
      BY <1>4, <2>1, <2>3, <3>1, FinishNothing
    <3>3. CommittedRing' = CommittedRing
      BY <2>3, <3>2 DEF CommittedRing
    <3> QED BY <1>1, <1>3, <3>3 DEF Facts!vars
  <2>8. CASE HoldsClaim(s) /\ n # 0
    <3>1. /\ n \in 1 .. RbClaimLen(CommittedRing[s], RbSize(CommittedRing[s]), RingSize[s])
          /\ n \in Nat
      BY <1>4, <2>1, <2>4, <2>6, <2>8, HeldClaim
    <3>2. ring[s].head = ring[s].tail + n
      BY <2>4, <2>8 DEF HoldsClaim
    <3>3. CommittedRing'[s] = RbFinish(RbClaim(CommittedRing[s], n), n)
      BY <1>4, <2>1, <2>3, <3>1, <3>2, FinishClaim
    <3>4. CommittedRing' = [CommittedRing EXCEPT ![s] = RbFinish(RbClaim(@, n), n)]
      BY <2>3, <3>3
    <3>5. Facts!StreamDrain(s)
      BY <1>1, <1>2, <1>3, <3>1, <3>4, SameRingOps DEF Facts!StreamDrain
    <3> QED BY <2>1, <3>5, SameNames DEF Facts!Next
  <2> QED BY <2>5, <2>7, <2>8
<1> QED
  BY <1>5, <1>6

\* Starting a download, and clearing.
LEMMA CommandMaps ==
  ASSUME BaseInv, Streams, StartCancel \/ StartActivate \/ ClearCommand
  PROVE  [Facts!Next]_(Facts!vars)
<1>1. CASE StartCancel
  <2>1. ~active /\ hpc = "idle" /\ clearing = "no" /\ active' = active /\ hpc' = hpc
    BY <1>1 DEF StartCancel, BaseInv, ControlInv, handlerVars
  <2>2. ~Reading /\ Reading' = Reading
    BY <2>1 DEF Reading
  <2>3. CommittedRing' = CommittedRing
    BY <1>1, CommittedKept DEF StartCancel
  <2>4. Facts!StreamCancel
    BY <1>1, <2>1, <2>2, <2>3, SameNames DEF StartCancel, Cancelled, Facts!StreamCancel
  <2> QED BY <2>4 DEF Facts!Next
<1>2. CASE StartActivate
  <2>1. /\ ~active /\ hpc = "idle" /\ clearing = "no" /\ SysIdle /\ pending = {}
        /\ active' = TRUE
    BY <1>2 DEF StartActivate, BaseInv, ControlInv
  <2>2. ~Reading /\ Reading' = TRUE
    BY <2>1 DEF Reading
  <2>3. CommittedRing' = CommittedRing
    BY <1>2, CommittedKept DEF StartActivate, storeVars
  <2>4. Facts!StreamStart
    BY <1>2, <2>1, <2>2, <2>3, SameNames DEF StartActivate, storeVars, Facts!StreamStart
  <2> QED BY <2>4 DEF Facts!Next
<1>3. CASE ClearCommand
  <2>1. active' = FALSE /\ hpc' = hpc
    BY <1>3 DEF ClearCommand, StopEffects, handlerVars
  <2>2. Reading' = FALSE \/ Reading' = Reading
    BY <2>1 DEF Reading
  <2>3. CommittedRing' = CommittedRing
    BY <1>3, CommittedKept DEF ClearCommand
  <2>4. Facts!ClearBegin
    BY <1>3, <2>2, <2>3 DEF ClearCommand, NoCommand, Facts!ClearBegin
  <2> QED BY <2>4 DEF Facts!Next
<1> QED
  BY <1>1, <1>2, <1>3

LEMMA PutUnclaimed ==
  ASSUME NEW r, IsRing(r), NEW x
  PROVE  Unclaimed(RbPut(r, x)) = RbPut(Unclaimed(r), x)
<1> DEFINE f == [p \in r.tail .. r.put |-> IF p = r.put THEN x ELSE r.slot[p]]
           u == [tail |-> r.tail, head |-> r.tail, put |-> r.put + 1, slot |-> f]
<1>1. Unclaimed(RbPut(r, x)) = u
  <2>1. RbPut(r, x) = [tail |-> r.tail, head |-> r.head, put |-> r.put + 1, slot |-> f]
    BY DEF RbPut
  <2> HIDE DEF f
  <2> QED BY <2>1 DEF Unclaimed
<1>2. Unclaimed(r).tail = r.tail /\ Unclaimed(r).head = r.tail /\ Unclaimed(r).put = r.put
      /\ Unclaimed(r).slot = r.slot
  BY UnclaimedIsRing
<1>3. RbPut(Unclaimed(r), x) = u
  BY <1>2 DEF RbPut
<1> QED
  BY <1>1, <1>3

LEMMA NothingClaimed ==
  ASSUME NEW r, IsRing(r), r.head = r.tail
  PROVE  Unclaimed(r) = r
BY DEF Unclaimed, IsRing

\* Logging a record, whether or not the handler holds a claim.
LEMMA LogMaps ==
  ASSUME BaseInv, NEW s \in Stores, Log(s)
  PROVE  [Facts!Next]_(Facts!vars)
<1>1. UNCHANGED <<active, hpc>>
  BY Zenon DEF Log, PutRefused, PutAccepted, streamVars
<1>2. Reading' = Reading
  BY <1>1 DEF Reading
<1>3. IsRing(ring[s]) /\ DOMAIN ring = Stores
  BY DEF BaseInv, RingInv
<1>4. /\ IsRing(Unclaimed(ring[s])) /\ Unclaimed(ring[s]).head = ring[s].tail
      /\ CommittedRing[s].tail = ring[s].tail /\ CommittedRing[s].put = ring[s].put
  BY <1>3, UnclaimedIsRing, CommittedAt
<1>5. Facts!RbSpace(CommittedRing[s], RingSize[s]) = RbSpace(ring[s], RingSize[s])
  BY <1>4, SameRingOps DEF RbSpace
<1>6. CASE PutRefused(s)
  <2>1. CommittedRing' = CommittedRing
    BY <1>6, CommittedKept DEF PutRefused
  <2>2. Facts!PutRefused(s)
    BY <1>2, <1>5, <1>6, <2>1, SameNames DEF PutRefused, Offer, Facts!PutRefused, Facts!Offer
  <2> QED BY <2>2, SameNames DEF Facts!Next
<1>7. CASE PutAccepted(s)
  <2> DEFINE x == offered[s] + 1
             r == RbPut(ring[s], x)
             c == RbPut(CommittedRing[s], x)
  <2>1. ring'[s] = r /\ \A t \in Stores \ {s} : ring'[t] = ring[t]
    BY <1>3, <1>7 DEF PutAccepted
  <2>2. commit' = commit
    BY <1>7 DEF PutAccepted
  <2>3. CommittedRing' = [CommittedRing EXCEPT ![s] = CommittedRing'[s]]
    BY <2>1, <2>2, CommittedExcept
  <2>4. CommittedRing'[s] = c
    BY <1>3, <2>1, <2>2, CommittedAt, PutUnclaimed
  <2>5. \/ ready /\ Facts!ChunkReady(c) /\ pending' = pending \cup {s}
        \/ (Reading \/ ~(ready /\ Facts!ChunkReady(c))) /\ UNCHANGED pending
    <3>1. \/ ready /\ ChunkReady(r) /\ pending' = pending \cup {s}
          \/ (active \/ ~(ready /\ ChunkReady(r))) /\ UNCHANGED pending
      BY <1>7 DEF PutAccepted
    <3>2. Facts!ChunkReady(c) = ChunkReady(c)
      BY SameRingOps
    <3>3. CASE CommittedRing[s] = ring[s]
      BY <3>1, <3>2, <3>3 DEF Reading
    <3>4. CASE CommittedRing[s] # ring[s]
      <4>1. CommittedRing[s] = Unclaimed(ring[s]) /\ HoldsClaim(s)
        BY <1>3, <3>4, CommittedAt, NothingClaimed DEF BaseInv, RingInv
      <4>2. Reading
        BY <4>1 DEF HoldsClaim, Reading
      <4>3. ChunkReady(r) => ChunkReady(c)
        <5>1. /\ r.put = ring[s].put + 1 /\ r.head = ring[s].head
              /\ c.put = ring[s].put + 1 /\ c.head = ring[s].tail
          BY <1>4, <4>1 DEF RbPut
        <5>2. /\ ring[s].tail \in Nat /\ ring[s].head \in Nat /\ ring[s].put \in Nat
              /\ ring[s].tail <= ring[s].head
          BY <1>3, RingCursors
        <5> QED BY <5>1, <5>2, ConstantsAssumption DEF ChunkReady, RbSize
      <4> HIDE DEF r, c
      <4> QED BY <3>1, <3>2, <4>2, <4>3
    <3> QED BY <3>3, <3>4
  <2>6. Facts!Offer(s)
    BY <1>7, SameNames DEF PutAccepted, Offer, Facts!Offer
  <2>7. CommittedRing' = [CommittedRing EXCEPT ![s] = Facts!RbPut(CommittedRing[s], offered[s] + 1)]
    BY <2>3, <2>4, SameRingOps
  <2>8. Facts!PutAccepted(s)
    <3>1. Facts!RbSpace(CommittedRing[s], RingSize[s]) > 0
      BY <1>5, <1>7 DEF PutAccepted
    <3>2. UNCHANGED <<commit, meta, flash, ready, clearing, reboots>>
      BY <1>7 DEF PutAccepted
    <3>3. Facts!ChunkReady(Facts!RbPut(CommittedRing[s], offered[s] + 1)) = Facts!ChunkReady(c)
      BY SameRingOps
    <3> HIDE DEF c, r, x
    <3> QED
      BY <1>2, <2>5, <2>6, <2>7, <3>1, <3>2, <3>3 DEF Facts!PutAccepted
  <2> QED BY <2>8, SameNames DEF Facts!Next
<1> QED
  BY <1>6, <1>7 DEF Log

\* The commit works, which only run while no download reads.
LEMMA CommitMaps ==
  ASSUME BaseInv, ~Overlap, NEW s \in Stores, Commit(s)
  PROVE  [Facts!Next]_(Facts!vars)
<1>1. active' = active /\ hpc' = hpc /\ UNCHANGED <<clearing, reboots, ready, offered>>
  BY Zenon DEF Commit, CommitStep, CommitSkip, CommitShort, CommitClaim, CommitStore, Evict,
     CommitFail, CommitSave, CommitFinish, streamVars
<1>2. Reading' = Reading
  BY <1>1 DEF Reading
<1>3. /\ IsRing(ring[s]) /\ DOMAIN ring = Stores
      /\ commit[s].pc # "idle" => ~Reading /\ commit[s] # Idle /\ CommittedRing[s] = ring[s]
  <2>1. IsRing(ring[s]) /\ DOMAIN ring = Stores
    BY DEF BaseInv, RingInv
  <2>2. ASSUME commit[s].pc # "idle"
        PROVE  commit[s] # Idle
    BY <2>2 DEF Idle
  <2> QED BY <2>1, <2>2, ReadingIdle, CommittedAt DEF SysIdle
<1>4. active <=> Reading
  BY Zenon DEF Commit, Settled, Reading
<1>5. commit \in [Stores -> [pc : {"idle", "write", "save", "done", "fail"}, attempt : Nat]]
  BY SameNames DEF BaseInv, Facts!TypeInv, Facts!TypeOK
<1>6. \A t \in Stores \ {s} : ring'[t] = ring[t] /\ commit'[t] = commit[t]
  BY <1>3, <1>5 DEF Commit, CommitStep, CommitSkip, CommitShort, CommitClaim, CommitStore, Evict,
     CommitFail, CommitSave, CommitFinish
<1>7. CommittedRing' = [CommittedRing EXCEPT ![s] = CommittedRing'[s]]
  BY <1>6, CommittedExcept
<1>8. CASE CommitSkip(s)
  <2>1. CommittedRing' = CommittedRing
    BY <1>8, CommittedKept DEF CommitSkip
  <2>2. Facts!CommitSkip(s)
    BY <1>1, <1>2, <1>8, <2>1, SameNames DEF CommitSkip, Reading, Facts!CommitSkip
  <2> QED BY <2>2, SameNames DEF Facts!Next, Facts!CommitStep
<1>9. ASSUME ~active, SysIdle
      PROVE  CommittedRing[s] = ring[s] /\ Facts!Claimed(s) = Claimed(s)
  <2>1. commit[s] = Idle /\ ring[s].head = ring[s].tail
    BY <1>4, <1>9 DEF SysIdle, BaseInv, RingInv, HoldsClaim, Reading
  <2>2. CommittedRing[s] = ring[s]
    BY <1>3, <2>1, CommittedAt, NothingClaimed
  <2> QED BY <2>2, SameRingOps DEF Facts!Claimed, Claimed
<1>10. CASE CommitShort(s)
  <2>1. /\ CommittedRing[s] = ring[s] /\ Facts!Claimed(s) = Claimed(s)
        /\ commit[s] = Idle /\ commit'[s] = Idle
    BY <1>9, <1>10 DEF CommitShort, SysIdle
  <2> DEFINE n == Claimed(s)
             c == RbClaim(ring[s], n)
  <2>2. n \in Nat /\ n <= RbSize(ring[s])
    BY <1>3, ConstantsAssumption, RbClaimLenBounds DEF Claimed
  <2>3. IsRing(c)
    BY <1>3, <2>2, RbClaimIsRing
  <2>4. IsRing(RbFinish(c, 0)) /\ RbFinish(c, 0).head = RbFinish(c, 0).tail
    BY <2>3, RbFinishMoves, RingCursors
  <2>5. ring'[s] = RbFinish(c, 0)
    BY <1>3, <1>10 DEF CommitShort
  <2> HIDE DEF c, n
  <2>6. CommittedRing'[s] = RbFinish(c, 0)
    BY <2>1, <2>4, <2>5, CommittedAt, NothingClaimed
  <2>7. CommittedRing' =
          [CommittedRing EXCEPT ![s] = Facts!RbFinish(Facts!RbClaim(@, Facts!Claimed(s)), 0)]
    BY <1>7, <2>1, <2>6, SameRingOps DEF c, n
  <2>8. Facts!CommitShort(s)
    BY <1>1, <1>2, <1>4, <1>10, <2>1, <2>7, SameNames DEF CommitShort, Facts!CommitShort
  <2> QED BY <2>8, SameNames DEF Facts!Next, Facts!CommitStep
<1>11. CASE CommitClaim(s)
  <2>1. /\ CommittedRing[s] = ring[s] /\ Facts!Claimed(s) = Claimed(s)
        /\ commit'[s] = At("write")
    BY <1>5, <1>9, <1>11 DEF CommitClaim
  <2>2. commit'[s] # Idle
    BY <2>1 DEF At, Idle
  <2>3. CommittedRing'[s] = RbClaim(ring[s], Chunk)
    BY <1>3, <1>11, <2>2, CommittedAt DEF CommitClaim
  <2>4. CommittedRing' = [CommittedRing EXCEPT ![s] = Facts!RbClaim(@, Chunk)]
    BY <1>7, <2>1, <2>3, SameRingOps
  <2>5. Facts!CommitClaim(s)
    BY <1>1, <1>2, <1>4, <1>11, <2>1, <2>4, SameNames DEF CommitClaim, Facts!CommitClaim
  <2> QED BY <2>5, SameNames DEF Facts!Next, Facts!CommitStep
<1>12. CASE CommitStore(s) \/ Evict(s) \/ CommitFail(s) \/ CommitSave(s)
  <2>1. /\ commit[s].pc # "idle" /\ ring' = ring
        /\ commit'[s].pc \in {"write", "save", "done", "fail"}
    BY <1>5, <1>12 DEF CommitStore, Evict, CommitFail, CommitSave, At
  <2>2. commit'[s] # Idle
    BY <2>1 DEF Idle
  <2>3. CommittedRing'[s] = CommittedRing[s]
    BY <1>3, <2>1, <2>2, CommittedAt
  <2>4. CommittedRing' = CommittedRing
    BY <1>7, <2>3 DEF CommittedRing
  <2>5. CASE CommitStore(s)
    <3>1. Facts!ChunkOf(s) = ChunkOf(s)
      BY <1>3, <2>1, SameNames DEF Facts!ChunkOf, ChunkOf
    <3>2. Facts!Fits(s) = Fits(s)
      BY SameCardinalities DEF Facts!Fits, Fits
    <3>3. Facts!CommitStore(s)
      BY <1>2, <2>4, <2>5, <3>1, <3>2, SameNames
         DEF CommitStore, Facts!CommitStore, Appended, Facts!Appended
    <3> QED BY <3>3, SameNames DEF Facts!Next, Facts!CommitStep
  <2>6. CASE Evict(s)
    <3>1. Facts!NoSpace(s) = NoSpace(s)
      BY SameCardinalities DEF Facts!NoSpace, NoSpace
    <3>2. Facts!Evict(s)
      BY Zenon, <1>2, <2>4, <2>6, <3>1, SameNames
         DEF Evict, Facts!Evict, Evicted, Facts!Evicted, Victim, Facts!Victim, CanEvict,
             Facts!CanEvict, LastAttempt, Facts!LastAttempt
    <3> QED BY <3>2, SameNames DEF Facts!Next, Facts!CommitStep
  <2>7. CASE CommitFail(s)
    <3>1. Facts!NoSpace(s) = NoSpace(s)
      BY SameCardinalities DEF Facts!NoSpace, NoSpace
    <3>2. Facts!CommitFail(s)
      BY Zenon, <1>2, <2>4, <2>7, <3>1, SameNames
         DEF CommitFail, Facts!CommitFail, CanEvict, Facts!CanEvict
    <3> QED BY <3>2, SameNames DEF Facts!Next, Facts!CommitStep
  <2>8. CASE CommitSave(s)
    <3>1. Facts!CommitSave(s)
      BY Zenon, <1>2, <2>4, <2>8, SameNames
         DEF CommitSave, Facts!CommitSave, SavedMeta, Facts!SavedMeta
    <3> QED BY <3>1, SameNames DEF Facts!Next, Facts!CommitStep
  <2> QED BY <1>12, <2>5, <2>6, <2>7, <2>8
<1>13. CASE CommitFinish(s)
  <2> DEFINE n == FinishLen(s)
  <2>1. /\ commit[s].pc # "idle" /\ CommittedRing[s] = ring[s] /\ commit'[s] = Idle
        /\ ring'[s] = RbFinish(ring[s], n)
    BY <1>3, <1>5, <1>13 DEF CommitFinish
  <2>2. ring[s].head = ring[s].tail + Chunk /\ Chunk \in Nat /\ n \in {0, Chunk}
    BY <2>1, ConstantsAssumption, SameNames DEF BaseInv, Facts!TypeInv, Facts!ClaimInv, FinishLen
  <2>3. n \in Nat /\ n <= ring[s].head - ring[s].tail
    BY <1>3, <2>2, RingCursors
  <2>4. IsRing(RbFinish(ring[s], n)) /\ RbFinish(ring[s], n).head = RbFinish(ring[s], n).tail
    BY <1>3, <2>3, RbFinishMoves
  <2>5. CommittedRing'[s] = RbFinish(ring[s], n)
    BY <2>1, <2>4, CommittedAt, NothingClaimed
  <2>6. Facts!FinishLen(s) = n
    BY DEF Facts!FinishLen, FinishLen
  <2> HIDE DEF n
  <2>7. CommittedRing' = [CommittedRing EXCEPT ![s] = Facts!RbFinish(@, Facts!FinishLen(s))]
    BY <1>7, <2>1, <2>5, <2>6, SameRingOps
  <2>8. Facts!CommitFinish(s)
    BY <1>2, <1>13, <2>7, SameNames DEF CommitFinish, Facts!CommitFinish
  <2> QED BY <2>8, SameNames DEF Facts!Next, Facts!CommitStep
<1> QED
  BY <1>8, <1>10, <1>11, <1>12, <1>13 DEF Commit, CommitStep

\* Clearing: a packet that is still in the works keeps the store as it is.
LEMMA ClearMaps ==
  ASSUME BaseInv, Clear
  PROVE  [Facts!Next]_(Facts!vars)
<1>1. active' = active /\ hpc' = hpc
  BY Zenon DEF Clear, ClearStep, ClearCancel, ClearFlash, ClearRam, streamVars
<1>2. Reading' = Reading
  BY <1>1 DEF Reading
<1>3. CASE ClearCancel
  <2>1. CommittedRing' = CommittedRing
    BY <1>3, CommittedKept DEF ClearCancel
  <2>2. Facts!ClearCancel
    BY <1>2, <1>3, <2>1, SameNames DEF ClearCancel, Facts!ClearCancel
  <2> QED BY <2>2 DEF Facts!Next, Facts!ClearStep
<1>4. ASSUME NEW s \in Stores, ClearFlash(s)
      PROVE  [Facts!Next]_(Facts!vars)
  <2>1. CommittedRing' = CommittedRing
    BY <1>4, CommittedKept DEF ClearFlash
  <2>2. Facts!ClearFlash(s)
    BY Zenon, <1>2, <1>4, <2>1, SameNames DEF ClearFlash, Facts!ClearFlash
  <2> QED BY <2>2, SameNames DEF Facts!Next, Facts!ClearStep
<1>5. CASE ClearRam
  <2>1. \A s \in Stores : commit'[s] = Idle /\ ring'[s] = RbEmpty
    BY <1>5, SameNames DEF ClearRam, BaseInv, Facts!TypeInv, Facts!ExclusionInv, SysIdle
  <2>2. Unclaimed(RbEmpty) = RbEmpty
    BY RbEmptyIsRing, NothingClaimed DEF RbEmpty
  <2>3. CommittedRing' = [s \in Stores |-> RbEmpty]
    BY <2>1, <2>2 DEF CommittedRing, Idle
  <2>4. Facts!ClearRam
    BY <1>2, <1>5, <2>3, SameNames DEF ClearRam, Facts!ClearRam
  <2> QED BY <2>4 DEF Facts!Next, Facts!ClearStep
<1> QED
  BY <1>3, <1>4, <1>5 DEF Clear, ClearStep

LEMMA MapsToStore ==
  ASSUME BaseInv, ~Overlap, Streams, [StreamNext]_allVars
  PROVE  [Facts!Next]_(Facts!vars)
<1>1. CASE UNCHANGED allVars
  BY <1>1, CommittedKept DEF allVars, storeVars, streamVars, Reading, Facts!vars
<1>2. ASSUME NEW s \in Stores, Log(s) \/ Commit(s)
      PROVE  [Facts!Next]_(Facts!vars)
  BY <1>2, LogMaps, CommitMaps
<1> QED
  BY <1>1, <1>2, QuietMaps, SendRamMaps, PostMaps, CommandMaps, ClearMaps
     DEF StreamNext, Handler, Send

-----------------------------------------------------------------------------
(***************************************************************************)
(* The pieces a packet is cut from.                                        *)
(***************************************************************************)
LEMMA PrefixOf ==
  ASSUME NEW q \in Seq(Nat)
  PROVE  /\ Prefix(q) \in Seq(Nat) /\ Len(Prefix(q)) \in Nat
         /\ Len(Prefix(q)) <= Len(q) /\ Len(Prefix(q)) <= Cap
         /\ q # <<>> => Len(Prefix(q)) > 0
         /\ \A i \in 1 .. Len(Prefix(q)) : Prefix(q)[i] = q[i]
<1> DEFINE n == IF Len(q) < Cap THEN Len(q) ELSE Cap
<1>1. Len(q) \in Nat /\ Cap \in Nat \ {0}
  BY LenProperties, StreamAssumption
<1>2. n \in Nat /\ n <= Len(q) /\ n <= Cap /\ (q # <<>> => n > 0)
  BY <1>1, EmptySeq
<1>3. Prefix(q) = SubSeq(q, 1, n)
  BY DEF Prefix
<1> HIDE DEF n
<1>4. \A i \in 1 .. n : q[i] \in Nat
  BY <1>1, <1>2, ElementOfSeq
<1>5. /\ SubSeq(q, 1, n) \in Seq(Nat)
      /\ Len(SubSeq(q, 1, n)) = IF 1 <= n THEN n - 1 + 1 ELSE 0
      /\ \A i \in 1 .. n - 1 + 1 : SubSeq(q, 1, n)[i] = q[1 + i - 1]
  BY <1>2, <1>4, SubSeqProperties
<1>6. Len(Prefix(q)) = n
  BY <1>2, <1>3, <1>5
<1>7. \A i \in 1 .. n : Prefix(q)[i] = q[i]
  BY <1>2, <1>3, <1>5
<1> QED
  BY <1>2, <1>3, <1>5, <1>6, <1>7

LEMMA RestOf ==
  ASSUME NEW q \in Seq(Nat), NEW n \in Nat, n <= Len(q)
  PROVE  /\ SubSeq(q, n + 1, Len(q)) \in Seq(Nat)
         /\ Len(SubSeq(q, n + 1, Len(q))) = Len(q) - n
         /\ \A i \in 1 .. Len(q) - n : SubSeq(q, n + 1, Len(q))[i] = q[n + i]
<1>1. Len(q) \in Nat
  BY LenProperties
<1>2. \A i \in (n + 1) .. Len(q) : q[i] \in Nat
  BY <1>1, ElementOfSeq
<1>3. /\ SubSeq(q, n + 1, Len(q)) \in Seq(Nat)
      /\ Len(SubSeq(q, n + 1, Len(q))) = IF n + 1 <= Len(q) THEN Len(q) - (n + 1) + 1 ELSE 0
      /\ \A i \in 1 .. Len(q) - (n + 1) + 1 : SubSeq(q, n + 1, Len(q))[i] = q[n + 1 + i - 1]
  BY <1>1, <1>2, SubSeqProperties
<1> QED
  BY <1>1, <1>3

LEMMA SeqOfChunk ==
  ASSUME NEW c \in [Offsets -> Nat]
  PROVE  /\ SeqOf(c) \in Seq(Nat) /\ Len(SeqOf(c)) = Chunk
         /\ \A i \in 1 .. Chunk : SeqOf(c)[i] = c[i - 1]
<1>1. Chunk \in Nat \ {0} /\ \A i \in 1 .. Chunk : i - 1 \in Offsets
  BY ConstantsAssumption DEF Offsets
<1>2. SeqOf(c) \in [1 .. Chunk -> Nat]
  BY <1>1 DEF SeqOf
<1>3. SeqOf(c) \in Seq(Nat)
  BY <1>1, <1>2, SeqDef
<1>4. DOMAIN SeqOf(c) = 1 .. Chunk /\ Len(SeqOf(c)) \in Nat
  BY <1>2, <1>3, LenProperties
<1>5. Len(SeqOf(c)) = Chunk
  BY <1>1, <1>3, <1>4, LenProperties
<1> QED
  BY <1>3, <1>5 DEF SeqOf

LEMMA NoRecords == <<>> \in Seq(Nat) /\ Len(<<>>) = 0 /\ Len(<<>>) <= Chunk
<1>1. <<>> \in Seq(Nat) /\ Len(<<>>) = 0
  BY EmptySeq
<1> QED
  BY <1>1, ConstantsAssumption

-----------------------------------------------------------------------------
(***************************************************************************)
(* Types.                                                                  *)
(***************************************************************************)
LEMMA StoreTypes ==
  ASSUME BaseInv, NEW s \in Stores
  PROVE  /\ DOMAIN flash[s].data \subseteq Nat
         /\ flash[s].data \in [DOMAIN flash[s].data -> [Offsets -> Nat]]
         /\ meta[s].write \in Nat /\ meta[s].oldest \in Nat
         /\ offered[s] \in Nat
         /\ IsRing(ring[s])
BY SameNames, SameRingOps
   DEF BaseInv, Facts!TypeInv, Facts!TypeOK, Facts!IsFlash, Meta, RingInv

\* The packet cut from a flash entry, and the one claimed from the tail.
LEMMA ZmsPacket ==
  ASSUME BaseInv, SendZms
  PROVE  /\ stage' \in Seq(Nat) /\ Len(stage') <= Chunk /\ stage' # <<>>
         /\ pkt' \in Packet /\ pkt'.recs = Prefix(stage')
         /\ pkt'.kind = "zms" /\ pkt'.store = StoreOf(phase) /\ pkt'.seq = seq /\ pkt'.res = "ok"
         /\ rkey' \in [Stores -> Nat]
<1> DEFINE s == StoreOf(phase)
<1>1. /\ s \in Stores
      /\ \/ stage # <<>> /\ UNCHANGED <<stage, rkey>>
         \/ \E k \in NextKeys(s) : /\ stage' = SeqOf(flash[s].data[k])
                                   /\ rkey' = [rkey EXCEPT ![s] = k + 1]
      /\ pkt' = [kind |-> "zms", store |-> s, recs |-> Prefix(stage'), seq |-> seq, res |-> "ok"]
  BY DEF SendZms, Loadable, StoreOf, Stores
<1>2. /\ stage \in Seq(Nat) /\ Len(stage) <= Chunk /\ rkey \in [Stores -> Nat] /\ seq \in Nat
      /\ Chunk \in Nat \ {0}
  BY ConstantsAssumption DEF BaseInv, StreamTypeOK
<1>3. /\ stage' \in Seq(Nat) /\ Len(stage') <= Chunk /\ stage' # <<>>
      /\ rkey' \in [Stores -> Nat]
  <2>1. CASE stage # <<>> /\ UNCHANGED <<stage, rkey>>
    BY <1>2, <2>1
  <2>2. ASSUME NEW k \in NextKeys(s), stage' = SeqOf(flash[s].data[k]),
               rkey' = [rkey EXCEPT ![s] = k + 1]
        PROVE  /\ stage' \in Seq(Nat) /\ Len(stage') <= Chunk /\ stage' # <<>>
               /\ rkey' \in [Stores -> Nat]
    <3>1. k \in Nat /\ flash[s].data[k] \in [Offsets -> Nat]
      BY <1>1, <2>2, StoreTypes DEF NextKeys
    <3>2. SeqOf(flash[s].data[k]) \in Seq(Nat) /\ Len(SeqOf(flash[s].data[k])) = Chunk
      BY <3>1, SeqOfChunk
    <3>3. stage' \in Seq(Nat) /\ Len(stage') <= Chunk /\ stage' # <<>>
      BY <1>2, <2>2, <3>2, EmptySeq
    <3>4. k + 1 \in Nat
      BY <3>1
    <3>5. rkey \in [Stores -> Nat] /\ rkey' = [rkey EXCEPT ![s] = k + 1]
      BY <1>2, <2>2, Zenon
    <3>6. rkey' \in [Stores -> Nat]
      BY <3>4, <3>5
    <3> QED BY <3>3, <3>6, Zenon
  <2> QED BY <1>1, <2>1, <2>2
<1> HIDE DEF s
<1>4. Prefix(stage') \in Seq(Nat)
  BY <1>3, PrefixOf
<1> QED
  BY <1>1, <1>2, <1>3, <1>4 DEF Packet, s

LEMMA RamPacket ==
  ASSUME BaseInv, SendRam, NEW s, s = StoreOf(phase),
         NEW n, n = RbClaimLen(ring[s], Cap, RingSize[s])
  PROVE  /\ s \in Stores /\ n \in Nat /\ n <= RbSize(ring[s])
         /\ ring' = [ring EXCEPT ![s] = RbClaim(@, n)]
         /\ pkt' \in Packet /\ Len(pkt'.recs) = n
         /\ pkt'.kind = (IF n = 0 THEN "last" ELSE "ram")
         /\ pkt'.store = s /\ pkt'.seq = seq /\ pkt'.res = "ok"
         /\ DOMAIN pkt'.recs = 1 .. n
         /\ \A i \in 1 .. n : pkt'.recs[i] = ring[s].slot[ring[s].head + i - 1]
<1> DEFINE q == [i \in 1 .. n |-> ring[s].slot[ring[s].head + i - 1]]
<1>1. /\ s \in Stores /\ ring' = [ring EXCEPT ![s] = RbClaim(@, n)]
      /\ pkt' = [kind |-> IF n = 0 THEN "last" ELSE "ram", store |-> s, recs |-> q,
                 seq |-> seq, res |-> "ok"]
  BY DEF SendRam, StoreOf, Stores
<1>2. IsRing(ring[s]) /\ RingSize[s] \in Nat \ {0} /\ Cap \in Nat
  BY <1>1, StoreTypes, ConstantsAssumption, StreamAssumption
<1>3. n \in Nat /\ n <= RbSize(ring[s])
  BY <1>2, RbClaimLenBounds
<1>4. \A i \in 1 .. n : ring[s].head + i - 1 \in ring[s].tail .. (ring[s].put - 1)
  BY <1>2, <1>3, RingCursors
<1>5. q \in [1 .. n -> Nat]
  BY <1>2, <1>4, RingCursors
<1>6. q \in Seq(Nat) /\ Len(q) = n
  <2>1. q \in Seq(Nat)
    BY <1>3, <1>5, SeqDef
  <2>2. DOMAIN q = 1 .. n
    BY <1>5
  <2> HIDE DEF q
  <2> QED BY <1>3, <2>1, <2>2, LenProperties
<1>7. seq \in Nat
  BY DEF BaseInv, StreamTypeOK
<1>8. pkt'.recs = q
  BY <1>1
<1> HIDE DEF q
<1>9. pkt' \in Packet
  BY <1>1, <1>6, <1>7 DEF Packet
<1> QED
  BY <1>1, <1>3, <1>6, <1>8, <1>9 DEF q

LEMMA StreamTypeStep ==
  ASSUME BaseInv, [StreamNext]_allVars
  PROVE  StreamTypeOK' /\ GhostInv'
<1> USE DEF BaseInv, StreamTypeOK, GhostInv
<1>0. MaxErr \in Nat \ {0} /\ NotifyErrs \subseteq {"nomem", "other"} /\ MaxCallbacks \in Nat
  BY StreamAssumption
<1>1. ASSUME UNCHANGED <<active, streamVars>>
      PROVE  StreamTypeOK' /\ GhostInv'
  BY <1>1 DEF streamVars
<1>2. ASSUME NEW s \in Stores, Log(s) \/ Commit(s)
      PROVE  UNCHANGED <<active, streamVars>>
  BY Zenon, <1>2 DEF Log, PutRefused, PutAccepted, Commit, CommitStep, CommitSkip, CommitShort,
     CommitClaim, CommitStore, Evict, CommitFail, CommitSave, CommitFinish
<1>3. ASSUME Clear
      PROVE  UNCHANGED <<active, streamVars>>
  BY Zenon, <1>3 DEF Clear, ClearStep, ClearCancel, ClearFlash, ClearRam
<1>4. CASE HandlerWait
  BY <1>4 DEF HandlerWait, WaitWork, handlerVars, sessionVars, ghostVars
<1>5. CASE HandlerRun \/ HandlerTimeout
  <2>1. Proceed
    BY <1>5 DEF HandlerRun, HandlerTimeout
  <2>2. active' \in BOOLEAN
    BY Zenon, <2>1 DEF Proceed
  <2>3. hpc' \in {"send", "idle"}
    BY <2>1 DEF Proceed
  <2> QED BY <2>1, <2>2, <2>3 DEF Proceed, sessionVars, ghostVars
<1>6. CASE SendZms
  BY <1>6, ZmsPacket DEF SendZms, Packet, ghostVars
<1>7. CASE AdvancePhase
  <2>1. pkt' = [NoPkt EXCEPT !.res = "again"] /\ phase' \in {"ram stamp", "ram ambient"}
    BY <1>7 DEF AdvancePhase
  <2>2. pkt' \in Packet
    BY <2>1, EmptySeq DEF NoPkt, Packet, Stores
  <2>3. rkey' \in [Stores -> Nat]
    BY <1>7 DEF AdvancePhase
  <2> QED BY <1>7, <2>1, <2>2, <2>3 DEF AdvancePhase, Packet, Phases, ghostVars
<1>8. CASE SendRam
  BY <1>8, RamPacket DEF SendRam, Packet, sessionVars, ghostVars
<1>9. CASE NotifyOk
  <2>1. pkt \in Packet
    BY DEF Packet
  <2>2. wire' \in Seq(Packet)
    BY <1>9, <2>1, AppendProperties DEF NotifyOk
  <2>3. callbacks' \in Nat
    BY <1>0, <1>9 DEF NotifyOk
  <2> QED BY <1>9, <2>2, <2>3 DEF NotifyOk, sessionVars
<1>10. CASE NotifyFails
  BY <1>0, <1>10 DEF NotifyFails, sessionVars, ghostVars
<1>11. CASE Post
  <2>1. seq' \in Nat
    <3>1. seq' = seq \/ seq' = seq + 1
      BY <1>11 DEF Post, NextSeq
    <3>2. seq \in Nat
      OBVIOUS
    <3> QED BY <3>1, <3>2
  <2>2. stage' \in Seq(Nat) /\ Len(stage') <= Chunk
    <3>1. stage' = stage \/ stage' = <<>> \/ (pkt.kind = "zms" /\ pkt.res = "ok" /\ stage' = NextStage(Len(pkt.recs)))
      BY <1>11 DEF Post
    <3>2. CASE pkt.kind = "zms" /\ stage' = NextStage(Len(pkt.recs))
      <4>1. pkt.recs = Prefix(stage)
        BY <1>11, <3>2 DEF PacketInv, Post
      <4>2. Len(pkt.recs) \in Nat /\ Len(pkt.recs) <= Len(stage)
        BY <4>1, PrefixOf
      <4>3. stage' \in Seq(Nat) /\ Len(stage') = Len(stage) - Len(pkt.recs)
        BY <3>2, <4>2, RestOf DEF NextStage
      <4>4. Len(stage) \in Nat /\ Len(stage) <= Chunk /\ Chunk \in Nat
        BY ConstantsAssumption, LenProperties
      <4> QED BY <4>2, <4>3, <4>4
    <3>3. CASE stage' = stage
      BY <3>3
    <3>4. CASE stage' = <<>>
      BY <3>4, NoRecords
    <3> QED BY <3>1, <3>2, <3>3, <3>4
  <2>3. phase' \in Phases
    BY <1>11 DEF Post, Phases
  <2>4. active' \in BOOLEAN /\ inflight' \in BOOLEAN
    BY Zenon, <1>11 DEF Post
  <2> QED BY <1>11, <2>1, <2>2, <2>3, <2>4 DEF Post, ghostVars
<1>12. CASE Resched
  <2>1. pkt' \in Packet
    BY <1>12, EmptySeq DEF Resched, NoPkt, Packet, Stores
  <2>2. err' \in 0 .. MaxErr - 1
    <3>1. \/ err' = 0
          \/ err' = err
          \/ pkt.res = "other" /\ ~Aborts /\ err' = err + 1
      BY <1>12 DEF Resched
    <3> QED BY <1>0, <3>1 DEF Aborts
  <2>3. active' \in BOOLEAN /\ work' \in BOOLEAN
    BY Zenon, <1>12 DEF Resched
  <2> QED BY <1>12, <2>1, <2>2, <2>3 DEF Resched, Packet, sessionVars, ghostVars
<1>13. CASE SentCb
  <2>1. work' \in BOOLEAN
    BY Zenon, <1>13 DEF SentCb
  <2>2. callbacks' \in Nat
    BY <1>13 DEF SentCb
  <2>3. active' \in BOOLEAN /\ conn' \in BOOLEAN /\ inflight' \in BOOLEAN
    BY Zenon, <1>13 DEF SentCb
  <2>4. UNCHANGED <<active, conn, hpc, pkt, seq, err, phase, rkey, endkey, stage, starting, starts,
                 wire, due>>
    BY Zenon, <1>13 DEF SentCb, handlerVars, sessionVars
  <2> QED BY <2>1, <2>2, <2>3, <2>4
<1>14. CASE StartBegin
  <2>1. starting' \in {"no", "cancel"}
    BY <1>14 DEF StartBegin
  <2> QED BY <1>0, <1>14, <2>1 DEF StartBegin, handlerVars, sessionVars
<1>15. CASE StartCancel
  BY <1>15 DEF StartCancel, handlerVars, sessionVars, ghostVars
<1>16. CASE StartActivate
  <2>1. rkey' \in [Stores -> Nat] /\ endkey' \in [Stores -> Nat]
    BY <1>16, StoreTypes DEF StartActivate, Snapshot
  <2>2. \A s \in Stores : Readable(s) \subseteq Nat
    <3> TAKE s \in Stores
    <3>1. RangeOf(ring[s].slot) \subseteq Nat
      <4>1. ring[s].slot \in [ring[s].tail .. (ring[s].put - 1) -> Nat]
        BY StoreTypes DEF IsRing
      <4> QED BY <4>1 DEF RangeOf
    <3>2. \A k \in LiveKeys(s) : RangeOf(flash[s].data[k]) \subseteq Nat
      BY StoreTypes DEF LiveKeys, RangeOf
    <3> QED BY <3>1, <3>2 DEF Readable
  <2>3. due' \in [Stores -> SUBSET Nat]
    BY <1>16, <2>2 DEF StartActivate
  <2>4. stage' = <<>> /\ wire' = <<>> /\ stage' \in Seq(Nat) /\ wire' \in Seq(Packet)
        /\ Len(stage') <= Chunk
    BY <1>16, NoRecords, EmptySeq DEF StartActivate
  <2> QED BY <1>16, <2>1, <2>3, <2>4 DEF StartActivate, Phases, handlerVars
<1>17. CASE StopCommand
  BY <1>17 DEF StopCommand, StopEffects, handlerVars, sessionVars, ghostVars
<1>18. CASE ClearCommand
  BY <1>18 DEF ClearCommand, StopEffects, NothingDue, handlerVars, sessionVars
<1>19. CASE Disconnect
  <2>1. callbacks' \in Nat
    BY <1>19 DEF Disconnect
  <2> QED BY <1>19, <2>1 DEF Disconnect, StopEffects, handlerVars, sessionVars
<1>20. CASE Connect
  BY <1>20 DEF Connect, handlerVars, sessionVars, ghostVars
<1>21. CASE UNCHANGED allVars
  BY <1>1, <1>21 DEF allVars
<1> QED
  BY <1>1, <1>2, <1>3, <1>4, <1>5, <1>6, <1>7, <1>8, <1>9, <1>10, <1>11, <1>12, <1>13, <1>14,
     <1>15, <1>16, <1>17, <1>18, <1>19, <1>20, <1>21 DEF StreamNext, Handler, Send

-----------------------------------------------------------------------------
(***************************************************************************)
(* Commands and the handler keep out of each other's way.                  *)
(***************************************************************************)
LEMMA ControlStep ==
  ASSUME BaseInv, ~Overlap, [StreamNext]_allVars
  PROVE  ControlInv'
<1>1. /\ starting # "no" => ~active /\ hpc = "idle" /\ clearing = "no"
      /\ starting = "activate" => SysIdle /\ pending = {}
      /\ clearing # "no" => due = NothingDue
  BY DEF BaseInv, ControlInv
<1>2. CASE UNCHANGED allVars
  BY <1>1, <1>2 DEF allVars, storeVars, streamVars, ControlInv, SysIdle, Idle, NothingDue
<1>3. ASSUME NEW s \in Stores, Log(s)
      PROVE  ControlInv'
  <2>1. starting' = "no" /\ clearing' = clearing /\ due' = due
    BY <1>3 DEF Log, PutRefused, PutAccepted, streamVars
  <2> QED BY <1>1, <2>1 DEF ControlInv, NothingDue
<1>4. ASSUME NEW s \in Stores, Commit(s)
      PROVE  ControlInv'
  <2>1. /\ starting' = starting /\ clearing' = clearing /\ due' = due /\ active' = active
        /\ hpc' = hpc
    BY Zenon, <1>4 DEF Commit, CommitStep, CommitSkip, CommitShort, CommitClaim, CommitStore, Evict,
       CommitFail, CommitSave, CommitFinish, streamVars
  <2>2. ~(SysIdle /\ pending = {})
    BY <1>4 DEF Commit, CommitStep, CommitSkip, CommitShort, CommitClaim, CommitStore, Evict,
       CommitFail, CommitSave, CommitFinish, SysIdle, Idle
  <2> QED BY <1>1, <2>1, <2>2 DEF ControlInv, NothingDue
<1>5. CASE Clear
  <2>1. clearing # "no" /\ starting' = starting /\ due' = due
    BY <1>5 DEF Clear, ClearStep, ClearCancel, ClearFlash, ClearRam, Stores, streamVars
  <2> QED BY <1>1, <2>1 DEF ControlInv, NothingDue
<1>6. CASE HandlerRun \/ HandlerTimeout
  <2>1. /\ UNCHANGED <<commit, pending, clearing, starting, due>>
        /\ active' = (active /\ conn) /\ hpc' = (IF active /\ conn THEN "send" ELSE "idle")
    BY Zenon, <1>6 DEF HandlerRun, HandlerTimeout, Proceed, storeVars, ghostVars
  <2> QED BY <1>1, <2>1 DEF ControlInv, NothingDue, SysIdle, Idle
<1>7. CASE HandlerWait \/ SentCb \/ Connect \/ StopCommand \/ Disconnect
  <2>1. /\ UNCHANGED <<commit, pending, clearing, starting, due, hpc>>
        /\ active' = active \/ active' = FALSE
    BY Zenon, <1>7 DEF HandlerWait, SentCb, Connect, StopCommand, Disconnect, StopEffects, storeVars,
       ghostVars, handlerVars
  <2> QED BY <1>1, <2>1 DEF ControlInv, NothingDue, SysIdle, Idle
<1>8. CASE SendZms \/ AdvancePhase \/ SendRam \/ NotifyOk \/ NotifyFails \/ Post \/ Resched
  <2>1. UNCHANGED <<clearing, starting, due>> /\ hpc # "idle"
    BY <1>8 DEF SendZms, AdvancePhase, SendRam, NotifyOk, NotifyFails, Post, Resched, storeVars,
       ghostVars
  <2> QED BY <1>1, <2>1 DEF ControlInv, NothingDue
<1>9. CASE StartBegin
  <2>1. /\ UNCHANGED <<clearing, active, hpc, due>> /\ clearing = "no"
        /\ (hpc = "idle" \/ active)
        /\ starting' = IF active THEN "no" ELSE "cancel"
    BY <1>9 DEF StartBegin, NoCommand, Settled, storeVars, handlerVars
  <2> QED BY <2>1 DEF ControlInv
<1>10. CASE StartCancel
  BY <1>1, <1>10 DEF StartCancel, Cancelled, ControlInv, SysIdle, Idle, handlerVars
<1>11. CASE StartActivate
  BY <1>1, <1>11 DEF StartActivate, ControlInv, storeVars
<1>12. CASE ClearCommand
  BY <1>12 DEF ClearCommand, NoCommand, ControlInv, NothingDue
<1> QED
  BY <1>2, <1>3, <1>4, <1>5, <1>6, <1>7, <1>8, <1>9, <1>10, <1>11, <1>12
     DEF StreamNext, Handler, Send

\* A packet keeps to the phase it was cut in.
LEMMA PacketStep ==
  ASSUME BaseInv, ~Overlap, [StreamNext]_allVars
  PROVE  PacketInv'
<1>1. CASE UNCHANGED <<hpc, pkt, phase, seq, stage>>
  BY <1>1 DEF BaseInv, PacketInv, StoreOf, Prefix
<1>2. CASE ~(hpc' \in {"notify", "post"})
  BY <1>2 DEF PacketInv
<1>3. CASE SendZms
  <2>1. /\ pkt'.recs = Prefix(stage') /\ stage' # <<>>
        /\ pkt'.kind = "zms" /\ pkt'.store = StoreOf(phase) /\ pkt'.seq = seq /\ pkt'.res = "ok"
    BY <1>3, ZmsPacket
  <2>2. phase \in {"zms stamp", "zms ambient"} /\ phase' = phase /\ seq' = seq
    BY <1>3 DEF SendZms
  <2>3. Prefix(stage)' = Prefix(stage') /\ StoreOf(phase)' = StoreOf(phase)
    BY <2>2 DEF Prefix, StoreOf
  <2> QED BY <2>1, <2>2, <2>3 DEF PacketInv
<1>4. CASE SendRam
  <2> DEFINE n == RbClaimLen(ring[StoreOf(phase)], Cap, RingSize[StoreOf(phase)])
  <2>1. /\ pkt'.kind = (IF n = 0 THEN "last" ELSE "ram") /\ n \in Nat
        /\ pkt'.store = StoreOf(phase) /\ pkt'.seq = seq /\ pkt'.res = "ok"
        /\ pkt' \in Packet /\ Len(pkt'.recs) = n
    BY <1>4, RamPacket
  <2>2. phase \in {"ram stamp", "ram ambient"} /\ phase' = phase /\ seq' = seq
    BY <1>4 DEF SendRam, sessionVars
  <2> HIDE DEF n
  <2>3. n = 0 => pkt'.recs = <<>>
    BY <2>1, EmptySeq DEF Packet
  <2>4. StoreOf(phase)' = StoreOf(phase)
    BY <2>2 DEF StoreOf
  <2> QED BY <2>1, <2>2, <2>3, <2>4 DEF PacketInv
<1>5. CASE NotifyOk
  <2>1. hpc = "notify" /\ UNCHANGED <<pkt, phase, seq, stage>>
    BY <1>5 DEF NotifyOk, sessionVars
  <2> QED BY <2>1 DEF BaseInv, PacketInv, StoreOf, Prefix
<1>6. CASE NotifyFails
  <2>1. PICK e \in {"nomem", "other"} : pkt' = [pkt EXCEPT !.res = e]
    BY <1>6, StreamAssumption DEF NotifyFails
  <2>2. hpc = "notify" /\ UNCHANGED <<phase, seq, stage>>
    BY <1>6 DEF NotifyFails, sessionVars
  <2>3. /\ pkt'.kind = pkt.kind /\ pkt'.store = pkt.store /\ pkt'.seq = pkt.seq
        /\ pkt'.recs = pkt.recs /\ pkt'.res = e
    BY <2>1 DEF BaseInv, StreamTypeOK
  <2>4. hpc' = "post"
    BY <1>6 DEF NotifyFails
  <2> QED BY <2>2, <2>3, <2>4 DEF BaseInv, PacketInv, StoreOf, Prefix
<1>7. CASE StartActivate
  BY <1>7 DEF StartActivate, BaseInv, ControlInv, PacketInv, handlerVars
<1>8. ASSUME NEW s \in Stores, Log(s) \/ Commit(s)
      PROVE  UNCHANGED <<hpc, pkt, phase, seq, stage>>
  BY <1>8 DEF Log, Commit, streamVars
<1>9. CASE Clear \/ SentCb \/ StartBegin \/ StartCancel \/ StopCommand \/ ClearCommand
           \/ Connect \/ Disconnect \/ HandlerWait \/ UNCHANGED allVars
  <2>1. UNCHANGED <<hpc, pkt, phase, seq, stage>>
    BY Zenon, <1>9 DEF Clear, SentCb, StartBegin, StartCancel, StopCommand, ClearCommand, Connect,
       Disconnect, HandlerWait, allVars, streamVars, handlerVars, sessionVars
  <2> QED BY <1>1, <2>1
<1>10. CASE HandlerRun \/ HandlerTimeout \/ AdvancePhase \/ Post \/ Resched
  <2>1. hpc' \in {"send", "idle", "resched"}
    BY <1>10 DEF HandlerRun, HandlerTimeout, Proceed, AdvancePhase, Post, Resched
  <2> QED BY <1>2, <2>1
<1> QED
  BY <1>1, <1>3, <1>4, <1>5, <1>6, <1>7, <1>8, <1>9, <1>10 DEF StreamNext, Handler, Send

-----------------------------------------------------------------------------
(***************************************************************************)
(* Claims on the tails.                                                    *)
(***************************************************************************)
\* A ring nobody claims from.
LEMMA FreeRing ==
  ASSUME NEW t \in Stores, IsRing(ring'[t]), ring'[t].head = ring'[t].tail
  PROVE  RingInv(t)'
BY DEF RingInv

\* A claim outlasts what is put behind it.
LEMMA ClaimOutlasts ==
  ASSUME NEW t \in Stores, HoldsClaim(t), pkt.recs \in Seq(Nat), IsRing(ring[t]),
         hpc' \in {"notify", "post"},
         pkt'.kind = pkt.kind, pkt'.store = pkt.store, pkt'.recs = pkt.recs,
         IsRing(ring'[t]), ring'[t].tail = ring[t].tail, ring'[t].head = ring[t].head,
         \A p \in ring[t].tail .. (ring[t].head - 1) : ring'[t].slot[p] = ring[t].slot[p]
  PROVE  HoldsClaim(t)'
<1>1. /\ Len(pkt.recs) \in Nat /\ DOMAIN pkt.recs = 1 .. Len(pkt.recs)
      /\ ring[t].tail \in Nat /\ ring[t].head = ring[t].tail + Len(pkt.recs)
  BY LenProperties, RingCursors DEF HoldsClaim
<1>2. \A i \in DOMAIN pkt.recs : pkt.recs[i] = ring'[t].slot[ring'[t].tail + i - 1]
  <2> TAKE i \in DOMAIN pkt.recs
  <2>1. ring[t].tail + i - 1 \in ring[t].tail .. (ring[t].head - 1)
    BY <1>1
  <2> QED BY <2>1 DEF HoldsClaim
<1>3. RbContig(Unclaimed(ring'[t]), RingSize[t]) = RbContig(Unclaimed(ring[t]), RingSize[t])
  <2>1. Unclaimed(ring'[t]).head = ring[t].tail /\ Unclaimed(ring[t]).head = ring[t].tail
    BY UnclaimedIsRing
  <2> QED BY <2>1 DEF RbContig
<1>4. RbContig(Unclaimed(ring[t]), RingSize[t])' = RbContig(Unclaimed(ring'[t]), RingSize[t])
  BY DEF RbContig, Unclaimed
<1> QED
  BY <1>2, <1>3, <1>4 DEF HoldsClaim

LEMMA RingSame ==
  ASSUME BaseInv, NEW t \in Stores, ring'[t] = ring[t], commit'[t] = commit[t],
         \/ ~(hpc \in {"notify", "post"})
         \/ /\ hpc' \in {"notify", "post"}
            /\ pkt'.kind = pkt.kind /\ pkt'.store = pkt.store /\ pkt'.recs = pkt.recs
  PROVE  RingInv(t)'
<1>1. RingInv(t) /\ IsRing(ring[t]) /\ pkt.recs \in Seq(Nat)
  BY DEF BaseInv, StreamTypeOK, RingInv
<1>2. CASE ~(hpc \in {"notify", "post"})
  BY <1>1, <1>2 DEF RingInv, HoldsClaim, Idle
<1>3. CASE hpc \in {"notify", "post"}
  <2>1. HoldsClaim(t) => HoldsClaim(t)'
    BY <1>1, <1>3, ClaimOutlasts
  <2> QED BY <1>1, <2>1 DEF RingInv, Idle
<1> QED
  BY <1>2, <1>3

LEMMA RingSendRam ==
  ASSUME BaseInv, SendRam, NEW t \in Stores
  PROVE  RingInv(t)'
<1> DEFINE s == StoreOf(phase)
           n == RbClaimLen(ring[s], Cap, RingSize[s])
<1>1. /\ s \in Stores /\ n \in Nat /\ n <= RbSize(ring[s])
      /\ ring' = [ring EXCEPT ![s] = RbClaim(@, n)]
      /\ pkt' \in Packet /\ Len(pkt'.recs) = n
      /\ pkt'.kind = (IF n = 0 THEN "last" ELSE "ram") /\ pkt'.store = s
      /\ DOMAIN pkt'.recs = 1 .. n
      /\ \A i \in 1 .. n : pkt'.recs[i] = ring[s].slot[ring[s].head + i - 1]
  BY RamPacket
<1>2. /\ hpc = "send" /\ hpc' = "notify" /\ commit' = commit /\ DOMAIN ring = Stores
      /\ IsRing(ring[t]) /\ RingInv(t)
  BY DEF SendRam, BaseInv, RingInv
<1>3. n <= RbContig(ring[s], RingSize[s])
  <2>1. IsRing(ring[s]) /\ RingSize[s] \in Nat \ {0} /\ Cap \in Nat
    BY <1>1, ConstantsAssumption, StreamAssumption DEF BaseInv, RingInv
  <2>2. ring[s].head % RingSize[s] \in 0 .. (RingSize[s] - 1)
    BY <2>1, RingCursors
  <2>3. RbSize(ring[s]) \in Nat
    BY <2>1, RingCursors
  <2> QED BY <2>1, <2>2, <2>3 DEF RbClaimLen, RbContig
<1> HIDE DEF n, s
<1>4. CASE t # s
  <2>1. ring'[t] = ring[t]
    BY <1>1, <1>2, <1>4
  <2> QED BY <1>2, <2>1, RingSame
<1>5. CASE t = s
  <2>1. commit[s] = Idle /\ ring[s].head = ring[s].tail
    <3>1. Reading
      BY <1>2 DEF Reading
    <3> QED BY <1>1, <1>2, <1>5, <3>1, ReadingIdle DEF SysIdle, RingInv, HoldsClaim
  <2>2. ring'[s] = RbClaim(ring[s], n)
    BY <1>1, <1>2
  <2>3. /\ IsRing(ring'[s]) /\ ring'[s].tail = ring[s].tail /\ ring'[s].head = ring[s].tail + n
        /\ ring'[s].slot = ring[s].slot
    BY <1>1, <1>2, <1>5, <2>1, <2>2, RbClaimIsRing
  <2>4. CASE n = 0
    <3>1. ring'[s].head = ring'[s].tail
      BY <2>3, <2>4, RingCursors
    <3> QED BY <1>1, <1>5, <2>3, <3>1, FreeRing
  <2>5. CASE n # 0
    <3>1. RbContig(Unclaimed(ring'[s]), RingSize[s]) = RbContig(ring[s], RingSize[s])
      <4>1. Unclaimed(ring'[s]).head = ring[s].head
        BY <2>1, <2>3, UnclaimedIsRing
      <4> QED BY <4>1 DEF RbContig
    <3>2. pkt'.recs # <<>>
      BY <1>1, <2>5, EmptySeq
    <3>3. \A i \in DOMAIN pkt'.recs : pkt'.recs[i] = ring'[s].slot[ring'[s].tail + i - 1]
      BY <1>1, <2>1, <2>3
    <3>4. HoldsClaim(t)'
      BY <1>1, <1>2, <1>3, <1>5, <2>3, <2>5, <3>1, <3>2, <3>3 DEF HoldsClaim, RbContig, Unclaimed
    <3> QED BY <1>5, <2>3, <3>4 DEF RingInv
  <2> QED BY <2>4, <2>5
<1> QED
  BY <1>4, <1>5

LEMMA RingPost ==
  ASSUME BaseInv, Post, NEW t \in Stores
  PROVE  RingInv(t)'
<1>1. /\ IsRing(ring[t]) /\ DOMAIN ring = Stores /\ hpc = "post" /\ commit' = commit
      /\ Len(pkt.recs) \in Nat /\ RingInv(t)
  BY LenProperties DEF BaseInv, RingInv, Post, StreamTypeOK
<1>2. commit[t] = Idle
  <2>1. Reading
    BY <1>1 DEF Reading
  <2> QED BY <2>1, ReadingIdle DEF SysIdle
<1>3. CASE pkt.kind = "ram" /\ pkt.store = t
  <2>1. ring'[t] = RbFinish(ring[t], Consumed) /\ Consumed \in {0, Len(pkt.recs)}
    BY <1>1, <1>3 DEF Post, Consumed
  <2>2. Consumed \in Nat
    BY <1>1, <2>1
  <2>3. IsRing(ring'[t])
    BY <1>1, <2>1, <2>2, RbFinishIsRing
  <2>4. CASE Consumed <= ring[t].head - ring[t].tail
    <3>1. ring'[t].head = ring'[t].tail
      BY <1>1, <2>1, <2>2, <2>4, RbFinishMoves
    <3> QED BY <2>3, <3>1, FreeRing
  <2>5. CASE ~(Consumed <= ring[t].head - ring[t].tail)
    <3>1. ring[t].tail \in Nat /\ ring[t].head \in Nat /\ ring[t].tail <= ring[t].head
      BY <1>1, RingCursors
    <3>2. ring'[t] = ring[t]
      BY <1>1, <2>1, <2>2, <2>5, <3>1 DEF RbFinish
    <3>3. Consumed = Len(pkt.recs)
      BY <2>1, <2>5, <3>1
    <3>4. ~HoldsClaim(t)
      BY <2>2, <2>5, <3>1, <3>3 DEF HoldsClaim
    <3>5. ring'[t].head = ring'[t].tail
      BY <1>1, <1>2, <3>2, <3>4 DEF RingInv
    <3> QED BY <2>3, <3>5, FreeRing
  <2> QED BY <2>4, <2>5
<1>4. CASE ~(pkt.kind = "ram" /\ pkt.store = t)
  <2>1. ring'[t] = ring[t]
    BY <1>1, <1>4 DEF Post, BaseInv, StreamTypeOK
  <2>2. ring[t].head = ring[t].tail
    BY <1>1, <1>2, <1>4 DEF RingInv, HoldsClaim
  <2> QED BY <1>1, <2>1, <2>2, FreeRing
<1> QED
  BY <1>3, <1>4

LEMMA RingLog ==
  ASSUME BaseInv, NEW s \in Stores, Log(s), NEW t \in Stores
  PROVE  RingInv(t)'
<1>1. /\ IsRing(ring[t]) /\ DOMAIN ring = Stores /\ UNCHANGED <<hpc, pkt, commit>>
      /\ RingInv(t) /\ pkt.recs \in Seq(Nat)
  BY DEF Log, PutRefused, PutAccepted, BaseInv, RingInv, streamVars, StreamTypeOK
<1>2. CASE ring'[t] = ring[t]
  BY <1>1, <1>2, RingSame
<1>3. CASE ring'[t] # ring[t]
  <2>1. t = s /\ ring'[t] = RbPut(ring[t], offered[t] + 1)
    BY <1>1, <1>3 DEF Log, PutRefused, PutAccepted
  <2>2. offered[t] + 1 \in Nat
    BY StoreTypes
  <2>3. /\ IsRing(ring'[t]) /\ ring'[t].tail = ring[t].tail /\ ring'[t].head = ring[t].head
        /\ \A p \in ring[t].tail .. (ring[t].put - 1) : ring'[t].slot[p] = ring[t].slot[p]
    <3> DEFINE r == RbPut(ring[t], offered[t] + 1)
    <3>1. /\ IsRing(r) /\ r.tail = ring[t].tail /\ r.head = ring[t].head
          /\ \A p \in ring[t].tail .. (ring[t].put - 1) : r.slot[p] = ring[t].slot[p]
      BY <1>1, <2>2, RbPutIsRing
    <3> HIDE DEF r
    <3>2. ring'[t] = r
      BY <2>1 DEF r
    <3> QED BY <3>1, <3>2
  <2>4. \A p \in ring[t].tail .. (ring[t].head - 1) : p \in ring[t].tail .. (ring[t].put - 1)
    BY <1>1, RingCursors
  <2>5. HoldsClaim(t) => HoldsClaim(t)'
    <3>1. HoldsClaim(t) => hpc' \in {"notify", "post"}
      BY <1>1 DEF HoldsClaim
    <3> QED BY <1>1, <2>3, <2>4, <3>1, ClaimOutlasts
  <2> QED BY <1>1, <2>3, <2>5 DEF RingInv, Idle
<1> QED
  BY <1>2, <1>3

LEMMA RingCommit ==
  ASSUME BaseInv, ~Overlap, NEW s \in Stores, Commit(s), NEW t \in Stores
  PROVE  RingInv(t)'
<1>1. /\ IsRing(ring[t]) /\ IsRing(ring[s]) /\ DOMAIN ring = Stores /\ UNCHANGED <<hpc, pkt>>
      /\ Chunk \in Nat
  BY ConstantsAssumption DEF Commit, BaseInv, RingInv, streamVars
<1>2. commit \in [Stores -> [pc : {"idle", "write", "save", "done", "fail"}, attempt : Nat]]
  BY SameNames DEF BaseInv, Facts!TypeInv, Facts!TypeOK
<1>3. CASE t # s
  <2>1. ring'[t] = ring[t] /\ commit'[t] = commit[t]
    BY <1>1, <1>2, <1>3 DEF Commit, CommitStep, CommitSkip, CommitShort, CommitClaim, CommitStore,
       Evict, CommitFail, CommitSave, CommitFinish
  <2> QED BY <1>1, <2>1, RingSame
<1>4. CASE t = s
  <2>1. CASE CommitSkip(s)
    <3>1. ring'[t] = ring[t] /\ commit'[t] = commit[t]
      BY <2>1 DEF CommitSkip
    <3> QED BY <1>1, <3>1, RingSame
  <2>2. Claimed(s) \in Nat /\ Claimed(s) <= RbSize(ring[s])
    BY <1>1, ConstantsAssumption, RbClaimLenBounds DEF Claimed
  <2>3. CASE CommitShort(s)
    <3> DEFINE c == RbClaim(ring[s], Claimed(s))
    <3>1. IsRing(c)
      BY <1>1, <2>2, RbClaimIsRing
    <3>2. ring'[s] = RbFinish(c, 0)
      BY <1>1, <2>3 DEF CommitShort
    <3> HIDE DEF c
    <3>3. IsRing(RbFinish(c, 0)) /\ RbFinish(c, 0).head = RbFinish(c, 0).tail
      BY <3>1, RbFinishMoves, RingCursors
    <3> QED BY <1>4, <3>2, <3>3, FreeRing
  <2>4. CASE CommitClaim(s)
    <3>1. ring'[s] = RbClaim(ring[s], Chunk) /\ commit'[s] = At("write")
      BY <1>1, <1>2, <2>4 DEF CommitClaim
    <3>2. IsRing(ring'[s])
      BY <1>1, <2>2, <2>4, <3>1, RbClaimIsRing DEF CommitClaim
    <3> QED BY <1>4, <3>1, <3>2 DEF RingInv, At, Idle
  <2>5. CASE CommitStore(s) \/ Evict(s) \/ CommitFail(s) \/ CommitSave(s)
    <3>1. ring' = ring /\ commit'[s].pc \in {"write", "save", "done", "fail"}
      BY <1>2, <2>5 DEF CommitStore, Evict, CommitFail, CommitSave, At
    <3> QED BY <1>1, <1>4, <3>1 DEF RingInv, Idle
  <2>6. CASE CommitFinish(s)
    <3>1. commit[s].pc # "idle" /\ ring'[s] = RbFinish(ring[s], FinishLen(s))
      BY <1>1, <2>6 DEF CommitFinish
    <3>2. commit[s] # Idle
      BY <3>1 DEF Idle
    <3>3. CommittedRing[s] = ring[s]
      BY <3>2, CommittedAt
    <3>4. ring[s].head = ring[s].tail + Chunk /\ FinishLen(s) \in {0, Chunk}
      BY <3>1, <3>3, SameNames DEF BaseInv, Facts!TypeInv, Facts!ClaimInv, FinishLen
    <3>5. FinishLen(s) \in Nat /\ FinishLen(s) <= ring[s].head - ring[s].tail
      BY <1>1, <3>4, RingCursors
    <3>6. IsRing(ring'[s]) /\ ring'[s].head = ring'[s].tail
      BY <1>1, <3>1, <3>5, RbFinishMoves
    <3> QED BY <1>4, <3>6, FreeRing
  <2> QED BY <2>1, <2>3, <2>4, <2>5, <2>6 DEF Commit, CommitStep
<1> QED
  BY <1>3, <1>4

LEMMA RingStep ==
  ASSUME BaseInv, ~Overlap, [StreamNext]_allVars
  PROVE  DOMAIN ring' = Stores /\ \A t \in Stores : RingInv(t)'
<1>1. DOMAIN ring' = Stores
  <2>1. \/ ring' = ring \/ ring' = [s \in Stores |-> RbEmpty]
        \/ \E s \in Stores : \E r : ring' = [ring EXCEPT ![s] = r]
    <3>1. ASSUME NEW s \in Stores, Log(s) \/ Commit(s)
          PROVE  ring' = ring \/ \E r : ring' = [ring EXCEPT ![s] = r]
      BY Zenon, <3>1 DEF Log, PutRefused, PutAccepted, Commit, CommitStep, CommitSkip, CommitShort,
         CommitClaim, CommitStore, Evict, CommitFail, CommitSave, CommitFinish
    <3>2. ASSUME Clear
          PROVE  ring' = ring \/ ring' = [s \in Stores |-> RbEmpty]
      BY Zenon, <3>2 DEF Clear, ClearStep, ClearCancel, ClearFlash, ClearRam
    <3>3. ASSUME SendRam
          PROVE  \E s \in Stores : \E r : ring' = [ring EXCEPT ![s] = r]
      BY <3>3, RamPacket
    <3>4. ASSUME Post
          PROVE  ring' = ring \/ \E s \in Stores : \E r : ring' = [ring EXCEPT ![s] = r]
      <4>1. pkt.store \in Stores
        BY DEF BaseInv, StreamTypeOK
      <4> QED BY Zenon, <3>4, <4>1 DEF Post
    <3>5. CASE \/ HandlerWait \/ HandlerRun \/ HandlerTimeout \/ SendZms \/ AdvancePhase
               \/ NotifyOk \/ NotifyFails \/ Resched \/ SentCb \/ StartBegin \/ StartCancel
               \/ StartActivate \/ StopCommand \/ ClearCommand \/ Connect \/ Disconnect
               \/ UNCHANGED allVars
      BY Zenon, <3>5 DEF HandlerWait, HandlerRun, HandlerTimeout, Proceed, SendZms, AdvancePhase,
         NotifyOk, NotifyFails, Resched, SentCb, StartBegin, StartCancel, StartActivate,
         StopCommand, ClearCommand, Connect, Disconnect, allVars, storeVars
    <3> QED BY <3>1, <3>2, <3>3, <3>4, <3>5 DEF StreamNext, Handler, Send
  <2> QED BY <2>1 DEF BaseInv
<1>2. ASSUME NEW t \in Stores
      PROVE  RingInv(t)'
  <2>1. CASE \/ HandlerWait \/ HandlerRun \/ HandlerTimeout \/ SendZms \/ AdvancePhase
             \/ Resched \/ StartActivate
    <3>1. ring' = ring /\ commit' = commit /\ hpc \in {"idle", "send", "resched"}
      BY <2>1 DEF HandlerWait, HandlerRun, HandlerTimeout, Proceed, SendZms, AdvancePhase, Resched,
         StartActivate, BaseInv, ControlInv, storeVars
    <3> QED BY <3>1, RingSame
  <2>2. CASE NotifyOk \/ NotifyFails
    <3>1. /\ ring' = ring /\ commit' = commit /\ hpc' = "post"
          /\ pkt'.kind = pkt.kind /\ pkt'.store = pkt.store /\ pkt'.recs = pkt.recs
      BY <2>2 DEF NotifyOk, NotifyFails, BaseInv, StreamTypeOK, storeVars
    <3> QED BY <3>1, RingSame
  <2>3. CASE \/ SentCb \/ StartBegin \/ StartCancel \/ StopCommand \/ ClearCommand \/ Connect
             \/ Disconnect \/ UNCHANGED allVars \/ (ClearCancel /\ UNCHANGED streamVars)
             \/ ((\E s \in Stores : ClearFlash(s)) /\ UNCHANGED streamVars)
    <3>1. UNCHANGED <<ring, commit, hpc, pkt>>
      BY Zenon, <2>3 DEF SentCb, StartBegin, StartCancel, StopCommand, ClearCommand, Connect,
         Disconnect, ClearCancel, ClearFlash, allVars, storeVars, streamVars, handlerVars
    <3> QED BY <3>1, RingSame
  <2>4. CASE ClearRam
    <3>1. ring'[t] = RbEmpty
      BY <2>4 DEF ClearRam
    <3> QED BY <3>1, RbEmptyIsRing, FreeRing DEF RbEmpty
  <2>5. CASE Clear
    BY <2>3, <2>4, <2>5 DEF Clear, ClearStep
  <2>6. ASSUME NEW s \in Stores, Log(s) \/ Commit(s)
        PROVE  RingInv(t)'
    BY <2>6, RingLog, RingCommit
  <2>7. CASE SendRam \/ Post
    BY <2>7, RingSendRam, RingPost
  <2> QED
    BY <2>1, <2>2, <2>3, <2>5, <2>6, <2>7 DEF StreamNext, Handler, Send
<1> QED
  BY <1>1, <1>2

-----------------------------------------------------------------------------
(***************************************************************************)
(* The download is the one LogStore assumes.                               *)
(***************************************************************************)
LEMMA StreamStoreInit == Init /\ StreamInit => Facts!Init
<1> SUFFICES ASSUME Init, StreamInit PROVE Facts!Init
  OBVIOUS
<1>1. Reading = FALSE
  BY DEF StreamInit, Init, Reading
<1>2. Unclaimed(RbEmpty) = RbEmpty
  BY RbEmptyIsRing, NothingClaimed DEF RbEmpty
<1>3. CommittedRing = [s \in Stores |-> RbEmpty]
  BY <1>2 DEF Init, CommittedRing
<1> QED
  BY <1>1, <1>3, SameNames DEF Init, Facts!Init

LEMMA BaseInit == Init /\ StreamInit => BaseInv
<1> SUFFICES ASSUME Init, StreamInit PROVE BaseInv
  OBVIOUS
<1>1. Facts!TypeInv
  BY StreamStoreInit, ConstantsFacts, Facts!TypeInvInit
<1>2. 0 \in 0 .. MaxErr - 1
  BY StreamAssumption
<1>3. StreamTypeOK
  <2>1. NoPkt \in Packet
    BY NoRecords DEF NoPkt, Packet, Stores
  <2>2. err \in 0 .. MaxErr - 1
    BY Zenon, <1>2 DEF StreamInit
  <2> QED BY <2>1, <2>2, NoRecords DEF Init, StreamInit, StreamTypeOK, Packet, Phases
<1>4. GhostInv
  BY EmptySeq DEF StreamInit, GhostInv, NothingDue
<1>5. ControlInv /\ PacketInv
  BY DEF Init, StreamInit, ControlInv, PacketInv
<1>6. DOMAIN ring = Stores /\ \A s \in Stores : RingInv(s)
  BY RbEmptyIsRing DEF Init, RingInv, RbEmpty
<1> QED
  BY <1>1, <1>3, <1>4, <1>5, <1>6 DEF BaseInv

LEMMA BaseStep ==
  ASSUME ~Overlap, Streams, BaseInv, [StreamNext]_allVars
  PROVE  BaseInv'
<1>1. Facts!TypeInv'
  <2>1. [Facts!Next]_(Facts!vars)
    BY MapsToStore
  <2>2. Facts!TypeInv
    BY DEF BaseInv
  <2> QED BY <2>1, <2>2, ConstantsFacts, Facts!TypeInvStep
<1> QED
  BY <1>1, StreamTypeStep, ControlStep, PacketStep, RingStep DEF BaseInv

\* Every variable of the download keeps its type.
THEOREM StreamTypeCorrect ==
  ASSUME ~Overlap, Streams
  PROVE  StreamSpec => []StreamTypeOK
<1>1. BaseInv /\ [StreamNext]_allVars => BaseInv'
  BY BaseStep
<1>2. BaseInv => StreamTypeOK
  BY DEF BaseInv
<1> QED
  BY <1>1, <1>2, BaseInit, PTL DEF StreamSpec

\* The same, as the theorems about LogStore need it.
LEMMA IsStore ==
  ASSUME ~Overlap, Streams
  PROVE  StreamSpec => Facts!Spec
<1>1. BaseInv /\ [StreamNext]_allVars => BaseInv'
  BY BaseStep
<1>2. BaseInv /\ [StreamNext]_allVars => [Facts!Next]_(Facts!vars)
  BY MapsToStore
<1> QED
  BY <1>1, <1>2, BaseInit, StreamStoreInit, PTL DEF StreamSpec, Facts!Spec

\* To the stores the whole protocol (four phases, packets that are claimed, sent,
\* refused and taken back, late callbacks, stops and lost connections) is the
\* download LogStore assumes: it finds the commits cancelled, takes records from
\* the front of the tails only, and ends.
THEOREM DownloadImplementsStore ==
  ASSUME ~Overlap, Streams
  PROVE  StreamSpec => ImplementsStore
BY IsStore, SameStore

\* So the stores under a running download implement the abstract log.
THEOREM DownloadKeepsLog ==
  ASSUME ~Overlap, Streams, Faults \subseteq {"write", "meta"}
  PROVE  StreamSpec => Facts!ImplementsAbsLog
BY IsStore, ConstantsFacts, Facts!StoreImplementsLog

-----------------------------------------------------------------------------
(***************************************************************************)
(* Sequence numbers.                                                       *)
(***************************************************************************)
\* bulk_seq counts the packets the stack accepted; between the acceptance and
\* the increment the last one on the wire is the handler's.
Accepted == hpc = "post" /\ pkt.res = "ok"

SeqInv ==
  /\ Len(wire) = IF Accepted THEN seq + 1 ELSE seq
  /\ Accepted => wire[Len(wire)] = pkt
  /\ SeqContiguous

\* What the invariants of a download are about.
downloadVars == <<ring, commit, flash, meta, ready, offered, seq, phase, rkey, endkey, stage, wire, due>>

\* Steps that change neither the stores nor what was read and sent.
LEMMA QuietStep ==
  ASSUME BaseInv,
         \/ HandlerWait \/ HandlerRun \/ HandlerTimeout \/ NotifyFails \/ Resched \/ SentCb
         \/ StartBegin \/ StartCancel \/ StopCommand \/ Connect \/ Disconnect
         \/ UNCHANGED allVars
  PROVE  /\ UNCHANGED downloadVars
         /\ Reading' => Reading
         /\ \/ hpc' = hpc /\ pkt' = pkt
            \/ hpc' \in {"send", "idle"}
            \/ NotifyFails
<1>1. UNCHANGED downloadVars
  BY Zenon DEF HandlerWait, HandlerRun, HandlerTimeout, Proceed, NotifyFails, Resched, SentCb,
     StartBegin, StartCancel, StopCommand, Connect, Disconnect, downloadVars, storeVars,
     sessionVars, ghostVars, allVars, streamVars
<1>2. Reading' => Reading
  <2>1. CASE HandlerRun \/ HandlerTimeout
    <3>1. hpc' = (IF active /\ conn THEN "send" ELSE "idle") /\ active' = (active /\ conn)
      BY Zenon, <2>1 DEF HandlerRun, HandlerTimeout, Proceed
    <3> QED BY <3>1 DEF Reading
  <2>2. CASE NotifyFails \/ Resched
    BY <2>2 DEF NotifyFails, Resched, Reading
  <2>3. CASE \/ HandlerWait \/ SentCb \/ StartBegin \/ StartCancel \/ Connect \/ StopCommand
             \/ Disconnect \/ UNCHANGED allVars
    <3>1. hpc' = hpc /\ (active' = active \/ active' = FALSE)
      BY Zenon, <2>3 DEF HandlerWait, SentCb, StartBegin, StartCancel, Connect, StopCommand, Disconnect,
         StopEffects, handlerVars, allVars, streamVars
    <3> QED BY <3>1 DEF Reading
  <2> QED BY <2>1, <2>2, <2>3
<1>3. \/ hpc' = hpc /\ pkt' = pkt
      \/ hpc' \in {"send", "idle"}
      \/ NotifyFails
  BY DEF HandlerWait, HandlerRun, HandlerTimeout, Proceed, Resched, SentCb, StartBegin,
     StartCancel, StopCommand, Connect, Disconnect, allVars, streamVars, handlerVars
<1> QED
  BY <1>1, <1>2, <1>3

\* The stores' own steps do not touch the download.
LEMMA StoreStep ==
  ASSUME (\E s \in Stores : Log(s) \/ Commit(s)) \/ Clear \/ ClearCommand
  PROVE  UNCHANGED <<hpc, pkt, seq, phase, rkey, endkey, stage, wire>>
BY Zenon DEF Log, Commit, Clear, ClearCommand, streamVars, handlerVars, sessionVars

LEMMA SeqInit == Init /\ StreamInit => SeqInv
<1> SUFFICES ASSUME StreamInit PROVE SeqInv
  OBVIOUS
<1>1. hpc = "idle" /\ seq = 0 /\ wire = <<>>
  BY DEF StreamInit
<1>2. Len(wire) = 0 /\ DOMAIN wire = {}
  BY <1>1, EmptySeq
<1> QED
  BY <1>1, <1>2 DEF SeqInv, Accepted, SeqContiguous

LEMMA SeqStep ==
  ASSUME BaseInv, ~Overlap, SeqInv, [StreamNext]_allVars
  PROVE  SeqInv'
<1>1. wire \in Seq(Packet) /\ pkt \in Packet /\ seq \in Nat /\ Len(wire) \in Nat
      /\ DOMAIN wire = 1 .. Len(wire)
  BY LenProperties DEF BaseInv, GhostInv, StreamTypeOK, Packet
<1>2. CASE UNCHANGED <<hpc, pkt, seq, wire>>
  BY <1>2 DEF SeqInv, Accepted, SeqContiguous
<1>3. ASSUME ~Accepted, ~Accepted', UNCHANGED <<seq, wire>>
      PROVE  SeqInv'
  BY <1>3 DEF SeqInv, SeqContiguous
<1>4. CASE \/ HandlerWait \/ HandlerRun \/ HandlerTimeout \/ NotifyFails \/ Resched \/ SentCb
           \/ StartBegin \/ StartCancel \/ StopCommand \/ Connect \/ Disconnect
           \/ UNCHANGED allVars
  <2>1. UNCHANGED <<seq, wire>>
    BY <1>4, QuietStep DEF downloadVars
  <2>2. CASE NotifyFails
    <3>1. hpc = "notify" /\ pkt'.res # "ok"
      BY <1>1, <2>2, StreamAssumption DEF NotifyFails, Packet
    <3> QED BY <1>3, <2>1, <3>1 DEF Accepted
  <2>3. CASE HandlerRun \/ HandlerTimeout \/ Resched
    <3>1. hpc \in {"idle", "resched"} /\ hpc' \in {"idle", "send"}
      BY <2>3 DEF HandlerRun, HandlerTimeout, Proceed, Resched
    <3> QED BY <1>3, <2>1, <3>1 DEF Accepted
  <2>4. CASE ~NotifyFails /\ ~HandlerRun /\ ~HandlerTimeout /\ ~Resched
    <3>1. hpc' = hpc /\ pkt' = pkt
      BY Zenon, <1>4, <2>4 DEF HandlerWait, SentCb, StartBegin, StartCancel, StopCommand, Connect,
         Disconnect, allVars, streamVars, handlerVars
    <3> QED BY <1>2, <2>1, <3>1
  <2> QED BY <2>2, <2>3, <2>4
<1>5. CASE SendZms \/ AdvancePhase \/ SendRam
  <2>1. hpc = "send" /\ hpc' \in {"notify", "resched"} /\ UNCHANGED <<seq, wire>>
    BY <1>5 DEF SendZms, AdvancePhase, SendRam, sessionVars, ghostVars
  <2> QED BY <1>3, <2>1 DEF Accepted
<1>6. CASE NotifyOk
  <2>1. /\ hpc = "notify" /\ hpc' = "post" /\ pkt' = pkt /\ seq' = seq /\ wire' = Append(wire, pkt)
        /\ pkt.res = "ok" /\ pkt.seq = seq
    BY <1>6 DEF NotifyOk, sessionVars, BaseInv, PacketInv
  <2>2. Len(wire) = seq
    BY <2>1 DEF SeqInv, Accepted
  <2>3. /\ wire' \in Seq(Packet) /\ Len(wire') = seq + 1 /\ wire'[seq + 1] = pkt
        /\ \A i \in 1 .. seq : wire'[i] = wire[i]
    BY <1>1, <2>1, <2>2, AppendProperties
  <2>4. DOMAIN wire' = 1 .. (seq + 1)
    BY <2>3, LenProperties
  <2>5. SeqContiguous'
    <3> SUFFICES ASSUME NEW i \in 1 .. (seq + 1) PROVE wire'[i].seq = i - 1
      BY <2>4 DEF SeqContiguous
    <3>1. CASE i = seq + 1
      BY <1>1, <2>1, <2>3, <3>1
    <3>2. CASE i # seq + 1
      <4>1. i \in 1 .. seq
        BY <1>1, <3>2
      <4> QED BY <1>1, <2>2, <2>3, <4>1 DEF SeqInv, SeqContiguous
    <3> QED BY <3>1, <3>2
  <2>6. Accepted'
    BY <2>1 DEF Accepted
  <2> QED BY <2>1, <2>3, <2>5, <2>6 DEF SeqInv
<1>7. CASE Post
  <2>1. hpc = "post" /\ hpc' = "resched" /\ wire' = wire /\ seq' = NextSeq
    BY <1>7 DEF Post, ghostVars
  <2>2. Len(wire) = seq'
    BY <2>1 DEF SeqInv, Accepted, NextSeq
  <2> QED BY <2>1, <2>2 DEF SeqInv, Accepted, SeqContiguous
<1>8. CASE StartActivate
  <2>1. hpc = "idle" /\ hpc' = hpc /\ wire' = <<>> /\ seq' = 0
    BY <1>8 DEF StartActivate, BaseInv, ControlInv, handlerVars
  <2> QED BY <2>1, EmptySeq DEF SeqInv, Accepted, SeqContiguous
<1>9. CASE (\E s \in Stores : Log(s) \/ Commit(s)) \/ Clear \/ ClearCommand
  BY <1>2, <1>9, StoreStep
<1> QED
  BY <1>4, <1>5, <1>6, <1>7, <1>8, <1>9 DEF StreamNext, Handler, Send

\* The packets of a download are numbered 0, 1, 2, ... without a gap, as long as a
\* packet that a stop overtook has left the handler before the next START: otherwise
\* its increment would fall into the numbering of the new download (~Overlap).
THEOREM NumbersContiguous ==
  ASSUME ~Overlap, Streams
  PROVE  StreamSpec => []SeqContiguous
<1>1. Init /\ StreamInit => SeqInv
  BY SeqInit
<1>2. BaseInv /\ SeqInv /\ [StreamNext]_allVars => BaseInv' /\ SeqInv'
  BY BaseStep, SeqStep
<1>3. SeqInv => SeqContiguous
  BY DEF SeqInv
<1> QED
  BY <1>1, <1>2, <1>3, BaseInit, PTL DEF StreamSpec

-----------------------------------------------------------------------------
(***************************************************************************)
(* Nothing vanishes.                                                       *)
(***************************************************************************)
\* What a notification the stack accepts adds to the records sent.
LEMMA SentAppend ==
  ASSUME wire \in Seq(Packet), pkt \in Packet, wire' = Append(wire, pkt), NEW s \in Stores
  PROVE  /\ Sent(s) \subseteq Sent(s)'
         /\ pkt.store = s => RangeOf(pkt.recs) \subseteq Sent(s)'
         /\ \A x \in Sent(s)' : x \in Sent(s) \/ (pkt.store = s /\ x \in RangeOf(pkt.recs))
<1>1. /\ Len(wire) \in Nat /\ DOMAIN wire = 1 .. Len(wire)
      /\ wire' \in Seq(Packet) /\ Len(wire') = Len(wire) + 1
      /\ \A i \in 1 .. Len(wire) : wire'[i] = wire[i]
      /\ wire'[Len(wire) + 1] = pkt
  BY AppendProperties, LenProperties
<1>2. DOMAIN wire' = 1 .. (Len(wire) + 1)
  BY <1>1, LenProperties
<1>3. ASSUME NEW x \in Sent(s) PROVE x \in Sent(s)'
  <2>1. PICK i \in DOMAIN wire : wire[i].store = s /\ x \in RangeOf(wire[i].recs)
    BY DEF Sent
  <2>2. i \in DOMAIN wire' /\ wire'[i] = wire[i]
    BY <1>1, <1>2
  <2> QED BY <2>1, <2>2 DEF Sent, RangeOf
<1>4. ASSUME pkt.store = s, NEW x \in RangeOf(pkt.recs) PROVE x \in Sent(s)'
  <2>1. Len(wire) + 1 \in DOMAIN wire'
    BY <1>1, <1>2
  <2> QED BY <1>1, <1>4, <2>1 DEF Sent, RangeOf
<1>5. ASSUME NEW x \in Sent(s)'
      PROVE  x \in Sent(s) \/ (pkt.store = s /\ x \in RangeOf(pkt.recs))
  <2>1. PICK i \in DOMAIN wire' : wire'[i].store = s /\ x \in RangeOf(wire'[i].recs)
    BY DEF Sent, RangeOf
  <2>2. CASE i = Len(wire) + 1
    BY <1>1, <2>1, <2>2
  <2>3. CASE i # Len(wire) + 1
    <3>1. i \in DOMAIN wire /\ wire'[i] = wire[i]
      BY <1>1, <1>2, <2>3
    <3> QED BY <2>1, <3>1 DEF Sent, RangeOf
  <2> QED BY <2>2, <2>3
<1> QED
  BY <1>3, <1>4, <1>5

\* The packet that was just accepted is on the wire.
LEMMA AcceptedSent ==
  ASSUME BaseInv, SeqInv, Accepted
  PROVE  /\ seq + 1 \in DOMAIN wire /\ wire[seq + 1] = pkt
         /\ RangeOf(pkt.recs) \subseteq Sent(pkt.store)
<1>1. wire \in Seq(Packet) /\ seq \in Nat /\ Len(wire) = seq + 1 /\ wire[Len(wire)] = pkt
  BY DEF BaseInv, GhostInv, StreamTypeOK, SeqInv
<1>2. DOMAIN wire = 1 .. (seq + 1)
  BY <1>1, LenProperties
<1>3. seq + 1 \in DOMAIN wire /\ wire[seq + 1] = pkt
  BY <1>1, <1>2
<1> QED
  BY <1>3 DEF Sent

\* A record that leaves the tail with a packet was sent.
LEMMA PostKeeps ==
  ASSUME BaseInv, SeqInv, Post, NEW s \in Stores
  PROVE  /\ RangeOf(ring[s].slot) \subseteq RangeOf(ring'[s].slot) \cup Sent(s)
         /\ RangeOf(ring'[s].slot) \subseteq RangeOf(ring[s].slot)
<1>1. /\ IsRing(ring[s]) /\ DOMAIN ring = Stores /\ hpc = "post" /\ RingInv(s)
      /\ pkt.recs \in Seq(Nat)
  BY DEF BaseInv, RingInv, Post, StreamTypeOK
<1>2. Len(pkt.recs) \in Nat /\ DOMAIN pkt.recs = 1 .. Len(pkt.recs)
  BY <1>1, LenProperties
<1>3. commit[s] = Idle
  <2>1. Reading
    BY <1>1 DEF Reading
  <2> QED BY <2>1, ReadingIdle DEF SysIdle
<1>4. CASE ring'[s] = ring[s]
  BY <1>4
<1>5. CASE ring'[s] # ring[s]
  <2>1. pkt.kind = "ram" /\ pkt.store = s /\ ring'[s] = RbFinish(ring[s], Consumed)
    BY <1>1, <1>5 DEF Post
  <2>2. Consumed \in Nat /\ Consumed \in {0, Len(pkt.recs)}
    BY <1>2 DEF Consumed
  <2>3. Consumed <= ring[s].head - ring[s].tail
    BY <1>1, <1>5, <2>1, <2>2, RingCursors DEF RbFinish
  <2>4. /\ IsRing(ring'[s]) /\ ring'[s].put = ring[s].put
        /\ ring'[s].tail = ring[s].tail + Consumed
        /\ \A p \in (ring[s].tail + Consumed) .. (ring[s].put - 1) :
             ring'[s].slot[p] = ring[s].slot[p]
    BY <1>1, <2>1, <2>2, <2>3, RbFinishMoves
  <2>5. /\ DOMAIN ring[s].slot = ring[s].tail .. (ring[s].put - 1)
        /\ DOMAIN ring'[s].slot = (ring[s].tail + Consumed) .. (ring[s].put - 1)
        /\ ring[s].tail \in Nat /\ ring[s].put \in Nat
    BY <1>1, <2>4 DEF IsRing
  <2>6. ASSUME NEW p \in DOMAIN ring[s].slot, ~(p \in DOMAIN ring'[s].slot)
        PROVE  ring[s].slot[p] \in Sent(s)
    <3>1. p \in ring[s].tail .. (ring[s].tail + Consumed - 1)
      BY <2>2, <2>5, <2>6
    <3>2. Consumed # 0 /\ Consumed = Len(pkt.recs) /\ pkt.res = "ok"
      BY <2>2, <2>5, <3>1 DEF Consumed
    <3>3. HoldsClaim(s)
      <4>1. ring[s].head # ring[s].tail
        BY <2>2, <2>3, <2>5, <3>2, <1>1, RingCursors
      <4> QED BY <1>1, <1>3, <4>1 DEF RingInv
    <3> DEFINE i == p - ring[s].tail + 1
    <3>4. i \in DOMAIN pkt.recs /\ ring[s].tail + i - 1 = p
      <4>1. i \in 1 .. Consumed /\ ring[s].tail + i - 1 = p
        <5> DEFINE a == ring[s].tail
                   n == Consumed
        <5>1. a \in Nat /\ n \in Nat /\ p \in a .. (a + n - 1)
          BY <2>2, <2>5, <3>1
        <5> HIDE DEF a, n
        <5>2. p - a + 1 \in 1 .. n /\ a + (p - a + 1) - 1 = p
          BY <5>1
        <5> QED BY <5>2 DEF a, n
      <4>2. DOMAIN pkt.recs = 1 .. Consumed
        BY <1>2, <3>2
      <4> QED BY <4>1, <4>2
    <3>5. pkt.recs[i] = ring[s].slot[ring[s].tail + i - 1]
      BY <3>3, <3>4 DEF HoldsClaim
    <3>6. pkt.recs[i] = ring[s].slot[p]
      BY <3>4, <3>5
    <3>7. RangeOf(pkt.recs) \subseteq Sent(s)
      BY <1>1, <2>1, <3>2, AcceptedSent DEF Accepted
    <3> QED BY <3>4, <3>6, <3>7 DEF RangeOf
  <2>7. ASSUME NEW p \in DOMAIN ring'[s].slot
        PROVE  p \in DOMAIN ring[s].slot /\ ring'[s].slot[p] = ring[s].slot[p]
    <3>1. p \in (ring[s].tail + Consumed) .. (ring[s].put - 1)
      BY <2>5
    <3>2. p \in ring[s].tail .. (ring[s].put - 1)
      BY <2>2, <2>5, <3>1
    <3> QED BY <2>4, <2>5, <3>1, <3>2
  <2> QED BY <2>6, <2>7 DEF RangeOf
<1> QED
  BY <1>4, <1>5

\* While a download reads, a commit work only finds that it may not run.
LEMMA CommitKeeps ==
  ASSUME BaseInv, ~Overlap, NEW s \in Stores, Commit(s), Reading
  PROVE  UNCHANGED <<ring, flash, meta, ready, commit>>
<1>1. CommitSkip(s)
  <2>1. active /\ commit[s] = Idle
    BY ReadingIdle DEF Commit, Settled, Reading, SysIdle
  <2> QED
    BY <2>1 DEF Commit, CommitStep, CommitShort, CommitClaim, CommitStore, Evict, CommitFail,
       CommitSave, CommitFinish, Idle
<1> QED
  BY <1>1 DEF CommitSkip

\* A record that is logged takes no other away.
LEMMA LogKeeps ==
  ASSUME BaseInv, NEW s \in Stores, Log(s), NEW t \in Stores
  PROVE  /\ UNCHANGED <<flash, meta, ready, commit>>
         /\ RangeOf(ring[t].slot) \subseteq RangeOf(ring'[t].slot)
         /\ ring'[t].tail = ring[t].tail /\ ring'[t].head = ring[t].head
<1>1. IsRing(ring[t]) /\ DOMAIN ring = Stores
  BY DEF BaseInv, RingInv
<1>2. UNCHANGED <<flash, meta, ready, commit>>
  BY DEF Log, PutRefused, PutAccepted
<1>3. CASE ring'[t] = ring[t]
  BY <1>2, <1>3
<1>4. CASE ring'[t] # ring[t]
  <2> DEFINE r == RbPut(ring[t], offered[t] + 1)
  <2>1. ring'[t] = r
    BY <1>1, <1>4 DEF Log, PutRefused, PutAccepted
  <2>2. offered[t] + 1 \in Nat
    BY StoreTypes
  <2>3. /\ IsRing(r) /\ r.tail = ring[t].tail /\ r.head = ring[t].head /\ r.put = ring[t].put + 1
        /\ \A p \in ring[t].tail .. (ring[t].put - 1) : r.slot[p] = ring[t].slot[p]
    BY <1>1, <2>2, RbPutIsRing
  <2> HIDE DEF r
  <2>4. /\ DOMAIN ring[t].slot = ring[t].tail .. (ring[t].put - 1)
        /\ DOMAIN r.slot = ring[t].tail .. ring[t].put
        /\ ring[t].tail \in Nat /\ ring[t].put \in Nat
    BY <1>1, <2>3 DEF IsRing
  <2> QED BY <1>2, <2>1, <2>3, <2>4 DEF RangeOf
<1> QED
  BY <1>3, <1>4

\* What a download can return depends on the stores alone.
LEMMA ReadableGrows ==
  ASSUME NEW s \in Stores, UNCHANGED <<flash, meta, ready>>,
         RangeOf(ring[s].slot) \subseteq RangeOf(ring'[s].slot)
  PROVE  Readable(s) \subseteq Readable(s)'
<1>1. LiveKeys(s)' = LiveKeys(s)
  BY DEF LiveKeys
<1>2. Readable(s)' = (IF ready THEN UNION {RangeOf(flash[s].data[k]) : k \in LiveKeys(s)} ELSE {})
                       \cup RangeOf(ring'[s].slot)
  BY <1>1 DEF Readable, RangeOf
<1> QED
  BY <1>2 DEF Readable

LEMMA SentKept ==
  ASSUME NEW s \in Stores, wire' = wire
  PROVE  Sent(s)' = Sent(s)
BY DEF Sent, RangeOf

LEMMA VanishStep ==
  ASSUME BaseInv, ~Overlap, SeqInv, NothingVanishes, [StreamNext]_allVars
  PROVE  NothingVanishes'
<1> USE DEF NothingVanishes
<1> SUFFICES ASSUME Reading', NEW s \in Stores
             PROVE  due'[s] \subseteq Readable(s)' \cup Sent(s)'
  BY DEF Reading
<1>1. Reading => due[s] \subseteq Readable(s) \cup Sent(s)
  BY DEF Reading
<1>2. ASSUME Reading, due' = due, Readable(s) \subseteq Readable(s)' \cup Sent(s)',
             Sent(s) \subseteq Sent(s)'
      PROVE  due'[s] \subseteq Readable(s)' \cup Sent(s)'
  BY <1>1, <1>2
<1>3. CASE \/ HandlerWait \/ HandlerRun \/ HandlerTimeout \/ NotifyFails \/ Resched \/ SentCb
           \/ StartBegin \/ StartCancel \/ StopCommand \/ Connect \/ Disconnect
           \/ UNCHANGED allVars
  <2>1. UNCHANGED <<ring, flash, meta, ready, wire, due>> /\ Reading
    BY <1>3, QuietStep DEF downloadVars
  <2> QED BY <1>2, <2>1, ReadableGrows, SentKept
<1>4. CASE SendZms \/ AdvancePhase
  <2>1. UNCHANGED <<ring, flash, meta, ready, wire, due>> /\ hpc = "send"
    BY <1>4 DEF SendZms, AdvancePhase, storeVars, ghostVars
  <2> QED BY <1>2, <2>1, ReadableGrows, SentKept DEF Reading
<1>5. CASE SendRam
  <2>1. UNCHANGED <<flash, meta, ready, wire, due>> /\ hpc = "send"
    BY <1>5 DEF SendRam, ghostVars
  <2>2. ring'[s].slot = ring[s].slot
    <3> DEFINE t == StoreOf(phase)
               n == RbClaimLen(ring[t], Cap, RingSize[t])
    <3>1. ring' = [ring EXCEPT ![t] = RbClaim(@, n)] /\ DOMAIN ring = Stores
      BY <1>5 DEF SendRam, BaseInv
    <3> HIDE DEF n, t
    <3> QED BY <3>1 DEF RbClaim
  <2> QED BY <1>2, <2>1, <2>2, ReadableGrows, SentKept DEF Reading
<1>6. CASE NotifyOk
  <2>1. UNCHANGED <<ring, flash, meta, ready, due>> /\ hpc = "notify" /\ wire' = Append(wire, pkt)
    BY <1>6 DEF NotifyOk, storeVars
  <2>2. wire \in Seq(Packet) /\ pkt \in Packet
    BY DEF BaseInv, GhostInv, StreamTypeOK, Packet
  <2> QED BY <1>2, <2>1, <2>2, ReadableGrows, SentAppend DEF Reading
<1>7. CASE Post
  <2>1. UNCHANGED <<flash, meta, ready, wire, due>> /\ hpc = "post"
    BY <1>7 DEF Post, ghostVars
  <2>2. Readable(s) \subseteq Readable(s)' \cup Sent(s)
    <3>1. LiveKeys(s)' = LiveKeys(s)
      BY <2>1 DEF LiveKeys
    <3>2. Readable(s)' = (IF ready THEN UNION {RangeOf(flash[s].data[k]) : k \in LiveKeys(s)} ELSE {})
                           \cup RangeOf(ring'[s].slot)
      BY <2>1, <3>1 DEF Readable, RangeOf
    <3> QED BY <1>7, <3>2, PostKeeps DEF Readable
  <2> QED BY <1>2, <2>1, <2>2, SentKept DEF Reading
<1>8. CASE StartActivate
  <2>1. UNCHANGED <<ring, flash, meta, ready>> /\ due'[s] = Readable(s)
    BY <1>8 DEF StartActivate, storeVars
  <2> QED BY <2>1, ReadableGrows
<1>9. CASE Clear \/ ClearCommand
  <2>1. due' = NothingDue
    BY <1>9 DEF Clear, ClearStep, ClearCancel, ClearFlash, ClearRam, ClearCommand, BaseInv, ControlInv,
       Stores, streamVars
  <2> QED BY <2>1 DEF NothingDue
<1>10. ASSUME NEW t \in Stores, Log(t) \/ Commit(t)
       PROVE  due'[s] \subseteq Readable(s)' \cup Sent(s)'
  <2>1. UNCHANGED <<wire, due, hpc, active>>
    BY <1>10 DEF Log, PutRefused, PutAccepted, Commit, CommitStep, CommitSkip, CommitShort, CommitClaim,
       CommitStore, Evict, CommitFail, CommitSave, CommitFinish, streamVars
  <2>2. Reading
    BY <2>1 DEF Reading
  <2>3. UNCHANGED <<flash, meta, ready>> /\ RangeOf(ring[s].slot) \subseteq RangeOf(ring'[s].slot)
    BY <1>10, <2>2, LogKeeps, CommitKeeps
  <2> QED BY <1>2, <2>1, <2>2, <2>3, ReadableGrows, SentKept
<1> QED
  BY <1>3, <1>4, <1>5, <1>6, <1>7, <1>8, <1>9, <1>10 DEF StreamNext, Handler, Send

\* While a download is active or its handler inside a packet, what it owes the
\* peer is still in the stores or was accepted by the stack: a notification that
\* fails, is retried or is overtaken by a stop costs no record of the RAM tail.
THEOREM NothingIsLost ==
  ASSUME ~Overlap, Streams
  PROVE  StreamSpec => []NothingVanishes
<1>1. Init /\ StreamInit => SeqInv
  BY SeqInit
<1>2. Init /\ StreamInit => NothingVanishes
  BY DEF Init, StreamInit, NothingVanishes
<1>3. BaseInv /\ SeqInv /\ NothingVanishes /\ [StreamNext]_allVars
      => BaseInv' /\ SeqInv' /\ NothingVanishes'
  BY BaseStep, SeqStep, VanishStep
<1> QED
  BY <1>1, <1>2, <1>3, BaseInit, PTL DEF StreamSpec

-----------------------------------------------------------------------------
(***************************************************************************)
(* A complete download.                                                    *)
(***************************************************************************)
\* What the download has still to read: the keys of the snapshot, the rest of
\* the entry that was loaded, the tail.
UnreadIn(s) == IF s = "stamp" THEN {"zms stamp"} ELSE {"zms stamp", "ram stamp", "zms ambient"}
UnreadKeys(s) == IF ready /\ phase \in UnreadIn(s) THEN NextKeys(s) ELSE {}
UnreadRecs(s) == UNION {RangeOf(flash[s].data[k]) : k \in UnreadKeys(s)}
StageRecs(s) == IF StoreOf(phase) = s THEN RangeOf(stage) ELSE {}
Left(s) == UnreadRecs(s) \cup StageRecs(s) \cup RangeOf(ring[s].slot)

\* No entry is staged outside the flash phases.
StageInv == phase \in {"ram stamp", "ram ambient", "done"} => stage = <<>>

\* All that is owed is sent or left, and a store's LAST header is cut when
\* nothing of it is left.
DueInv == Reading => \A s \in Stores : due[s] \subseteq Sent(s) \cup Left(s)
LastCut(s) == hpc = "notify" /\ pkt.kind = "last" /\ pkt.store = s
EndInv == \A s \in Stores : Ended(s) \/ LastCut(s) => due[s] \subseteq Sent(s)

LeftInv == StageInv /\ DueInv /\ EndInv

LEMMA NothingIn == RangeOf(<<>>) = {}
<1>1. DOMAIN <<>> = {}
  BY EmptySeq
<1> QED
  BY <1>1 DEF RangeOf

LEMMA PhaseNames ==
  ASSUME BaseInv
  PROVE  phase \in Phases /\ StoreOf(phase) \in Stores
BY DEF BaseInv, StreamTypeOK, StoreOf, Stores

\* The rest of the packet's entry stays staged once the packet is accepted.
LEMMA PostStage ==
  ASSUME BaseInv, SeqInv, Post, StageInv
  PROVE  /\ RangeOf(stage) \subseteq RangeOf(stage') \cup (IF Accepted THEN RangeOf(pkt.recs) ELSE {})
         /\ RangeOf(stage') \subseteq RangeOf(stage)
         /\ stage' = stage \/ phase' = phase
         /\ phase' # phase => /\ stage = <<>> /\ stage' = <<>>
                              /\ <<phase, phase'>> \in {<<"ram stamp", "zms ambient">>,
                                                        <<"ram ambient", "done">>}
<1>1. /\ stage \in Seq(Nat) /\ pkt.recs \in Seq(Nat) /\ hpc = "post"
      /\ pkt.kind = "zms" => phase \in {"zms stamp", "zms ambient"} /\ pkt.recs = Prefix(stage)
      /\ pkt.kind # "zms" => phase \in {"ram stamp", "ram ambient"}
      /\ pkt.kind # "none" /\ pkt.store = StoreOf(phase)
      /\ pkt.kind \in {"none", "zms", "ram", "last"}
  BY DEF BaseInv, StreamTypeOK, PacketInv, Post
<1>2. CASE pkt.kind = "zms" /\ pkt.res = "ok"
  <2> DEFINE n == Len(pkt.recs)
  <2>1. /\ n \in Nat /\ n <= Len(stage) /\ Len(stage) \in Nat
        /\ \A i \in 1 .. n : pkt.recs[i] = stage[i]
        /\ DOMAIN pkt.recs = 1 .. n /\ DOMAIN stage = 1 .. Len(stage)
    BY <1>1, <1>2, PrefixOf, LenProperties
  <2>2. stage' = SubSeq(stage, n + 1, Len(stage)) /\ phase' = phase
    BY <1>2 DEF Post, NextStage
  <2>3. /\ stage' \in Seq(Nat) /\ Len(stage') = Len(stage) - n
        /\ \A i \in 1 .. Len(stage) - n : stage'[i] = stage[n + i]
    BY <1>1, <2>1, <2>2, RestOf
  <2>4. DOMAIN stage' = 1 .. Len(stage) - n
    BY <2>3, LenProperties
  <2> HIDE DEF n
  <2>5. ASSUME NEW i \in DOMAIN stage PROVE stage[i] \in RangeOf(stage') \cup RangeOf(pkt.recs)
    <3>1. CASE i \in 1 .. n
      BY <2>1, <3>1 DEF RangeOf
    <3>2. CASE ~(i \in 1 .. n)
      <4>1. i - n \in DOMAIN stage' /\ stage'[i - n] = stage[n + (i - n)] /\ n + (i - n) = i
        BY <2>1, <2>3, <2>4, <3>2
      <4>2. stage'[i - n] = stage[i]
        BY <4>1
      <4> QED BY <4>1, <4>2 DEF RangeOf
    <3> QED BY <3>1, <3>2
  <2>6. ASSUME NEW i \in DOMAIN stage' PROVE stage'[i] \in RangeOf(stage)
    <3>1. i \in 1 .. Len(stage) - n
      BY <2>4
    <3>2. n + i \in 1 .. Len(stage)
      BY <2>1, <3>1
    <3> QED BY <2>1, <2>3, <3>1, <3>2 DEF RangeOf
  <2>7. Accepted
    BY <1>1, <1>2 DEF Accepted
  <2> QED BY <2>2, <2>5, <2>6, <2>7 DEF RangeOf
<1>3. CASE pkt.kind = "last" /\ pkt.res = "ok"
  <2>1. stage = <<>> /\ stage' = <<>>
    BY <1>1, <1>3 DEF Post, StageInv
  <2>2. phase' = IF pkt.store = "stamp" THEN "zms ambient" ELSE "done"
    BY <1>3 DEF Post
  <2>3. <<phase, phase'>> \in {<<"ram stamp", "zms ambient">>, <<"ram ambient", "done">>}
    BY <1>1, <1>3, <2>2 DEF StoreOf
  <2> QED BY <2>1, <2>3
<1>4. CASE ~(pkt.kind \in {"zms", "last"} /\ pkt.res = "ok")
  <2>1. stage' = stage /\ phase' = phase
    BY <1>4 DEF Post
  <2> QED BY <2>1
<1> QED
  BY <1>2, <1>3, <1>4

LEMMA StageStep ==
  ASSUME BaseInv, ~Overlap, SeqInv, StageInv, [StreamNext]_allVars
  PROVE  StageInv'
<1>1. CASE UNCHANGED <<phase, stage>>
  BY <1>1 DEF StageInv
<1>2. CASE SendZms
  BY <1>2 DEF SendZms, StageInv
<1>3. CASE AdvancePhase
  BY <1>3 DEF AdvancePhase, StageInv
<1>4. CASE SendRam \/ NotifyOk
  <2>1. UNCHANGED <<phase, stage>>
    BY <1>4 DEF SendRam, NotifyOk, sessionVars
  <2> QED BY <1>1, <2>1
<1>5. CASE Post
  <2>1. phase' = phase \/ stage' = <<>>
    BY <1>5, PostStage
  <2>2. stage = <<>> => stage' = <<>>
    <3> SUFFICES ASSUME stage = <<>> PROVE stage' = <<>>
      OBVIOUS
    <3>1. ~(pkt.kind = "zms")
      BY <1>5 DEF BaseInv, PacketInv, Post
    <3> QED BY <1>5, <3>1 DEF Post
  <2> QED BY <2>1, <2>2 DEF StageInv
<1>6. CASE StartActivate
  BY <1>6 DEF StartActivate, StageInv
<1>7. CASE (\E s \in Stores : Log(s) \/ Commit(s)) \/ Clear \/ ClearCommand
  BY <1>1, <1>7, StoreStep
<1>8. CASE \/ HandlerWait \/ HandlerRun \/ HandlerTimeout \/ NotifyFails \/ Resched \/ SentCb
           \/ StartBegin \/ StartCancel \/ StopCommand \/ Connect \/ Disconnect
           \/ UNCHANGED allVars
  <2>1. UNCHANGED <<phase, stage>>
    BY <1>8, QuietStep DEF downloadVars
  <2> QED BY <1>1, <2>1
<1> QED
  BY <1>2, <1>3, <1>4, <1>5, <1>6, <1>7, <1>8 DEF StreamNext, Handler, Send

\* What is left does not depend on the metadata or on the handler.
LEMMA LeftKept ==
  ASSUME NEW s \in Stores, UNCHANGED <<phase, stage, rkey, endkey, flash, ready>>
  PROVE  UnreadKeys(s)' = UnreadKeys(s) /\ UnreadRecs(s)' = UnreadRecs(s)
         /\ StageRecs(s)' = StageRecs(s)
         /\ Left(s)' = UnreadRecs(s) \cup StageRecs(s) \cup RangeOf(ring'[s].slot)
<1>1. UnreadKeys(s)' = UnreadKeys(s)
  BY DEF UnreadKeys, NextKeys, UnreadIn
<1>2. UnreadRecs(s)' = UnreadRecs(s)
  BY <1>1 DEF UnreadRecs, RangeOf
<1>3. StageRecs(s)' = StageRecs(s)
  BY DEF StageRecs, StoreOf, RangeOf
<1> QED
  BY <1>1, <1>2, <1>3 DEF Left, RangeOf

LEMMA UnreadRecsOf ==
  ASSUME NEW s \in Stores, flash' = flash
  PROVE  UnreadRecs(s)' = UNION {RangeOf(flash[s].data[k]) : k \in UnreadKeys(s)'}
BY DEF UnreadRecs, RangeOf

\* Loading an entry moves its records from the snapshot to the stage; the entries
\* passed over are left only when reads may fail.
LEMMA LoadMoves ==
  ASSUME BaseInv, SendZms, NEW s \in Stores
  PROVE  /\ UnreadKeys(s)' \subseteq UnreadKeys(s)
         /\ \/ UNCHANGED <<stage, rkey>>
            \/ s # StoreOf(phase) /\ UnreadKeys(s)' = UnreadKeys(s)
            \/ /\ s = StoreOf(phase) /\ stage = <<>>
               /\ \E k \in UnreadKeys(s) :
                    /\ UnreadKeys(s)' = {l \in UnreadKeys(s) : k < l}
                    /\ stage' = SeqOf(flash[s].data[k])
                    /\ RangeOf(stage') = RangeOf(flash[s].data[k])
         /\ "read" \notin Faults => Left(s) \subseteq Left(s)'
         /\ Left(s)' \subseteq Left(s)
<1>0. PICK t \in Stores : t = StoreOf(phase)
  BY PhaseNames
<1>1. /\ UNCHANGED <<phase, endkey, flash, ready, ring>> /\ t \in Stores
      /\ phase \in {"zms stamp", "zms ambient"}
      /\ rkey \in [Stores -> Nat]
      /\ t = StoreOf(phase)
  BY <1>0 DEF SendZms, storeVars, BaseInv, StreamTypeOK
<1>2. CASE stage # <<>>
  <2>1. UNCHANGED <<stage, rkey>>
    BY <1>2 DEF SendZms
  <2> QED BY <1>1, <2>1, LeftKept DEF Left
<1>3. CASE stage = <<>>
  <2>0. PICK k0 \in Loadable(t) : /\ stage' = SeqOf(flash[t].data[k0])
                                 /\ rkey' = [rkey EXCEPT ![t] = k0 + 1]
    BY <1>1, <1>3 DEF SendZms
  <2>1. /\ ready /\ stage' = SeqOf(flash[t].data[k0])
        /\ rkey' = [rkey EXCEPT ![t] = k0 + 1]
    BY <1>3, <2>0 DEF SendZms
  <2>2. /\ k0 \in NextKeys(t) /\ k0 \in Nat
        /\ "read" \notin Faults => \A l \in NextKeys(t) : k0 <= l
    BY <1>1, StoreTypes DEF Loadable, NextKeys
  <2>3. UnreadKeys(t) = NextKeys(t) /\ UnreadKeys(t)' = NextKeys(t)'
    BY <1>1, <2>1 DEF UnreadKeys, UnreadIn, StoreOf
  <2>4. NextKeys(t) \subseteq Nat
    BY <1>1, StoreTypes DEF NextKeys
  <2>5. NextKeys(t)' = {k \in DOMAIN flash[t].data : k0 + 1 <= k /\ k < endkey[t]}
    BY <1>1, <2>1 DEF NextKeys
  <2>6. /\ UnreadKeys(t)' = {k \in UnreadKeys(t) : k0 < k}
        /\ "read" \notin Faults => UnreadKeys(t)' = UnreadKeys(t) \ {k0}
    <3>1. rkey[t] \in Nat /\ rkey[t] <= k0
      BY <1>1, <2>2 DEF NextKeys
    <3>2. \A k \in DOMAIN flash[t].data : k \in Nat
      BY <1>1, StoreTypes
    <3>3. NextKeys(t)' = {k \in NextKeys(t) : k0 < k}
      BY <2>2, <2>5, <3>1, <3>2 DEF NextKeys
    <3>4. "read" \notin Faults => {k \in NextKeys(t) : k0 < k} = NextKeys(t) \ {k0}
      BY <2>2, <2>4
    <3> QED BY <2>3, <3>3, <3>4
  <2>7. RangeOf(stage') = RangeOf(flash[t].data[k0])
    <3> DEFINE c == flash[t].data[k0]
    <3>1. c \in [Offsets -> Nat]
      BY <1>1, <2>2, StoreTypes DEF NextKeys
    <3>2. /\ SeqOf(c) \in Seq(Nat) /\ Len(SeqOf(c)) = Chunk
          /\ \A i \in 1 .. Chunk : SeqOf(c)[i] = c[i - 1]
      BY <3>1, SeqOfChunk
    <3>3. DOMAIN SeqOf(c) = 1 .. Chunk /\ DOMAIN c = 0 .. (Chunk - 1) /\ Chunk \in Nat
      BY <3>1, <3>2, LenProperties, ConstantsAssumption DEF Offsets
    <3>4. stage' = SeqOf(c)
      BY <2>1
    <3> HIDE DEF c
    <3>5. \A i \in DOMAIN c : i + 1 \in 1 .. Chunk /\ SeqOf(c)[i + 1] = c[i]
      <4> TAKE i \in DOMAIN c
      <4>1. i + 1 \in 1 .. Chunk /\ (i + 1) - 1 = i
        BY <3>3
      <4> QED BY <3>2, <4>1
    <3>6. \A i \in 1 .. Chunk : i - 1 \in DOMAIN c
      BY <3>3
    <3>7. RangeOf(SeqOf(c)) = RangeOf(c)
      <4>1. ASSUME NEW i \in 1 .. Chunk PROVE SeqOf(c)[i] \in RangeOf(c)
        BY <3>2, <3>6 DEF RangeOf
      <4>2. ASSUME NEW i \in DOMAIN c PROVE c[i] \in RangeOf(SeqOf(c))
        <5>1. i + 1 \in DOMAIN SeqOf(c) /\ SeqOf(c)[i + 1] = c[i]
          BY <3>3, <3>5
        <5> QED BY <5>1 DEF RangeOf
      <4>3. RangeOf(SeqOf(c)) = {SeqOf(c)[i] : i \in 1 .. Chunk}
        BY <3>3 DEF RangeOf
      <4> QED BY <4>1, <4>2, <4>3 DEF RangeOf
    <3> QED BY <3>4, <3>7 DEF c
  <2>8. CASE s # t
    <3>1. UnreadKeys(s)' = UnreadKeys(s)
      BY <1>1, <2>1, <2>8 DEF UnreadKeys, NextKeys, UnreadIn
    <3>2. UnreadRecs(s)' = UnreadRecs(s)
      <4>1. flash' = flash
        BY <1>1
      <4> QED BY <3>1, <4>1, UnreadRecsOf DEF UnreadRecs
    <3>3. StageRecs(s)' = {} /\ StageRecs(s) = {}
      BY <1>1, <2>8 DEF StageRecs, StoreOf
    <3> QED BY <1>1, <2>8, <3>1, <3>2, <3>3 DEF Left, RangeOf
  <2>9. CASE s = t
    <3>1. StageRecs(s)' = RangeOf(stage')
      BY <1>1, <2>9 DEF StageRecs, StoreOf, RangeOf
    <3>2. StageRecs(s) = {}
      <4>1. RangeOf(stage) = {}
        BY <1>3 DEF RangeOf
      <4> QED BY <4>1 DEF StageRecs
    <3>3. UnreadRecs(s)' = UNION {RangeOf(flash[s].data[k]) : k \in UnreadKeys(s)'}
      <4>1. flash' = flash
        BY <1>1
      <4> QED BY <4>1, UnreadRecsOf
    <3>4. k0 \in UnreadKeys(s) /\ UnreadKeys(s)' \subseteq UnreadKeys(s)
      BY <2>2, <2>3, <2>6, <2>9
    <3>5. UnreadRecs(s) = UNION {RangeOf(flash[s].data[k]) : k \in UnreadKeys(s)}
      BY DEF UnreadRecs
    <3>6. RangeOf(stage') = RangeOf(flash[s].data[k0])
      BY <2>7, <2>9
    <3>7. UnreadRecs(s)' \cup RangeOf(stage') \subseteq UnreadRecs(s)
      BY <3>3, <3>4, <3>5, <3>6
    <3>8. "read" \notin Faults => UnreadRecs(s) \subseteq UnreadRecs(s)' \cup RangeOf(stage')
      <4> SUFFICES ASSUME "read" \notin Faults
                   PROVE  UnreadRecs(s) \subseteq UnreadRecs(s)' \cup RangeOf(stage')
        OBVIOUS
      <4>1. UnreadKeys(s) = UnreadKeys(s)' \cup {k0}
        BY <2>6, <2>9, <3>4
      <4> QED BY <3>3, <3>5, <3>6, <4>1
    <3>9. RangeOf(ring[s].slot)' = RangeOf(ring[s].slot)
      BY <1>1 DEF RangeOf
    <3>10. /\ Left(s)' \subseteq Left(s)
           /\ "read" \notin Faults => Left(s) \subseteq Left(s)'
      BY <3>1, <3>2, <3>7, <3>8, <3>9 DEF Left
    <3>11. /\ UnreadKeys(s)' = {k \in UnreadKeys(s) : k0 < k}
           /\ stage' = SeqOf(flash[s].data[k0])
      BY <2>1, <2>6, <2>9
    <3>12. s = StoreOf(phase)
      BY <1>1, <2>9
    <3> QED BY Zenon, <1>3, <3>4, <3>6, <3>10, <3>11, <3>12
  <2> QED BY <2>8, <2>9
<1> QED
  BY <1>2, <1>3

\* Going on to the tail leaves no entry unread but those that failed to be read.
LEMMA AdvanceLeft ==
  ASSUME BaseInv, AdvancePhase, NEW s \in Stores
  PROVE  /\ UnreadKeys(s)' \subseteq UnreadKeys(s) /\ StageRecs(s)' = StageRecs(s)
         /\ "read" \notin Faults => Left(s)' = Left(s)
<1>0. PICK t \in Stores : t = StoreOf(phase)
  BY PhaseNames
<1>1. /\ flash' = flash /\ ready' = ready /\ ring' = ring /\ endkey' = endkey /\ stage' = stage
      /\ rkey' = IF ready /\ rkey[t] < endkey[t] THEN [rkey EXCEPT ![t] = endkey[t]] ELSE rkey
      /\ ready => NextKeys(t) = {} \/ "read" \in Faults
      /\ rkey \in [Stores -> Nat]
  BY <1>0 DEF AdvancePhase, storeVars, BaseInv, StreamTypeOK
<1>2. \/ t = "stamp" /\ phase = "zms stamp" /\ phase' = "ram stamp"
      \/ t = "ambient" /\ phase = "zms ambient" /\ phase' = "ram ambient"
  BY <1>0 DEF AdvancePhase, StoreOf
<1>3. UnreadKeys(t)' = {} /\ ("read" \notin Faults => UnreadKeys(t) = {})
  BY <1>1, <1>2 DEF UnreadKeys, UnreadIn
<1>4. s # t => UnreadKeys(s)' = UnreadKeys(s)
  <2> SUFFICES ASSUME s # t PROVE UnreadKeys(s)' = UnreadKeys(s)
    OBVIOUS
  <2>1. rkey'[s] = rkey[s]
    BY <1>1
  <2>2. NextKeys(s)' = NextKeys(s)
    BY <1>1, <2>1 DEF NextKeys
  <2>3. ready' = ready
    BY <1>1
  <2>4. phase' \in UnreadIn(s) <=> phase \in UnreadIn(s)
    <3>1. CASE t = "stamp"
      <4>1. s = "ambient" /\ phase = "zms stamp" /\ phase' = "ram stamp"
        BY <1>2, <3>1 DEF Stores
      <4> QED BY <4>1 DEF UnreadIn
    <3>2. CASE t = "ambient"
      <4>1. s = "stamp" /\ phase = "zms ambient" /\ phase' = "ram ambient"
        BY <1>2, <3>2 DEF Stores
      <4> QED BY <4>1 DEF UnreadIn
    <3> QED BY <3>1, <3>2 DEF Stores
  <2>5. UnreadKeys(s)' = IF ready' /\ phase' \in UnreadIn(s) THEN NextKeys(s)' ELSE {}
    BY DEF UnreadKeys, UnreadIn
  <2> QED BY <2>2, <2>3, <2>4, <2>5 DEF UnreadKeys
<1>5. /\ UnreadKeys(s)' \subseteq UnreadKeys(s)
      /\ "read" \notin Faults => UnreadKeys(s)' = UnreadKeys(s)
  BY <1>3, <1>4
<1>6. "read" \notin Faults => UnreadRecs(s)' = UnreadRecs(s)
  BY <1>1, <1>5, UnreadRecsOf DEF UnreadRecs
<1>7. StageRecs(s)' = StageRecs(s)
  BY <1>1, <1>2 DEF StageRecs, StoreOf, RangeOf
<1> QED
  BY <1>1, <1>5, <1>6, <1>7 DEF Left, RangeOf

\* After a packet was accepted what is left is the less, but only by the packet.
LEMMA PostLeft ==
  ASSUME BaseInv, SeqInv, StageInv, Post, NEW s \in Stores
  PROVE  /\ UnreadKeys(s)' = UnreadKeys(s) /\ UnreadRecs(s)' = UnreadRecs(s)
         /\ StageRecs(s)' \subseteq StageRecs(s)
         /\ RangeOf(ring'[s].slot) \subseteq RangeOf(ring[s].slot)
         /\ Left(s)' = UnreadRecs(s) \cup StageRecs(s)' \cup RangeOf(ring'[s].slot)
         /\ Left(s) \subseteq Left(s)' \cup Sent(s)
<1>1. /\ flash' = flash /\ ready' = ready /\ rkey' = rkey /\ endkey' = endkey
      /\ pkt.store = StoreOf(phase)
  BY DEF Post, BaseInv, PacketInv
<1>2. \/ phase' = phase
      \/ /\ stage = <<>> /\ stage' = <<>>
         /\ \/ phase = "ram stamp" /\ phase' = "zms ambient"
            \/ phase = "ram ambient" /\ phase' = "done"
  BY PostStage
<1>3. UnreadKeys(s)' = UnreadKeys(s)
  <2>1. NextKeys(s)' = NextKeys(s)
    BY <1>1 DEF NextKeys
  <2> QED BY <1>1, <1>2, <2>1 DEF UnreadKeys, UnreadIn, Stores
<1>4. UnreadRecs(s)' = UnreadRecs(s)
  BY <1>1, <1>3, UnreadRecsOf DEF UnreadRecs
<1>5. StageRecs(s)' \subseteq StageRecs(s) /\ StageRecs(s) \subseteq StageRecs(s)' \cup Sent(s)
  <2>1. StageRecs(s)' = IF StoreOf(phase') = s THEN RangeOf(stage') ELSE {}
    BY DEF StageRecs, StoreOf, RangeOf
  <2>2. CASE phase' = phase
    <3>1. /\ RangeOf(stage) \subseteq RangeOf(stage') \cup (IF Accepted THEN RangeOf(pkt.recs) ELSE {})
          /\ RangeOf(stage') \subseteq RangeOf(stage)
      BY PostStage
    <3>2. Accepted => RangeOf(pkt.recs) \subseteq Sent(pkt.store)
      BY AcceptedSent
    <3> QED BY <1>1, <2>1, <2>2, <3>1, <3>2 DEF StageRecs
  <2>3. CASE phase' # phase
    <3>1. RangeOf(stage) = {} /\ RangeOf(stage') = {}
      BY <1>2, <2>3, NothingIn
    <3> QED BY <2>1, <3>1 DEF StageRecs
  <2> QED BY <2>2, <2>3
<1>6. /\ RangeOf(ring[s].slot) \subseteq RangeOf(ring'[s].slot) \cup Sent(s)
      /\ RangeOf(ring'[s].slot) \subseteq RangeOf(ring[s].slot)
  BY PostKeeps
<1>7. Left(s)' = UnreadRecs(s) \cup StageRecs(s)' \cup RangeOf(ring'[s].slot)
  BY <1>4 DEF Left, RangeOf
<1> QED
  BY <1>3, <1>4, <1>5, <1>6, <1>7 DEF Left

\* A download starts with all it owes left to read.
LEMMA StartLeft ==
  ASSUME StartActivate, NEW s \in Stores
  PROVE  /\ UnreadKeys(s)' = (IF ready THEN LiveKeys(s) ELSE {})
         /\ StageRecs(s)' = {}
         /\ Left(s)' = Readable(s)
         /\ UnreadRecs(s)' = UNION {RangeOf(flash[s].data[k]) : k \in UnreadKeys(s)'}
<1>1. /\ flash' = flash /\ ready' = ready /\ ring' = ring /\ stage' = <<>> /\ phase' = "zms stamp"
      /\ rkey'[s] = meta[s].oldest /\ endkey'[s] = meta[s].write
  BY DEF StartActivate, storeVars, Snapshot
<1>2. NextKeys(s)' = LiveKeys(s)
  BY <1>1 DEF NextKeys, LiveKeys
<1>3. UnreadKeys(s)' = IF ready THEN LiveKeys(s) ELSE {}
  BY <1>1, <1>2 DEF UnreadKeys, UnreadIn
<1>4. UnreadRecs(s)' = UNION {RangeOf(flash[s].data[k]) : k \in UnreadKeys(s)'}
  BY <1>1, UnreadRecsOf
<1>5. StageRecs(s)' = {}
  <2>1. RangeOf(stage') = {}
    BY <1>1, NothingIn
  <2> QED BY <2>1 DEF StageRecs, RangeOf
<1>6. Left(s)' = Readable(s)
  BY <1>1, <1>3, <1>4, <1>5 DEF Left, Readable, RangeOf
<1> QED
  BY <1>3, <1>4, <1>5, <1>6

\* Claiming records for a packet leaves them in the tail.
LEMMA SendRamLeft ==
  ASSUME BaseInv, SendRam, NEW s \in Stores
  PROVE  /\ UNCHANGED <<flash, meta, ready, phase, stage, rkey, endkey, wire, due, seq, offered>>
         /\ ring'[s].slot = ring[s].slot
<1> DEFINE t == StoreOf(phase)
           n == RbClaimLen(ring[t], Cap, RingSize[t])
<1>1. ring' = [ring EXCEPT ![t] = RbClaim(@, n)] /\ DOMAIN ring = Stores
  BY DEF SendRam, BaseInv
<1>2. UNCHANGED <<flash, meta, ready, phase, stage, rkey, endkey, wire, due, seq, offered>>
  BY DEF SendRam, sessionVars, ghostVars
<1> HIDE DEF n, t
<1> QED
  BY <1>1, <1>2 DEF RbClaim

\* Steps of the stores while a download reads only add to the tails.
LEMMA StoreLeft ==
  ASSUME BaseInv, ~Overlap, NEW t \in Stores, Log(t) \/ Commit(t), Reading', NEW s \in Stores
  PROVE  /\ Reading
         /\ UNCHANGED <<flash, ready, hpc, pkt, seq, phase, rkey, endkey, stage, wire, due>>
         /\ RangeOf(ring[s].slot) \subseteq RangeOf(ring'[s].slot)
<1>1. UNCHANGED <<wire, due, hpc, active>>
  BY DEF Log, PutRefused, PutAccepted, Commit, CommitStep, CommitSkip, CommitShort, CommitClaim,
     CommitStore, Evict, CommitFail, CommitSave, CommitFinish, streamVars
<1>2. Reading
  BY <1>1 DEF Reading
<1>3. UNCHANGED <<flash, ready>> /\ RangeOf(ring[s].slot) \subseteq RangeOf(ring'[s].slot)
  BY <1>2, LogKeeps, CommitKeeps
<1> QED
  BY <1>1, <1>2, <1>3, StoreStep

LEMMA DueStep ==
  ASSUME BaseInv, ~Overlap, "read" \notin Faults, SeqInv, StageInv, DueInv,
         [StreamNext]_allVars
  PROVE  DueInv'
<1> SUFFICES ASSUME Reading', NEW s \in Stores PROVE due'[s] \subseteq Sent(s)' \cup Left(s)'
  BY DEF DueInv
<1>1. ASSUME Reading, due' = due, Sent(s) \subseteq Sent(s)', Left(s) \subseteq Left(s)' \cup Sent(s)
      PROVE  due'[s] \subseteq Sent(s)' \cup Left(s)'
  BY <1>1 DEF DueInv
<1>2. CASE \/ HandlerWait \/ HandlerRun \/ HandlerTimeout \/ NotifyFails \/ Resched \/ SentCb
           \/ StartBegin \/ StartCancel \/ StopCommand \/ Connect \/ Disconnect
           \/ UNCHANGED allVars
  <2>1. UNCHANGED downloadVars /\ Reading
    BY <1>2, QuietStep
  <2>2. UNCHANGED <<ring, flash, ready, phase, rkey, endkey, stage, wire, due>>
    BY <2>1 DEF downloadVars
  <2>3. Left(s)' = Left(s)
    BY <2>2, LeftKept DEF Left
  <2> QED BY <1>1, <2>1, <2>2, <2>3, SentKept
<1>3. CASE SendZms \/ AdvancePhase
  <2>1. wire' = wire /\ due' = due /\ hpc = "send"
    BY <1>3 DEF SendZms, AdvancePhase, ghostVars
  <2>2. Left(s) \subseteq Left(s)'
    BY <1>3, LoadMoves, AdvanceLeft
  <2> QED BY <1>1, <2>1, <2>2, SentKept DEF Reading
<1>4. CASE SendRam
  <2>1. UNCHANGED <<flash, ready, phase, stage, rkey, endkey, wire, due>> /\ ring'[s].slot = ring[s].slot
    BY <1>4, SendRamLeft
  <2>2. hpc = "send"
    BY <1>4 DEF SendRam
  <2>3. Left(s)' = Left(s)
    BY <2>1, LeftKept DEF Left
  <2> QED BY <1>1, <2>1, <2>2, <2>3, SentKept DEF Reading
<1>5. CASE NotifyOk
  <2>1. /\ UNCHANGED <<ring, flash, ready, phase, stage, rkey, endkey, due>>
        /\ hpc = "notify" /\ wire' = Append(wire, pkt)
    BY <1>5 DEF NotifyOk, storeVars, sessionVars
  <2>2. wire \in Seq(Packet) /\ pkt \in Packet
    BY DEF BaseInv, GhostInv, StreamTypeOK, Packet
  <2>3. Left(s)' = Left(s)
    BY <2>1, LeftKept DEF Left
  <2> QED BY <1>1, <2>1, <2>2, <2>3, SentAppend DEF Reading
<1>6. CASE Post
  <2>1. wire' = wire /\ due' = due /\ hpc = "post"
    BY <1>6 DEF Post, ghostVars
  <2>2. Left(s) \subseteq Left(s)' \cup Sent(s)
    BY <1>6, PostLeft
  <2> QED BY <1>1, <2>1, <2>2, SentKept DEF Reading
<1>7. CASE StartActivate
  <2>1. due'[s] = Readable(s)
    BY <1>7 DEF StartActivate
  <2> QED BY <1>7, <2>1, StartLeft
<1>8. CASE Clear \/ ClearCommand
  <2>1. due' = NothingDue
    BY <1>8 DEF Clear, ClearStep, ClearCancel, ClearFlash, ClearRam, ClearCommand, BaseInv, ControlInv,
       Stores, streamVars
  <2> QED BY <2>1 DEF NothingDue
<1>9. ASSUME NEW t \in Stores, Log(t) \/ Commit(t)
      PROVE  due'[s] \subseteq Sent(s)' \cup Left(s)'
  <2>1. /\ Reading /\ UNCHANGED <<flash, ready, phase, rkey, endkey, stage, wire, due>>
        /\ RangeOf(ring[s].slot) \subseteq RangeOf(ring'[s].slot)
    BY <1>9, StoreLeft
  <2>2. Left(s) \subseteq Left(s)'
    BY <2>1, LeftKept DEF Left
  <2> QED BY <1>1, <2>1, <2>2, SentKept
<1> QED
  BY <1>2, <1>3, <1>4, <1>5, <1>6, <1>7, <1>8, <1>9 DEF StreamNext, Handler, Send

LEMMA EndKept ==
  ASSUME EndInv, wire' = wire, due' = due \/ due' = NothingDue,
         hpc' = "notify" => hpc = "notify" /\ pkt' = pkt
  PROVE  EndInv'
<1> SUFFICES ASSUME NEW s \in Stores, Ended(s)' \/ LastCut(s)'
             PROVE  due'[s] \subseteq Sent(s)'
  BY DEF EndInv
<1>1. Ended(s) \/ LastCut(s)
  BY DEF Ended, LastCut
<1>2. due'[s] \subseteq due[s]
  BY DEF NothingDue
<1> QED
  BY <1>1, <1>2, SentKept DEF EndInv

\* The LAST header is cut when the store's tail is empty and its entries are read.
LEMMA LastLeft ==
  ASSUME BaseInv, StageInv, SendRam, pkt'.kind = "last"
  PROVE  Left(StoreOf(phase)) = {}
<1>0. PICK s \in Stores : s = StoreOf(phase)
  BY PhaseNames
<1> DEFINE n == RbClaimLen(ring[s], Cap, RingSize[s])
<1>1. phase \in {"ram stamp", "ram ambient"} /\ hpc = "send"
  BY DEF SendRam
<1>2. n = 0
  <2>1. pkt'.kind = IF n = 0 THEN "last" ELSE "ram"
    BY <1>0 DEF SendRam
  <2> QED BY <2>1
<1>3. /\ IsRing(ring[s]) /\ RingSize[s] \in Nat \ {0} /\ Cap \in Nat \ {0} /\ RingInv(s)
  BY ConstantsAssumption, StreamAssumption DEF BaseInv, RingInv
<1>4. ring[s].head = ring[s].tail
  <2>1. commit[s] = Idle
    <3>1. Reading
      BY <1>1 DEF Reading
    <3> QED BY <3>1, ReadingIdle DEF SysIdle
  <2> QED BY <1>1, <1>3, <2>1 DEF RingInv, HoldsClaim
<1>5. RbSize(ring[s]) = 0
  <2>1. ring[s].head % RingSize[s] \in 0 .. (RingSize[s] - 1) /\ RbSize(ring[s]) \in Nat
    BY <1>3, RingCursors
  <2> QED BY <1>2, <1>3, <2>1 DEF RbClaimLen, RbContig
<1>6. ring[s].slot \in [{} -> Nat]
  <2>1. ring[s].put = ring[s].tail /\ ring[s].tail \in Nat
    BY <1>3, <1>4, <1>5, RingCursors
  <2>2. ring[s].tail .. (ring[s].put - 1) = {}
    BY <2>1
  <2> QED BY <1>3, <2>2 DEF IsRing
<1>7. RangeOf(ring[s].slot) = {}
  BY <1>6 DEF RangeOf
<1>8. UnreadKeys(s) = {}
  BY <1>0, <1>1 DEF UnreadKeys, UnreadIn, StoreOf
<1>9. UnreadRecs(s) = {}
  BY <1>8 DEF UnreadRecs
<1>10. StageRecs(s) = {}
  <2>1. RangeOf(stage) = {}
    BY <1>1, NothingIn DEF StageInv
  <2> QED BY <2>1 DEF StageRecs
<1>11. Left(s) = {}
  BY <1>7, <1>9, <1>10 DEF Left
<1> QED
  BY <1>0, <1>11

LEMMA EndStep ==
  ASSUME BaseInv, ~Overlap, LeftInv, [StreamNext]_allVars
  PROVE  EndInv'
<1> SUFFICES ASSUME NEW s \in Stores PROVE Ended(s)' \/ LastCut(s)' => due'[s] \subseteq Sent(s)'
  BY DEF EndInv
<1>0. EndInv => (Ended(s) \/ LastCut(s) => due[s] \subseteq Sent(s))
  BY DEF EndInv
<1>1. CASE \/ HandlerWait \/ HandlerRun \/ HandlerTimeout \/ NotifyFails \/ Resched \/ SentCb
           \/ StartBegin \/ StartCancel \/ StopCommand \/ Connect \/ Disconnect
           \/ UNCHANGED allVars
  <2>1. UNCHANGED <<wire, due>>
    BY <1>1, QuietStep DEF downloadVars
  <2>2. \/ hpc' = hpc /\ pkt' = pkt
        \/ hpc' \in {"send", "idle"}
        \/ NotifyFails
    BY <1>1, QuietStep
  <2>3. NotifyFails => hpc' = "post"
    BY DEF NotifyFails
  <2> QED BY <2>1, <2>2, <2>3, EndKept DEF LeftInv, EndInv
<1>2. CASE SendZms
  <2>1. UNCHANGED <<wire, due>> /\ pkt'.kind = "zms"
    BY <1>2 DEF SendZms, ghostVars
  <2>2. ~LastCut(s)'
    BY <2>1 DEF LastCut
  <2> QED BY <2>1, <2>2, SentKept DEF LeftInv, EndInv, Ended
<1>3. CASE AdvancePhase
  <2>1. UNCHANGED <<wire, due>> /\ hpc' = "resched"
    BY <1>3 DEF AdvancePhase, ghostVars
  <2> QED BY <2>1, EndKept DEF LeftInv, EndInv
<1>4. CASE SendRam
  <2>1. UNCHANGED <<wire, due>> /\ pkt'.store = StoreOf(phase) /\ hpc = "send"
    BY <1>4 DEF SendRam, ghostVars
  <2>2. LastCut(s)' => due[s] \subseteq Sent(s)
    BY <1>4, <2>1, LastLeft, PhaseNames DEF LeftInv, DueInv, Reading, LastCut
  <2>3. Ended(s)' => due[s] \subseteq Sent(s)
    BY <2>1, <1>0 DEF LeftInv, Ended
  <2> QED BY <2>1, <2>2, <2>3, SentKept
<1>5. CASE NotifyOk
  <2>1. /\ due' = due /\ hpc = "notify" /\ hpc' = "post" /\ wire' = Append(wire, pkt)
        /\ wire \in Seq(Packet) /\ pkt \in Packet
    BY <1>5 DEF NotifyOk, BaseInv, GhostInv, StreamTypeOK, Packet
  <2>2. ASSUME Ended(s)' PROVE due'[s] \subseteq Sent(s)'
    <3>1. PICK i \in DOMAIN wire' : wire'[i].kind = "last" /\ wire'[i].store = s
      BY <2>2 DEF Ended
    <3>2. /\ Len(wire) \in Nat /\ DOMAIN wire = 1 .. Len(wire)
          /\ wire' \in Seq(Packet) /\ Len(wire') = Len(wire) + 1
          /\ \A j \in 1 .. Len(wire) : wire'[j] = wire[j]
          /\ wire'[Len(wire) + 1] = pkt
      BY <2>1, AppendProperties, LenProperties
    <3>3. DOMAIN wire' = 1 .. (Len(wire) + 1)
      BY <3>2, LenProperties
    <3>4. due[s] \subseteq Sent(s)
      <4>1. CASE i = Len(wire) + 1
        BY <1>0, <2>1, <3>1, <3>2, <4>1 DEF LeftInv, LastCut
      <4>2. CASE i # Len(wire) + 1
        <5>1. i \in DOMAIN wire /\ wire'[i] = wire[i]
          BY <3>2, <3>3, <4>2
        <5> QED BY <1>0, <3>1, <5>1 DEF LeftInv, Ended
      <4> QED BY <4>1, <4>2
    <3> QED BY <2>1, <3>4, SentAppend
  <2> QED BY <2>1, <2>2 DEF LastCut
<1>6. CASE Post
  <2>1. UNCHANGED <<wire, due>> /\ hpc' = "resched"
    BY <1>6 DEF Post, ghostVars
  <2> QED BY <2>1, EndKept DEF LeftInv, EndInv
<1>7. CASE StartActivate
  <2>1. wire' = <<>> /\ hpc' = hpc /\ hpc = "idle"
    BY <1>7 DEF StartActivate, BaseInv, ControlInv, handlerVars
  <2>2. DOMAIN wire' = {}
    BY <2>1, EmptySeq
  <2> QED BY <2>1, <2>2 DEF Ended, LastCut
<1>8. CASE Clear \/ ClearCommand
  <2>1. due' = due \/ due' = NothingDue
    BY <1>8 DEF Clear, ClearCommand, streamVars
  <2> QED BY <1>8, <2>1, EndKept, StoreStep DEF LeftInv, EndInv
<1>9. CASE \E t \in Stores : Log(t) \/ Commit(t)
  <2>1. due' = due
    BY <1>9 DEF Log, Commit, streamVars
  <2> QED BY <1>9, <2>1, EndKept, StoreStep DEF LeftInv, EndInv
<1> QED
  BY <1>1, <1>2, <1>3, <1>4, <1>5, <1>6, <1>7, <1>8, <1>9 DEF StreamNext, Handler, Send

\* A download that ended with both LAST headers has returned everything that was
\* readable when it started: the phases, the snapshot of keys, the staged entry
\* and the claims of the tail leave nothing out, whatever was refused on the way,
\* as long as every entry can be read.
THEOREM DownloadIsComplete ==
  ASSUME ~Overlap, Streams, "read" \notin Faults
  PROVE  StreamSpec => []Complete
<1>1. Init /\ StreamInit => LeftInv
  <2> SUFFICES ASSUME Init, StreamInit PROVE LeftInv
    OBVIOUS
  <2>1. stage = <<>> /\ hpc = "idle" /\ ~active /\ wire = <<>>
    BY DEF Init, StreamInit
  <2>2. DOMAIN wire = {}
    BY <2>1, EmptySeq
  <2> QED BY <2>1, <2>2 DEF LeftInv, StageInv, DueInv, EndInv, Reading, Ended, LastCut
<1>2. BaseInv /\ SeqInv /\ LeftInv /\ [StreamNext]_allVars => BaseInv' /\ SeqInv' /\ LeftInv'
  <2> SUFFICES ASSUME BaseInv, SeqInv, LeftInv, [StreamNext]_allVars
               PROVE  BaseInv' /\ SeqInv' /\ LeftInv'
    OBVIOUS
  <2>1. StageInv' /\ DueInv'
    BY StageStep, DueStep DEF LeftInv
  <2> QED BY <2>1, BaseStep, SeqStep, EndStep DEF LeftInv
<1>3. LeftInv => Complete
  BY DEF LeftInv, EndInv, Complete
<1> QED
  BY <1>1, <1>2, <1>3, SeqInit, BaseInit, PTL DEF StreamSpec

-----------------------------------------------------------------------------
(***************************************************************************)
(* The order on the wire.                                                  *)
(***************************************************************************)
\* Records the download will not send again.
Acked(s) ==
  UNION {RangeOf(wire[i].recs) : i \in {j \in DOMAIN wire : j <= seq /\ wire[j].store = s}}

Below(X, Y) == \A x \in X, y \in Y : x < y

\* What is left of a store is in order: the staged entry, the unread ones, the
\* tail; it comes after what was sent, and before what will be logged.
LeftOrder(s) ==
  /\ \A k \in UnreadKeys(s) : ChunkSorted(flash[s].data[k])
  /\ \A k, l \in UnreadKeys(s) : k < l => Before(flash[s].data[k], flash[s].data[l])
  /\ Below(StageRecs(s), UnreadRecs(s) \cup RangeOf(ring[s].slot))
  /\ Below(UnreadRecs(s), RangeOf(ring[s].slot))

ReadOrder(s) ==
  /\ LeftOrder(s)
  /\ Below(Acked(s), Left(s))
  /\ Sent(s) \cup Left(s) \subseteq 1 .. offered[s]

ReadInv == Reading => Increasing(stage) /\ \A s \in Stores : ReadOrder(s)

\* So is the packet that is about to be sent.
PacketOrder(s) ==
  /\ Increasing(pkt.recs)
  /\ RangeOf(pkt.recs) \subseteq 1 .. offered[s]
  /\ Below(Acked(s), RangeOf(pkt.recs))

PacketOrderInv == \A s \in Stores : hpc = "notify" /\ pkt.store = s => PacketOrder(s)

\* A packet cut from the tail holds its claim unless a clear emptied the tail
\* under it; nothing is logged between that clear and the end of the packet.
HandInv ==
  /\ clearing # "no" => ~active
  /\ hpc \in {"notify", "post"} /\ pkt.kind = "ram" =>
       \A s \in Stores : pkt.store = s =>
         ring[s].head # ring[s].tail \/ (~active /\ ring[s].put = ring[s].tail)

\* The order of the stores, as LogStore's theorems have it.
LEMMA TailOrder ==
  ASSUME BaseInv, NEW s \in Stores, Facts!OrderInv(s)
  PROVE  /\ \A p \in ring[s].tail .. (ring[s].put - 1) : ring[s].slot[p] \in 1 .. offered[s]
         /\ \A p, q \in ring[s].tail .. (ring[s].put - 1) :
              p < q => ring[s].slot[p] < ring[s].slot[q]
<1>1. /\ CommittedRing[s].tail = ring[s].tail /\ CommittedRing[s].put = ring[s].put
      /\ CommittedRing[s].slot = ring[s].slot
  BY StoreTypes, CommittedAt, UnclaimedIsRing
<1> QED
  BY <1>1 DEF Facts!OrderInv, Facts!OfferedInv, Facts!RingSorted

LEMMA LiveOrder ==
  ASSUME BaseInv, NEW s \in Stores, Facts!OrderInv(s), ready, commit[s] = Idle
  PROVE  /\ \A k \in LiveKeys(s) : ChunkSorted(flash[s].data[k])
         /\ \A k \in LiveKeys(s) : \A i \in Offsets : flash[s].data[k][i] \in 1 .. offered[s]
         /\ \A k, l \in LiveKeys(s) : k < l => Before(flash[s].data[k], flash[s].data[l])
         /\ \A k \in LiveKeys(s), p \in ring[s].tail .. (ring[s].put - 1) :
              \A i \in Offsets : flash[s].data[k][i] < ring[s].slot[p]
<1>1. /\ CommittedRing[s].tail = ring[s].tail /\ CommittedRing[s].put = ring[s].put
      /\ CommittedRing[s].slot = ring[s].slot /\ ring[s].tail \in Nat
  BY StoreTypes, CommittedAt, UnclaimedIsRing, RingCursors
<1>2. Facts!TailPos(s) = ring[s].tail .. (ring[s].put - 1)
  <2>1. Facts!TailFrom(s) = ring[s].tail + 0
    BY <1>1 DEF Facts!TailFrom, Idle
  <2>2. Facts!TailFrom(s) = ring[s].tail
    BY <1>1, <2>1
  <2> QED BY <1>1, <2>2 DEF Facts!TailPos
<1>3. LiveKeys(s) \subseteq Facts!OldKeys(s) /\ LiveKeys(s) \subseteq DOMAIN flash[s].data
  BY DEF LiveKeys, Facts!OldKeys, Facts!NextKey
<1>4. /\ \A c : Facts!ChunkSorted(c) <=> ChunkSorted(c)
      /\ \A c, d : Facts!Before(c, d) <=> Before(c, d)
  BY SameNames DEF Facts!ChunkSorted, ChunkSorted, Facts!Before, Before
<1>5. \A k \in LiveKeys(s) : ChunkSorted(flash[s].data[k])
  BY <1>3, <1>4 DEF Facts!OrderInv, Facts!FlashSorted
<1>6. \A k \in LiveKeys(s) : \A i \in Offsets : flash[s].data[k][i] \in 1 .. offered[s]
  BY <1>3, SameNames DEF Facts!OrderInv, Facts!OfferedInv
<1>7. \A k, l \in LiveKeys(s) : k < l => Before(flash[s].data[k], flash[s].data[l])
  BY <1>3, <1>4 DEF Facts!OrderInv, Facts!FlashSorted
<1>8. \A k \in LiveKeys(s), p \in ring[s].tail .. (ring[s].put - 1) :
        \A i \in Offsets : flash[s].data[k][i] < ring[s].slot[p]
  BY <1>1, <1>2, <1>3, SameNames DEF Facts!OrderInv, Facts!FlashBeforeRing
<1> QED
  BY <1>5, <1>6, <1>7, <1>8

\* The records of an entry and of a tail.
LEMMA ChunkRange ==
  ASSUME NEW c \in [Offsets -> Nat], NEW x
  PROVE  x \in RangeOf(c) <=> \E i \in Offsets : x = c[i]
BY DEF RangeOf

LEMMA TailRange ==
  ASSUME NEW r, IsRing(r), NEW x
  PROVE  x \in RangeOf(r.slot) <=> \E p \in r.tail .. (r.put - 1) : x = r.slot[p]
<1>1. DOMAIN r.slot = r.tail .. (r.put - 1)
  BY DEF IsRing
<1> QED
  BY <1>1 DEF RangeOf

LEMMA AckedSent ==
  ASSUME NEW s \in Stores
  PROVE  Acked(s) \subseteq Sent(s)
BY DEF Acked, Sent

LEMMA AckedKept ==
  ASSUME NEW s \in Stores, wire' = wire, seq' = seq
  PROVE  Acked(s)' = Acked(s) /\ Sent(s)' = Sent(s)
BY DEF Acked, Sent, RangeOf

-----------------------------------------------------------------------------
\* A store that only loses records stays in order.
LEMMA OrderLoses ==
  ASSUME NEW s \in Stores, LeftOrder(s),
         \A k \in UnreadKeys(s)' : k \in UnreadKeys(s) /\ flash'[s].data[k] = flash[s].data[k],
         StageRecs(s)' \subseteq StageRecs(s),
         RangeOf(ring'[s].slot) \subseteq RangeOf(ring[s].slot)
  PROVE  LeftOrder(s)' /\ Left(s)' \subseteq Left(s)
<1>1. UnreadRecs(s)' \subseteq UnreadRecs(s)
  <2>1. UnreadRecs(s)' = UNION {RangeOf(flash'[s].data[k]) : k \in UnreadKeys(s)'}
    BY DEF UnreadRecs, RangeOf
  <2> QED BY <2>1 DEF UnreadRecs
<1>2. \A k \in UnreadKeys(s)' : ChunkSorted(flash'[s].data[k])
  BY DEF LeftOrder
<1>3. \A k, l \in UnreadKeys(s)' : k < l => Before(flash'[s].data[k], flash'[s].data[l])
  BY DEF LeftOrder
<1>4. /\ Below(StageRecs(s)', UnreadRecs(s)' \cup RangeOf(ring'[s].slot))
      /\ Below(UnreadRecs(s)', RangeOf(ring'[s].slot))
  BY <1>1 DEF LeftOrder, Below
<1>5. LeftOrder(s)'
  BY <1>2, <1>3, <1>4 DEF LeftOrder, ChunkSorted, Before, Below, RangeOf
<1>6. Left(s)' = UnreadRecs(s)' \cup StageRecs(s)' \cup RangeOf(ring'[s].slot)
  BY DEF Left, RangeOf
<1> QED
  BY <1>1, <1>5, <1>6 DEF Left

LEMMA OrderOf ==
  ASSUME NEW s \in Stores, ReadOrder(s), LeftOrder(s)', Left(s)' \subseteq Left(s),
         Acked(s)' \subseteq Acked(s), Sent(s)' \subseteq Sent(s), offered'[s] = offered[s]
  PROVE  ReadOrder(s)'
<1>1. Below(Acked(s)', Left(s)')
  BY DEF ReadOrder, Below
<1>2. Sent(s)' \cup Left(s)' \subseteq 1 .. offered'[s]
  BY DEF ReadOrder
<1> QED
  BY <1>1, <1>2 DEF ReadOrder, Below

\* A step that leaves a store and the handler's reading of it alone.
LEMMA OrderKept ==
  ASSUME NEW s \in Stores, ReadOrder(s),
         UNCHANGED <<phase, stage, rkey, endkey, flash, ready, wire, seq>>,
         RangeOf(ring'[s].slot) \subseteq RangeOf(ring[s].slot), offered'[s] = offered[s]
  PROVE  ReadOrder(s)'
<1>1. UnreadKeys(s)' = UnreadKeys(s) /\ StageRecs(s)' = StageRecs(s)
  BY LeftKept
<1>2. LeftOrder(s)' /\ Left(s)' \subseteq Left(s)
  BY <1>1, OrderLoses DEF ReadOrder
<1> QED
  BY <1>2, AckedKept, OrderOf

LEMMA HandStep ==
  ASSUME BaseInv, ~Overlap, HandInv, [StreamNext]_allVars
  PROVE  HandInv'
<1>1. ASSUME clearing' # "no" => ~active', UNCHANGED <<hpc, pkt>>,
             active' => active,
             \A s \in Stores : \/ ring'[s].head = ring[s].head /\ ring'[s].tail = ring[s].tail
                                  /\ (active \/ ring'[s].put = ring[s].put)
                               \/ ~active' /\ ring'[s].put = ring'[s].tail
      PROVE  HandInv'
  BY <1>1 DEF HandInv
<1>2. ASSUME clearing' # "no" => ~active', ~(hpc' \in {"notify", "post"})
      PROVE  HandInv'
  BY <1>2 DEF HandInv
<1>3. CASE HandlerRun \/ HandlerTimeout \/ SendZms \/ AdvancePhase \/ Post \/ Resched
  <2>1. clearing' = clearing /\ (active' => active)
    <3>1. CASE HandlerRun \/ HandlerTimeout
      <4>1. active' = (active /\ conn) /\ clearing' = clearing
        BY Zenon, <3>1 DEF HandlerRun, HandlerTimeout, Proceed, storeVars
      <4> QED BY <4>1
    <3>2. CASE SendZms \/ AdvancePhase \/ Post \/ Resched
      BY <3>2 DEF SendZms, AdvancePhase, Post, Resched, storeVars
    <3> QED BY <1>3, <3>1, <3>2
  <2>2. CASE SendZms
    <3>1. pkt'.kind = "zms"
      BY <2>2 DEF SendZms
    <3> QED BY <2>1, <3>1 DEF HandInv
  <2>3. CASE ~SendZms
    <3>1. hpc' \in {"send", "idle", "resched"}
      BY <1>3, <2>3 DEF HandlerRun, HandlerTimeout, Proceed, AdvancePhase, Post, Resched
    <3> QED BY <1>2, <2>1, <3>1 DEF HandInv
  <2> QED BY <2>2, <2>3
<1>4. CASE SendRam
  <2>0. PICK s \in Stores : s = StoreOf(phase)
    BY PhaseNames
  <2> DEFINE n == RbClaimLen(ring[s], Cap, RingSize[s])
  <2>1. /\ n \in Nat /\ n <= RbSize(ring[s])
        /\ ring' = [ring EXCEPT ![s] = RbClaim(@, n)]
        /\ pkt'.kind = (IF n = 0 THEN "last" ELSE "ram") /\ pkt'.store = s
    BY <1>4, <2>0, RamPacket
  <2>2. clearing' = clearing /\ active' = active /\ hpc = "send" /\ DOMAIN ring = Stores /\ IsRing(ring[s])
    BY <1>4, StoreTypes DEF SendRam, BaseInv
  <2> HIDE DEF n
  <2>3. commit[s] = Idle /\ ring[s].head = ring[s].tail
    <3>1. Reading
      BY <2>2 DEF Reading
    <3> QED BY <2>2, <3>1, ReadingIdle DEF SysIdle, BaseInv, RingInv, HoldsClaim
  <2>4. ring'[s].tail = ring[s].tail /\ ring'[s].head = ring[s].head + n
    <3>1. ring'[s] = RbClaim(ring[s], n)
      BY <2>1, <2>2
    <3> QED BY <2>1, <2>2, <3>1, RbClaimIsRing
  <2>5. pkt'.kind = "ram" => ring'[s].head # ring'[s].tail
    BY <2>1, <2>2, <2>3, <2>4, RingCursors
  <2> QED BY <2>1, <2>2, <2>5 DEF HandInv
<1>5. CASE NotifyOk \/ NotifyFails
  <2>1. /\ ring' = ring /\ clearing' = clearing /\ active' = active /\ hpc = "notify" /\ hpc' = "post"
        /\ pkt'.kind = pkt.kind /\ pkt'.store = pkt.store
    BY <1>5 DEF NotifyOk, NotifyFails, BaseInv, StreamTypeOK, storeVars
  <2> QED BY <2>1 DEF HandInv
<1>6. CASE \/ HandlerWait \/ SentCb \/ StartBegin \/ StartCancel \/ StopCommand \/ ClearCommand
           \/ Connect \/ Disconnect \/ UNCHANGED allVars
  <2>1. UNCHANGED <<ring, hpc, pkt>> /\ (active' = active \/ active' = FALSE)
    BY Zenon, <1>6 DEF HandlerWait, SentCb, StartBegin, StartCancel, StopCommand, StopEffects,
       ClearCommand, Connect, Disconnect, allVars, storeVars, streamVars, handlerVars
  <2>2. clearing' = clearing \/ active' = FALSE
    BY Zenon, <1>6 DEF HandlerWait, SentCb, StartBegin, StartCancel, StopCommand, StopEffects,
       ClearCommand, Connect, Disconnect, allVars, storeVars
  <2>3. (clearing' # "no" => ~active') /\ (active' => active)
    BY <2>1, <2>2 DEF HandInv
  <2> QED BY <1>1, <2>1, <2>3
<1>7. CASE StartActivate
  <2>1. clearing' = "no" /\ hpc' = "idle"
    BY <1>7 DEF StartActivate, BaseInv, ControlInv, storeVars, handlerVars
  <2> QED BY <1>2, <2>1
<1>8. ASSUME NEW t \in Stores, Log(t) \/ Commit(t)
      PROVE  HandInv'
  <2>1. UNCHANGED <<hpc, pkt, active, clearing>>
    BY <1>8 DEF Log, PutRefused, PutAccepted, Commit, CommitStep, CommitSkip, CommitShort, CommitClaim,
       CommitStore, Evict, CommitFail, CommitSave, CommitFinish, streamVars
  <2>2. CASE hpc = "idle"
    BY <1>2, <2>1, <2>2 DEF HandInv
  <2>3. CASE hpc # "idle"
    <3>1. Reading /\ active
      BY <1>8, <2>3 DEF Reading, Log, Commit, Settled
    <3>2. \A s \in Stores : ring'[s].head = ring[s].head /\ ring'[s].tail = ring[s].tail
      BY <1>8, <3>1, LogKeeps, CommitKeeps
    <3> QED BY <2>1, <3>1, <3>2 DEF HandInv
  <2> QED BY <2>2, <2>3
<1>9. CASE Clear
  <2>1. UNCHANGED <<hpc, pkt, active>> /\ clearing # "no" /\ ~active
    BY <1>9 DEF Clear, ClearStep, ClearCancel, ClearFlash, ClearRam, Stores, streamVars, HandInv
  <2>2. ring' = ring \/ \A s \in Stores : ring'[s] = RbEmpty
    BY <1>9 DEF Clear, ClearStep, ClearCancel, ClearFlash, ClearRam
  <2>3. RbEmpty.put = RbEmpty.tail
    BY DEF RbEmpty
  <2> QED BY <1>1, <2>1, <2>2, <2>3
<1> QED
  BY <1>3, <1>4, <1>5, <1>6, <1>7, <1>8, <1>9 DEF StreamNext, Handler, Send

\* An entry that is loaded is in order.
LEMMA LoadIncreasing ==
  ASSUME BaseInv, SendZms, NEW s \in Stores, s = StoreOf(phase), ReadOrder(s), Increasing(stage)
  PROVE  Increasing(stage')
<1>1. CASE stage' = stage
  BY <1>1
<1>2. CASE stage' # stage
  <2>1. PICK k \in UnreadKeys(s) : stage' = SeqOf(flash[s].data[k])
    BY <1>2, LoadMoves
  <2> DEFINE c == flash[s].data[k]
  <2>2. c \in [Offsets -> Nat]
    BY <2>1, StoreTypes DEF UnreadKeys, NextKeys
  <2>3. ChunkSorted(c)
    BY <2>1 DEF ReadOrder, LeftOrder
  <2> HIDE DEF c
  <2>4. /\ DOMAIN SeqOf(c) = 1 .. Chunk /\ Chunk \in Nat
        /\ \A i \in 1 .. Chunk : SeqOf(c)[i] = c[i - 1]
    BY <2>2, SeqOfChunk, LenProperties, ConstantsAssumption
  <2>5. ASSUME NEW i \in 1 .. Chunk, NEW j \in 1 .. Chunk, i < j PROVE SeqOf(c)[i] < SeqOf(c)[j]
    <3>1. i - 1 \in Offsets /\ j - 1 \in Offsets /\ i - 1 < j - 1
      BY <2>4, <2>5 DEF Offsets
    <3> QED BY <2>3, <2>4, <3>1 DEF ChunkSorted
  <2>6. stage' = SeqOf(c)
    BY <2>1 DEF c
  <2> QED BY <2>4, <2>5, <2>6 DEF Increasing
<1> QED
  BY <1>1, <1>2

LEMMA PacketOrderStep ==
  ASSUME BaseInv, ~Overlap, \A s \in Stores : Facts!OrderInv(s), StageInv, ReadInv, PacketOrderInv,
         [StreamNext]_allVars
  PROVE  PacketOrderInv'
<1> SUFFICES ASSUME NEW s \in Stores, hpc' = "notify", pkt'.store = s
             PROVE  PacketOrder(s)'
  BY DEF PacketOrderInv
<1>0. /\ offered[s] \in Nat /\ IsRing(ring[s]) /\ DOMAIN ring = Stores /\ stage \in Seq(Nat)
  BY StoreTypes DEF BaseInv, StreamTypeOK
<1>1. ASSUME hpc = "notify", pkt' = pkt, wire' = wire, seq' = seq,
             offered'[s] \in Nat, offered[s] <= offered'[s]
      PROVE  PacketOrder(s)'
  <2>1. PacketOrder(s)
    BY <1>1 DEF PacketOrderInv
  <2>2. RangeOf(pkt'.recs) \subseteq 1 .. offered'[s]
    BY <1>0, <1>1, <2>1 DEF PacketOrder
  <2>3. Below(Acked(s)', RangeOf(pkt'.recs))
    BY <1>1, <2>1, AckedKept DEF PacketOrder
  <2> QED BY <1>1, <2>1, <2>2, <2>3 DEF PacketOrder, Increasing, RangeOf, Below
<1>2. CASE SendZms
  <2>1. /\ pkt'.recs = Prefix(stage') /\ stage' \in Seq(Nat)
        /\ s = StoreOf(phase)
    BY <1>2, ZmsPacket
  <2>2. /\ hpc = "send" /\ UNCHANGED <<wire, seq, offered, phase>>
    BY <1>2 DEF SendZms, storeVars, ghostVars
  <2>3. ReadOrder(s) /\ Increasing(stage)
    BY <2>2 DEF ReadInv, Reading
  <2>4. Increasing(stage')
    BY <1>2, <2>1, <2>3, LoadIncreasing
  <2>5. /\ DOMAIN pkt'.recs = 1 .. Len(pkt'.recs) /\ DOMAIN stage' = 1 .. Len(stage')
        /\ Len(pkt'.recs) \in Nat /\ Len(stage') \in Nat /\ Len(pkt'.recs) <= Len(stage')
        /\ \A i \in 1 .. Len(pkt'.recs) : pkt'.recs[i] = stage'[i]
    BY <2>1, PrefixOf, LenProperties
  <2>6. Increasing(pkt'.recs)
    BY <2>4, <2>5 DEF Increasing
  <2>7. RangeOf(pkt'.recs) \subseteq RangeOf(stage')
    BY <2>5 DEF RangeOf
  <2>8. RangeOf(stage') \subseteq Left(s)
    <3>1. StageRecs(s)' = RangeOf(stage')
      BY <2>1, <2>2 DEF StageRecs, StoreOf, RangeOf
    <3> QED BY <1>2, <3>1, LoadMoves DEF Left
  <2>9. RangeOf(pkt'.recs) \subseteq 1 .. offered'[s]
    BY <2>2, <2>3, <2>7, <2>8 DEF ReadOrder
  <2>10. Below(Acked(s)', RangeOf(pkt'.recs))
    BY <2>2, <2>3, <2>7, <2>8, AckedKept DEF ReadOrder, Below
  <2> QED BY <2>6, <2>9, <2>10 DEF PacketOrder, Increasing, RangeOf, Below
<1>3. CASE SendRam
  <2> DEFINE n == RbClaimLen(ring[s], Cap, RingSize[s])
  <2>0. s = StoreOf(phase)
    BY <1>3 DEF SendRam
  <2>1. /\ n \in Nat /\ n <= RbSize(ring[s])
        /\ DOMAIN pkt'.recs = 1 .. n
        /\ \A i \in 1 .. n : pkt'.recs[i] = ring[s].slot[ring[s].head + i - 1]
    BY <1>3, <2>0, RamPacket
  <2>2. /\ hpc = "send" /\ UNCHANGED <<wire, seq, offered>>
    BY <1>3 DEF SendRam, sessionVars, ghostVars
  <2> HIDE DEF n
  <2>3. ReadOrder(s)
    BY <2>2 DEF ReadInv, Reading
  <2>4. \A i \in 1 .. n : ring[s].head + i - 1 \in ring[s].tail .. (ring[s].put - 1)
    <3> DEFINE a == ring[s].tail
               h == ring[s].head
               b == ring[s].put
    <3>1. a \in Nat /\ h \in Nat /\ b \in Nat /\ a <= h
      BY <1>0, RingCursors
    <3>2. n <= b - h
      BY <2>1 DEF RbSize
    <3> HIDE DEF a, h, b
    <3>3. \A i \in 1 .. n : h + i - 1 \in a .. (b - 1)
      BY <2>1, <3>1, <3>2
    <3> QED BY <3>3 DEF a, h, b
  <2>5. ring[s].head \in Nat
    BY <1>0, RingCursors
  <2>6. Increasing(pkt'.recs)
    <3> SUFFICES ASSUME NEW i \in 1 .. n, NEW j \in 1 .. n, i < j PROVE pkt'.recs[i] < pkt'.recs[j]
      BY <2>1 DEF Increasing
    <3>1. ring[s].head + i - 1 < ring[s].head + j - 1
      BY <2>1, <2>5
    <3> QED BY <2>1, <2>4, <3>1, TailOrder
  <2>7. RangeOf(pkt'.recs) \subseteq Left(s)
    <3> SUFFICES ASSUME NEW i \in 1 .. n PROVE pkt'.recs[i] \in Left(s)
      BY <2>1 DEF RangeOf
    <3>1. ring[s].slot[ring[s].head + i - 1] \in RangeOf(ring[s].slot)
      BY <1>0, <2>4, TailRange
    <3> QED BY <2>1, <3>1 DEF Left
  <2>8. RangeOf(pkt'.recs) \subseteq 1 .. offered'[s]
    BY <2>2, <2>3, <2>7 DEF ReadOrder
  <2>9. Below(Acked(s)', RangeOf(pkt'.recs))
    BY <2>2, <2>3, <2>7, AckedKept DEF ReadOrder, Below
  <2> QED BY <2>6, <2>8, <2>9 DEF PacketOrder, Increasing, RangeOf, Below
<1>4. CASE \/ HandlerWait \/ HandlerRun \/ HandlerTimeout \/ NotifyFails \/ Resched \/ SentCb
           \/ StartBegin \/ StartCancel \/ StopCommand \/ Connect \/ Disconnect
           \/ UNCHANGED allVars
  <2>1. UNCHANGED <<wire, seq, offered>>
    BY <1>4, QuietStep DEF downloadVars
  <2>2. ~NotifyFails
    BY DEF NotifyFails
  <2>3. hpc' = hpc /\ pkt' = pkt
    BY <1>4, <2>2, QuietStep
  <2>4. offered'[s] \in Nat /\ offered[s] <= offered'[s]
    BY <1>0, <2>1
  <2> QED BY <1>1, <2>1, <2>3, <2>4
<1>5. CASE (\E t \in Stores : Log(t) \/ Commit(t)) \/ Clear \/ ClearCommand
  <2>1. UNCHANGED <<hpc, pkt, seq, wire>>
    BY <1>5, StoreStep
  <2>2. offered' = offered \/ \E t \in Stores : offered' = [offered EXCEPT ![t] = @ + 1]
    BY <1>5 DEF Log, PutRefused, PutAccepted, Offer, Commit, CommitStep, CommitSkip, CommitShort,
       CommitClaim, CommitStore, Evict, CommitFail, CommitSave, CommitFinish, Clear, ClearStep,
       ClearCancel, ClearFlash, ClearRam, ClearCommand
  <2>3. offered \in [Stores -> Nat]
    BY SameNames DEF BaseInv, Facts!TypeInv, Facts!TypeOK
  <2>4. offered'[s] \in Nat /\ offered[s] <= offered'[s]
    BY <2>2, <2>3
  <2> QED BY <1>1, <2>1, <2>4
<1>6. CASE AdvancePhase \/ NotifyOk \/ Post
  BY <1>6 DEF AdvancePhase, NotifyOk, Post
<1>7. CASE StartActivate
  BY <1>7 DEF StartActivate, BaseInv, ControlInv, handlerVars
<1> QED
  BY <1>2, <1>3, <1>4, <1>5, <1>6, <1>7 DEF StreamNext, Handler, Send

LEMMA WireStep ==
  ASSUME BaseInv, ~Overlap, SeqInv, PacketOrderInv, SentInOrder, [StreamNext]_allVars
  PROVE  SentInOrder'
<1>1. CASE wire' = wire
  BY <1>1 DEF SentInOrder, Increasing
<1>2. CASE NotifyOk
  <2>1. /\ hpc = "notify" /\ wire' = Append(wire, pkt) /\ wire \in Seq(Packet) /\ pkt \in Packet
        /\ Len(wire) = seq /\ seq \in Nat
    BY <1>2 DEF NotifyOk, BaseInv, GhostInv, StreamTypeOK, Packet, SeqInv, Accepted
  <2>2. /\ DOMAIN wire = 1 .. seq /\ DOMAIN wire' = 1 .. (seq + 1)
        /\ wire'[seq + 1] = pkt /\ \A i \in 1 .. seq : wire'[i] = wire[i]
    BY <2>1, AppendProperties, LenProperties
  <2>3. PICK s \in Stores : s = pkt.store
    BY <2>1 DEF Packet
  <2>4. PacketOrder(s)
    BY <2>1, <2>3 DEF PacketOrderInv
  <2>5. ASSUME NEW i \in 1 .. (seq + 1) PROVE Increasing(wire'[i].recs)
    <3>1. CASE i = seq + 1
      BY <2>2, <2>4, <3>1 DEF PacketOrder
    <3>2. CASE i # seq + 1
      <4>1. i \in 1 .. seq
        BY <2>1, <3>2
      <4> QED BY <2>2, <4>1 DEF SentInOrder
    <3> QED BY <3>1, <3>2
  <2>6. ASSUME NEW i \in 1 .. (seq + 1), NEW j \in 1 .. (seq + 1), i < j,
               wire'[i].store = wire'[j].store,
               NEW m \in DOMAIN wire'[i].recs, NEW n \in DOMAIN wire'[j].recs
        PROVE  wire'[i].recs[m] < wire'[j].recs[n]
    <3>1. i \in 1 .. seq /\ wire'[i] = wire[i]
      BY <2>1, <2>2, <2>6
    <3>2. CASE j = seq + 1
      <4>1. wire'[i].recs[m] \in Acked(s)
        BY <2>2, <2>3, <2>6, <3>1, <3>2 DEF Acked, RangeOf
      <4>2. wire'[j].recs[n] \in RangeOf(pkt.recs)
        BY <2>2, <3>2 DEF RangeOf
      <4> QED BY <2>4, <4>1, <4>2 DEF PacketOrder, Below
    <3>3. CASE j # seq + 1
      <4>1. j \in 1 .. seq /\ wire'[j] = wire[j]
        BY <2>1, <2>2, <3>3
      <4> QED BY <2>2, <2>6, <3>1, <4>1 DEF SentInOrder
    <3> QED BY <3>2, <3>3
  <2> QED BY <2>2, <2>5, <2>6 DEF SentInOrder, Increasing
<1>3. CASE StartActivate
  <2>1. DOMAIN wire' = {}
    <3>1. wire' = <<>>
      BY <1>3 DEF StartActivate
    <3> QED BY <3>1, EmptySeq
  <2> QED BY <2>1 DEF SentInOrder
<1>4. CASE \/ HandlerWait \/ HandlerRun \/ HandlerTimeout \/ NotifyFails \/ Resched \/ SentCb
           \/ StartBegin \/ StartCancel \/ StopCommand \/ Connect \/ Disconnect
           \/ UNCHANGED allVars
  BY <1>1, <1>4, QuietStep DEF downloadVars
<1>5. CASE SendZms \/ AdvancePhase \/ SendRam \/ Post
  BY <1>1, <1>5 DEF SendZms, AdvancePhase, SendRam, Post, ghostVars
<1>6. CASE (\E t \in Stores : Log(t) \/ Commit(t)) \/ Clear \/ ClearCommand
  BY <1>1, <1>6, StoreStep
<1> QED
  BY <1>2, <1>3, <1>4, <1>5, <1>6 DEF StreamNext, Handler, Send

\* What a download finds when it starts is in order.
LEMMA StartOrder ==
  ASSUME BaseInv, StartActivate, NEW s \in Stores, Facts!OrderInv(s)
  PROVE  ReadOrder(s)'
<1>1. /\ UNCHANGED <<flash, ready, ring, offered>> /\ wire' = <<>> /\ IsRing(ring[s])
      /\ commit[s] = Idle
  BY StoreTypes DEF StartActivate, storeVars, BaseInv, ControlInv, SysIdle
<1>2. DOMAIN wire' = {}
  BY <1>1, EmptySeq
<1>3. Acked(s)' = {} /\ Sent(s)' = {}
  BY <1>2 DEF Acked, Sent
<1>4. /\ UnreadKeys(s)' = (IF ready THEN LiveKeys(s) ELSE {})
      /\ StageRecs(s)' = {}
      /\ Left(s)' = Readable(s)
      /\ UnreadRecs(s)' = UNION {RangeOf(flash[s].data[k]) : k \in UnreadKeys(s)'}
  BY StartLeft
<1>5. \A k \in UnreadKeys(s)' : ready /\ k \in LiveKeys(s) /\ flash[s].data[k] \in [Offsets -> Nat]
  BY <1>4, StoreTypes DEF LiveKeys
<1>6. /\ \A k \in UnreadKeys(s)' : ChunkSorted(flash[s].data[k])
      /\ \A k, l \in UnreadKeys(s)' : k < l => Before(flash[s].data[k], flash[s].data[l])
  BY <1>1, <1>5, LiveOrder
<1>7. Below(UnreadRecs(s)', RangeOf(ring[s].slot))
  <2> SUFFICES ASSUME NEW k \in UnreadKeys(s)', NEW x \in RangeOf(flash[s].data[k]),
                      NEW y \in RangeOf(ring[s].slot)
               PROVE  x < y
    BY <1>4 DEF Below
  <2>1. PICK i \in Offsets : x = flash[s].data[k][i]
    BY <1>5, ChunkRange
  <2>2. PICK p \in ring[s].tail .. (ring[s].put - 1) : y = ring[s].slot[p]
    BY <1>1, TailRange
  <2> QED BY <1>1, <1>5, <2>1, <2>2, LiveOrder
<1>8. Readable(s) \subseteq 1 .. offered[s]
  <2>1. ASSUME NEW y \in RangeOf(ring[s].slot) PROVE y \in 1 .. offered[s]
    <3>1. PICK p \in ring[s].tail .. (ring[s].put - 1) : y = ring[s].slot[p]
      BY <1>1, TailRange
    <3> QED BY <3>1, TailOrder
  <2>2. ASSUME ready, NEW k \in LiveKeys(s), NEW x \in RangeOf(flash[s].data[k])
        PROVE  x \in 1 .. offered[s]
    <3>1. flash[s].data[k] \in [Offsets -> Nat]
      BY StoreTypes DEF LiveKeys
    <3>2. PICK i \in Offsets : x = flash[s].data[k][i]
      BY <3>1, ChunkRange
    <3> QED BY <1>1, <2>2, <3>2, LiveOrder
  <2> QED BY <2>1, <2>2 DEF Readable
<1>9. LeftOrder(s)'
  <2>1. Below(StageRecs(s)', UnreadRecs(s)' \cup RangeOf(ring'[s].slot))
    BY <1>4 DEF Below
  <2>2. Below(UnreadRecs(s)', RangeOf(ring'[s].slot))
    BY <1>1, <1>7
  <2> QED BY <1>1, <1>6, <2>1, <2>2 DEF LeftOrder, ChunkSorted, Before, Below, RangeOf
<1>10. Below(Acked(s)', Left(s)') /\ Sent(s)' \cup Left(s)' \subseteq 1 .. offered'[s]
  BY <1>1, <1>3, <1>4, <1>8 DEF Below
<1> QED
  BY <1>9, <1>10 DEF ReadOrder, Below

\* Loading an entry keeps its records before the others.
LEMMA LoadOrder ==
  ASSUME BaseInv, SendZms, NEW s \in Stores, ReadOrder(s)
  PROVE  ReadOrder(s)'
<1>1. UNCHANGED <<phase, flash, ready, ring, offered, wire, seq>>
  BY DEF SendZms, storeVars, ghostVars
<1>2. /\ UnreadKeys(s)' \subseteq UnreadKeys(s)
      /\ Left(s)' \subseteq Left(s)
  BY LoadMoves
<1>3. LeftOrder(s)'
  <2>1. CASE UNCHANGED <<stage, rkey>>
    <3>1. endkey' = endkey
      BY DEF SendZms
    <3>2. UnreadKeys(s)' = UnreadKeys(s) /\ StageRecs(s)' = StageRecs(s)
      BY <1>1, <2>1, <3>1, LeftKept
    <3> QED BY <1>1, <3>2, OrderLoses DEF ReadOrder
  <2>2. CASE s # StoreOf(phase) /\ UnreadKeys(s)' = UnreadKeys(s)
    <3>1. StageRecs(s)' = {}
      BY <1>1, <2>2 DEF StageRecs, StoreOf
    <3> QED BY <1>1, <2>2, <3>1, OrderLoses DEF ReadOrder
  <2>3. ASSUME s = StoreOf(phase), NEW k0 \in UnreadKeys(s),
               UnreadKeys(s)' = {k \in UnreadKeys(s) : k0 < k},
               RangeOf(stage') = RangeOf(flash[s].data[k0])
        PROVE  LeftOrder(s)'
    <3>1. /\ \A k \in UnreadKeys(s)' : ChunkSorted(flash[s].data[k])
          /\ \A k, l \in UnreadKeys(s)' : k < l => Before(flash[s].data[k], flash[s].data[l])
      BY <1>2 DEF ReadOrder, LeftOrder
    <3>2. /\ StageRecs(s)' = RangeOf(flash[s].data[k0])
          /\ UnreadRecs(s)' = UNION {RangeOf(flash[s].data[k]) : k \in UnreadKeys(s)'}
      <4>1. StageRecs(s)' = RangeOf(stage')
        BY <1>1, <2>3 DEF StageRecs, StoreOf, RangeOf
      <4> QED BY <1>1, <2>3, <4>1, UnreadRecsOf
    <3>3. StageRecs(s)' \subseteq UnreadRecs(s) /\ UnreadRecs(s)' \subseteq UnreadRecs(s)
      BY <1>2, <2>3, <3>2 DEF UnreadRecs
    <3>4. Below(StageRecs(s)', UnreadRecs(s)')
      <4> SUFFICES ASSUME NEW k \in UnreadKeys(s)', NEW x \in RangeOf(flash[s].data[k0]),
                          NEW y \in RangeOf(flash[s].data[k])
                   PROVE  x < y
        BY <3>2 DEF Below
      <4>1. /\ flash[s].data[k0] \in [Offsets -> Nat] /\ flash[s].data[k] \in [Offsets -> Nat]
            /\ k \in UnreadKeys(s) /\ k0 < k
        BY <2>3, StoreTypes DEF UnreadKeys, NextKeys
      <4>2. Before(flash[s].data[k0], flash[s].data[k])
        BY <2>3, <4>1 DEF ReadOrder, LeftOrder
      <4>3. PICK i \in Offsets : x = flash[s].data[k0][i]
        BY <4>1, ChunkRange
      <4>4. PICK j \in Offsets : y = flash[s].data[k][j]
        BY <4>1, ChunkRange
      <4> QED BY <4>2, <4>3, <4>4 DEF Before
    <3>5. Below(UnreadRecs(s), RangeOf(ring[s].slot))
      BY DEF ReadOrder, LeftOrder
    <3>6. /\ Below(StageRecs(s)', UnreadRecs(s)' \cup RangeOf(ring'[s].slot))
          /\ Below(UnreadRecs(s)', RangeOf(ring'[s].slot))
      BY <1>1, <3>3, <3>4, <3>5 DEF Below
    <3> QED BY <1>1, <3>1, <3>6 DEF LeftOrder, ChunkSorted, Before, Below, RangeOf
  <2> QED BY <2>1, <2>2, <2>3, LoadMoves
<1> QED
  BY <1>1, <1>2, <1>3, AckedKept, OrderOf

\* An accepted packet leaves only newer records to be sent.
LEMMA PostOrder ==
  ASSUME BaseInv, SeqInv, StageInv, HandInv, Post, NEW s \in Stores, ReadOrder(s),
         Facts!OrderInv(s), Increasing(stage)
  PROVE  ReadOrder(s)'
<1>1. /\ UNCHANGED <<flash, offered, wire>> /\ hpc = "post" /\ IsRing(ring[s]) /\ RingInv(s)
      /\ seq \in Nat /\ pkt.recs \in Seq(Nat) /\ stage \in Seq(Nat) /\ commit[s] = Idle
      /\ seq' = IF Accepted THEN seq + 1 ELSE seq
      /\ offered[s] \in Nat
  <2>1. hpc = "post"
    BY DEF Post
  <2>2. commit[s] = Idle
    BY <2>1, ReadingIdle DEF Reading, SysIdle
  <2>3. seq' = IF Accepted THEN seq + 1 ELSE seq
    BY <2>1 DEF Post, NextSeq, Accepted
  <2> QED BY <2>1, <2>2, <2>3, StoreTypes DEF Post, BaseInv, RingInv, StreamTypeOK, ghostVars
<1>2. /\ UnreadKeys(s)' = UnreadKeys(s)
      /\ StageRecs(s)' \subseteq StageRecs(s)
      /\ RangeOf(ring'[s].slot) \subseteq RangeOf(ring[s].slot)
      /\ Left(s)' = UnreadRecs(s) \cup StageRecs(s)' \cup RangeOf(ring'[s].slot)
  BY PostLeft
<1>3. LeftOrder(s)' /\ Left(s)' \subseteq Left(s)
  BY <1>1, <1>2, OrderLoses DEF ReadOrder
<1>4. Sent(s)' = Sent(s)
  BY <1>1, SentKept
<1>5. CASE ~(Accepted /\ pkt.store = s)
  <2>1. Acked(s)' \subseteq Acked(s)
    <3>1. CASE ~Accepted
      BY <1>1, <3>1, AckedKept
    <3>2. CASE Accepted /\ pkt.store # s
      <4>1. wire[seq + 1].store # s
        BY <3>2, AcceptedSent
      <4>2. \A j \in DOMAIN wire : j <= seq + 1 /\ wire[j].store = s => j <= seq
        BY <1>1, <4>1, LenProperties DEF BaseInv, GhostInv
      <4>3. Acked(s)' = UNION {RangeOf(wire[i].recs) :
                                 i \in {j \in DOMAIN wire : j <= seq + 1 /\ wire[j].store = s}}
        BY <1>1, <3>2 DEF Acked, RangeOf
      <4> QED BY <4>2, <4>3 DEF Acked
    <3> QED BY <1>5, <3>1, <3>2
  <2> QED BY <1>1, <1>3, <1>4, <2>1, OrderOf
<1>6. CASE Accepted /\ pkt.store = s
  <2>1. Acked(s)' \subseteq Acked(s) \cup RangeOf(pkt.recs)
    <3>1. wire[seq + 1] = pkt
      BY <1>6, AcceptedSent
    <3>2. \A j \in DOMAIN wire : j <= seq + 1 => j <= seq \/ j = seq + 1
      BY <1>1, LenProperties DEF BaseInv, GhostInv
    <3>3. Acked(s)' = UNION {RangeOf(wire[i].recs) :
                               i \in {j \in DOMAIN wire : j <= seq + 1 /\ wire[j].store = s}}
      BY <1>1, <1>6 DEF Acked, RangeOf
    <3> QED BY <3>1, <3>2, <3>3 DEF Acked
  <2>2. Below(RangeOf(pkt.recs), Left(s)')
    <3>0. /\ pkt.store = StoreOf(phase) /\ pkt.kind \in {"zms", "ram", "last"}
          /\ pkt.kind = "zms" => pkt.recs = Prefix(stage)
          /\ pkt.kind # "zms" => phase \in {"ram stamp", "ram ambient"}
          /\ pkt.kind = "last" => pkt.recs = <<>>
          /\ pkt.res = "ok" /\ s = StoreOf(phase)
      BY <1>1, <1>6 DEF BaseInv, PacketInv, StreamTypeOK, Accepted
    <3>1. CASE pkt.kind = "last"
      <4>1. RangeOf(pkt.recs) = {}
        BY <3>0, <3>1, NothingIn
      <4> QED BY <4>1 DEF Below
    <3>2. CASE pkt.kind = "zms"
      <4> DEFINE n == Len(pkt.recs)
      <4>1. /\ n \in Nat /\ n <= Len(stage) /\ Len(stage) \in Nat
            /\ DOMAIN pkt.recs = 1 .. n /\ DOMAIN stage = 1 .. Len(stage)
            /\ \A i \in 1 .. n : pkt.recs[i] = stage[i]
        BY <1>1, <3>0, <3>2, PrefixOf, LenProperties
      <4>2. stage' = SubSeq(stage, n + 1, Len(stage)) /\ phase' = phase
        BY <3>0, <3>2 DEF Post, NextStage
      <4>3. /\ stage' \in Seq(Nat) /\ Len(stage') = Len(stage) - n
            /\ \A i \in 1 .. Len(stage) - n : stage'[i] = stage[n + i]
        BY <1>1, <4>1, <4>2, RestOf
      <4>4. DOMAIN stage' = 1 .. Len(stage) - n
        BY <4>3, LenProperties
      <4> HIDE DEF n
      <4>5. StageRecs(s) = RangeOf(stage) /\ StageRecs(s)' = RangeOf(stage')
        BY <3>0, <4>2 DEF StageRecs, StoreOf, RangeOf
      <4>6. RangeOf(pkt.recs) \subseteq RangeOf(stage)
        BY <4>1 DEF RangeOf
      <4>7. Below(RangeOf(pkt.recs), RangeOf(stage'))
        <5> SUFFICES ASSUME NEW i \in 1 .. n, NEW j \in 1 .. Len(stage) - n
                     PROVE  pkt.recs[i] < stage'[j]
          BY <4>1, <4>4 DEF Below, RangeOf
        <5>1. i \in DOMAIN stage /\ n + j \in DOMAIN stage /\ i < n + j
          BY <4>1
        <5> QED BY <4>1, <4>3, <5>1 DEF Increasing
      <4>8. Below(RangeOf(stage), UnreadRecs(s) \cup RangeOf(ring[s].slot))
        BY <4>5 DEF ReadOrder, LeftOrder
      <4> QED BY <1>2, <4>5, <4>6, <4>7, <4>8 DEF Below
    <3>3. CASE pkt.kind = "ram"
      <4>1. /\ phase \in {"ram stamp", "ram ambient"} /\ phase' = phase
            /\ UnreadKeys(s) = {} /\ stage' = stage /\ stage = <<>>
        BY <1>1, <3>0, <3>3 DEF UnreadKeys, UnreadIn, StoreOf, StageInv, Post
      <4>2. UnreadRecs(s) = {} /\ StageRecs(s)' = {}
        <5>1. RangeOf(stage') = {}
          BY <4>1, NothingIn
        <5>2. StageRecs(s)' = {}
          BY <5>1 DEF StageRecs, RangeOf
        <5> QED BY <4>1, <5>2 DEF UnreadRecs
      <4>3. Left(s)' = RangeOf(ring'[s].slot)
        BY <1>2, <4>2
      <4>4. ring'[s] = RbFinish(ring[s], Consumed) /\ Consumed = Len(pkt.recs) /\ Consumed \in Nat
        BY <1>1, <1>6, <3>0, <3>3, LenProperties DEF Post, Consumed, BaseInv
      <4>5. CASE ring[s].head # ring[s].tail
        <5>1. HoldsClaim(s)
          BY <1>1, <4>5 DEF RingInv
        <5>2. Consumed <= ring[s].head - ring[s].tail /\ ring[s].tail \in Nat
          BY <1>1, <4>4, <5>1, RingCursors DEF HoldsClaim
        <5>3. /\ IsRing(ring'[s]) /\ ring'[s].tail = ring[s].tail + Consumed
              /\ ring'[s].put = ring[s].put
              /\ \A p \in (ring[s].tail + Consumed) .. (ring[s].put - 1) :
                   ring'[s].slot[p] = ring[s].slot[p]
          BY <1>1, <4>4, <5>2, RbFinishMoves
        <5> SUFFICES ASSUME NEW x \in RangeOf(pkt.recs), NEW y \in RangeOf(ring'[s].slot)
                     PROVE  x < y
          BY <4>3 DEF Below
        <5>4. PICK p \in ring'[s].tail .. (ring'[s].put - 1) : y = ring'[s].slot[p]
          BY <5>3, TailRange
        <5>5. PICK i \in 1 .. Consumed : x = pkt.recs[i]
          BY <1>1, <4>4, LenProperties DEF RangeOf
        <5>6. x = ring[s].slot[ring[s].tail + i - 1]
          BY <1>1, <4>4, <5>1, <5>5, LenProperties DEF HoldsClaim
        <5>7. /\ p \in (ring[s].tail + Consumed) .. (ring[s].put - 1) /\ y = ring[s].slot[p]
          BY <5>3, <5>4
        <5>8. ring[s].put \in Nat
          BY <1>1, RingCursors
        <5>9. /\ ring[s].tail + i - 1 \in ring[s].tail .. (ring[s].put - 1)
              /\ p \in ring[s].tail .. (ring[s].put - 1)
              /\ ring[s].tail + i - 1 < p
          <6> DEFINE n == Consumed
                     a == ring[s].tail
                     b == ring[s].put
          <6>1. n \in Nat /\ a \in Nat /\ b \in Nat /\ i \in 1 .. n /\ p \in (a + n) .. (b - 1)
            BY <4>4, <5>2, <5>5, <5>7, <5>8
          <6> HIDE DEF n, a, b
          <6>2. a + i - 1 \in a .. (b - 1) /\ p \in a .. (b - 1) /\ a + i - 1 < p
            BY <6>1
          <6> QED BY <6>2 DEF a, b
        <5> QED BY <1>1, <5>6, <5>7, <5>9, TailOrder
      <4>6. CASE ring[s].head = ring[s].tail
        <5>1. ring[s].put = ring[s].tail
          BY <1>1, <1>6, <3>3, <4>6 DEF HandInv
        <5>2. ring[s].tail \in Nat
          BY <1>1, RingCursors
        <5>3. ring[s].tail .. (ring[s].put - 1) = {}
          BY <5>1, <5>2
        <5>4. RangeOf(ring[s].slot) = {}
          BY <1>1, <5>3, TailRange
        <5> QED BY <1>2, <4>3, <5>4 DEF Below
      <4> QED BY <4>5, <4>6
    <3> QED BY <3>0, <3>1, <3>2, <3>3
  <2>3. Below(Acked(s)', Left(s)')
    BY <1>3, <2>1, <2>2 DEF ReadOrder, Below
  <2>4. Sent(s)' \cup Left(s)' \subseteq 1 .. offered'[s]
    BY <1>1, <1>3, <1>4 DEF ReadOrder
  <2> QED BY <1>3, <2>3, <2>4 DEF ReadOrder, Below
<1> QED
  BY <1>5, <1>6

\* A record that is logged comes after all the others.
LEMMA LogOrder ==
  ASSUME BaseInv, NEW t \in Stores, Log(t), NEW s \in Stores, ReadOrder(s)
  PROVE  ReadOrder(s)'
<1>1. /\ UNCHANGED <<phase, stage, rkey, endkey, flash, ready, wire, seq>>
      /\ DOMAIN ring = Stores /\ IsRing(ring[s]) /\ offered[s] \in Nat
  BY StoreTypes DEF Log, PutRefused, PutAccepted, streamVars, BaseInv
<1>2. /\ UnreadKeys(s)' = UnreadKeys(s) /\ UnreadRecs(s)' = UnreadRecs(s)
      /\ StageRecs(s)' = StageRecs(s)
      /\ Left(s)' = UnreadRecs(s) \cup StageRecs(s) \cup RangeOf(ring'[s].slot)
      /\ Acked(s)' = Acked(s) /\ Sent(s)' = Sent(s)
  BY <1>1, LeftKept, AckedKept
<1>3. offered'[s] \in Nat /\ offered[s] <= offered'[s]
  <2>1. offered \in [Stores -> Nat] /\ offered' = [offered EXCEPT ![t] = @ + 1]
    BY SameNames DEF Log, PutRefused, PutAccepted, Offer, BaseInv, Facts!TypeInv, Facts!TypeOK
  <2> QED BY <2>1
<1>4. RangeOf(ring'[s].slot) \subseteq RangeOf(ring[s].slot) \cup {x \in 1 .. offered'[s] : offered[s] < x}
  <2>1. CASE ring'[s] = ring[s]
    BY <2>1
  <2>2. CASE ring'[s] # ring[s]
    <3> DEFINE r == RbPut(ring[s], offered[s] + 1)
    <3>1. s = t /\ ring'[s] = r
      BY <1>1, <2>2 DEF Log, PutRefused, PutAccepted
    <3>2. offered'[s] = offered[s] + 1
      <4>1. offered \in [Stores -> Nat] /\ offered' = [offered EXCEPT ![t] = @ + 1]
        BY SameNames DEF Log, PutRefused, PutAccepted, Offer, BaseInv, Facts!TypeInv, Facts!TypeOK
      <4> QED BY <3>1, <4>1
    <3>3. /\ IsRing(r) /\ r.tail = ring[s].tail /\ r.put = ring[s].put + 1
          /\ r.slot[ring[s].put] = offered[s] + 1
          /\ \A p \in ring[s].tail .. (ring[s].put - 1) : r.slot[p] = ring[s].slot[p]
      <4>1. offered[s] + 1 \in Nat
        BY <1>1
      <4> QED BY <1>1, <4>1, RbPutIsRing
    <3> HIDE DEF r
    <3>4. ASSUME NEW x \in RangeOf(r.slot)
          PROVE  x \in RangeOf(ring[s].slot) \/ x = offered[s] + 1
      <4>1. PICK p \in r.tail .. (r.put - 1) : x = r.slot[p]
        BY <3>3, TailRange
      <4>2. CASE p = ring[s].put
        BY <3>3, <4>1, <4>2
      <4>3. CASE p # ring[s].put
        <5>1. p \in ring[s].tail .. (ring[s].put - 1)
          BY <1>1, <3>3, <4>3, RingCursors
        <5>2. x = ring[s].slot[p]
          BY <3>3, <4>1, <5>1
        <5> QED BY <1>1, <5>1, <5>2, TailRange
      <4> QED BY <4>2, <4>3
    <3> QED BY <1>1, <3>1, <3>2, <3>4
  <2> QED BY <2>1, <2>2
<1>5. /\ UnreadRecs(s) \cup StageRecs(s) \cup Acked(s) \subseteq 1 .. offered[s]
      /\ Sent(s) \cup Left(s) \subseteq 1 .. offered[s]
  BY AckedSent DEF ReadOrder, Left
<1>6. /\ Below(StageRecs(s), UnreadRecs(s) \cup RangeOf(ring'[s].slot))
      /\ Below(UnreadRecs(s), RangeOf(ring'[s].slot))
  <2>1. /\ Below(StageRecs(s), UnreadRecs(s) \cup RangeOf(ring[s].slot))
        /\ Below(UnreadRecs(s), RangeOf(ring[s].slot))
    BY DEF ReadOrder, LeftOrder
  <2>2. Below(1 .. offered[s], {x \in 1 .. offered'[s] : offered[s] < x})
    BY <1>1, <1>3 DEF Below
  <2> QED BY <1>4, <1>5, <2>1, <2>2 DEF Below
<1>7. LeftOrder(s)'
  BY <1>1, <1>2, <1>6 DEF ReadOrder, LeftOrder, ChunkSorted, Before, Below, RangeOf
<1>8. Below(Acked(s)', Left(s)')
  <2>1. Below(Acked(s), Left(s))
    BY DEF ReadOrder
  <2>2. Below(1 .. offered[s], {x \in 1 .. offered'[s] : offered[s] < x})
    BY <1>1, <1>3 DEF Below
  <2>3. Left(s)' \subseteq Left(s) \cup {x \in 1 .. offered'[s] : offered[s] < x}
    BY <1>2, <1>4 DEF Left
  <2> QED BY <1>2, <1>5, <2>1, <2>2, <2>3 DEF Below
<1>9. Sent(s)' \cup Left(s)' \subseteq 1 .. offered'[s]
  <2>1. 1 .. offered[s] \subseteq 1 .. offered'[s]
    BY <1>1, <1>3
  <2>2. Left(s)' \subseteq Left(s) \cup {x \in 1 .. offered'[s] : offered[s] < x}
    BY <1>2, <1>4 DEF Left
  <2> QED BY <1>2, <1>5, <2>1, <2>2
<1> QED
  BY <1>7, <1>8, <1>9 DEF ReadOrder, Below

\* The rest of a staged entry is in order.
LEMMA PostIncreasing ==
  ASSUME BaseInv, Post, Increasing(stage)
  PROVE  Increasing(stage')
<1>1. /\ hpc = "post" /\ stage \in Seq(Nat)
      /\ pkt.kind = "zms" => pkt.recs = Prefix(stage)
  BY DEF Post, BaseInv, StreamTypeOK, PacketInv
<1>2. CASE pkt.kind = "zms" /\ pkt.res = "ok"
  <2> DEFINE n == Len(pkt.recs)
  <2>1. n \in Nat /\ n <= Len(stage) /\ Len(stage) \in Nat /\ DOMAIN stage = 1 .. Len(stage)
    BY <1>1, <1>2, PrefixOf, LenProperties
  <2>2. stage' = SubSeq(stage, n + 1, Len(stage))
    BY <1>2 DEF Post, NextStage
  <2>3. /\ stage' \in Seq(Nat) /\ Len(stage') = Len(stage) - n
        /\ \A i \in 1 .. Len(stage) - n : stage'[i] = stage[n + i]
    BY <1>1, <2>1, <2>2, RestOf
  <2>4. DOMAIN stage' = 1 .. Len(stage) - n
    BY <2>3, LenProperties
  <2> HIDE DEF n
  <2>5. ASSUME NEW i \in DOMAIN stage', NEW j \in DOMAIN stage', i < j PROVE stage'[i] < stage'[j]
    <3>1. n + i \in DOMAIN stage /\ n + j \in DOMAIN stage /\ n + i < n + j
      BY <2>1, <2>4, <2>5
    <3> QED BY <2>3, <2>4, <3>1 DEF Increasing
  <2> QED BY <2>5 DEF Increasing
<1>3. CASE ~(pkt.kind = "zms" /\ pkt.res = "ok")
  <2>1. CASE stage' = stage
    BY <2>1
  <2>2. CASE stage' = <<>>
    <3>1. DOMAIN stage' = {}
      BY <2>2, EmptySeq
    <3> QED BY <3>1 DEF Increasing
  <2> QED BY <1>3, <2>1, <2>2 DEF Post
<1> QED
  BY <1>2, <1>3

\* A clear takes records away under the handler.
LEMMA ClearOrder ==
  ASSUME BaseInv, Clear, NEW s \in Stores, ReadOrder(s)
  PROVE  ReadOrder(s)'
<1>1. /\ UNCHANGED <<phase, stage, rkey, endkey, ready, wire, seq, offered>>
      /\ DOMAIN ring = Stores /\ DOMAIN flash = Stores
  <2>1. UNCHANGED <<phase, stage, rkey, endkey, wire, seq>>
    BY StoreStep
  <2>2. UNCHANGED <<ready, offered>>
    BY DEF Clear, ClearStep, ClearCancel, ClearFlash, ClearRam
  <2>3. DOMAIN flash = Stores
    BY SameNames DEF BaseInv, Facts!TypeInv, Facts!TypeOK
  <2> QED BY <2>1, <2>2, <2>3 DEF BaseInv
<1>2. RangeOf(ring'[s].slot) \subseteq RangeOf(ring[s].slot)
  <2>1. CASE ClearRam
    <3>1. ring'[s].slot = RbEmpty.slot
      BY <2>1 DEF ClearRam
    <3>2. DOMAIN RbEmpty.slot = {}
      BY EmptySeq DEF RbEmpty
    <3> QED BY <3>1, <3>2 DEF RangeOf
  <2>2. CASE ~ClearRam
    BY <2>2 DEF Clear, ClearStep, ClearCancel, ClearFlash
  <2> QED BY <2>1, <2>2
<1>3. flash'[s] = flash[s] \/ flash'[s] = [data |-> NoData, meta |-> FreshMeta]
  BY <1>1 DEF Clear, ClearStep, ClearCancel, ClearFlash, ClearRam
<1>4. \A k \in UnreadKeys(s)' : k \in UnreadKeys(s) /\ flash'[s].data[k] = flash[s].data[k]
  <2>1. UnreadKeys(s)' = IF ready /\ phase \in UnreadIn(s)
                         THEN {k \in DOMAIN flash'[s].data : rkey[s] <= k /\ k < endkey[s]} ELSE {}
    BY <1>1 DEF UnreadKeys, UnreadIn, NextKeys
  <2>2. CASE flash'[s] = flash[s]
    BY <2>1, <2>2 DEF UnreadKeys, NextKeys
  <2>3. CASE flash'[s] # flash[s]
    <3>1. flash'[s].data = NoData
      BY <1>3, <2>3
    <3>2. DOMAIN NoData = {}
      BY EmptySeq DEF NoData
    <3> QED BY <2>1, <3>1, <3>2
  <2> QED BY <2>2, <2>3
<1>5. StageRecs(s)' = StageRecs(s)
  BY <1>1 DEF StageRecs, StoreOf, RangeOf
<1>6. LeftOrder(s)' /\ Left(s)' \subseteq Left(s)
  BY <1>2, <1>4, <1>5, OrderLoses DEF ReadOrder
<1> QED
  BY <1>1, <1>6, AckedKept, OrderOf

\* What is left to read stays in order, whoever takes a step.
LEMMA ReadStep ==
  ASSUME BaseInv, ~Overlap, \A s \in Stores : Facts!OrderInv(s), SeqInv, StageInv, HandInv,
         PacketOrderInv, ReadInv, [StreamNext]_allVars
  PROVE  ReadInv'
<1>1. ASSUME Reading => Increasing(stage'),
             \A s \in Stores : Reading /\ ReadOrder(s) => ReadOrder(s)',
             Reading' => Reading
      PROVE  ReadInv'
  BY <1>1 DEF ReadInv, Increasing
<1>2. CASE \/ HandlerWait \/ HandlerRun \/ HandlerTimeout \/ NotifyFails \/ Resched \/ SentCb
           \/ StartBegin \/ StartCancel \/ StopCommand \/ Connect \/ Disconnect
           \/ UNCHANGED allVars
  <2>1. /\ UNCHANGED <<phase, stage, rkey, endkey, flash, ready, wire, seq, ring, offered>>
        /\ Reading' => Reading
    BY <1>2, QuietStep DEF downloadVars
  <2>2. ASSUME NEW s \in Stores, ReadOrder(s) PROVE ReadOrder(s)'
    BY <2>1, <2>2, OrderKept
  <2> QED BY <1>1, <2>1, <2>2 DEF ReadInv
<1>3. CASE SendZms
  <2>1. hpc = "send" /\ Reading
    BY <1>3 DEF SendZms, Reading
  <2>2. PICK s \in Stores : s = StoreOf(phase)
    BY PhaseNames
  <2>3. Increasing(stage')
    BY <1>3, <2>1, <2>2, LoadIncreasing DEF ReadInv
  <2> QED BY <1>1, <1>3, <2>1, <2>3, LoadOrder
<1>4. CASE AdvancePhase
  <2>1. hpc = "send" /\ Reading /\ UNCHANGED <<stage, flash, ring, wire, seq, offered>>
    BY <1>4 DEF AdvancePhase, Reading, storeVars, ghostVars
  <2>2. ASSUME NEW s \in Stores, ReadOrder(s) PROVE ReadOrder(s)'
    <3>1. UnreadKeys(s)' \subseteq UnreadKeys(s) /\ StageRecs(s)' = StageRecs(s)
      BY <1>4, AdvanceLeft
    <3>2. LeftOrder(s)' /\ Left(s)' \subseteq Left(s)
      BY <2>1, <2>2, <3>1, OrderLoses DEF ReadOrder
    <3> QED BY <2>1, <2>2, <3>2, AckedKept, OrderOf
  <2> QED BY <1>1, <2>1, <2>2 DEF ReadInv
<1>5. CASE SendRam
  <2>1. hpc = "send" /\ Reading
    BY <1>5 DEF SendRam, Reading
  <2>2. ASSUME NEW s \in Stores, ReadOrder(s) PROVE ReadOrder(s)'
    <3>1. /\ UNCHANGED <<phase, stage, rkey, endkey, flash, ready, wire, seq, offered>>
          /\ ring'[s].slot = ring[s].slot
      BY <1>5, SendRamLeft
    <3> QED BY <2>2, <3>1, OrderKept
  <2>3. stage' = stage
    BY <1>5 DEF SendRam, sessionVars
  <2> QED BY <1>1, <2>1, <2>2, <2>3 DEF ReadInv
<1>6. CASE NotifyOk
  <2>1. /\ hpc = "notify" /\ wire' = Append(wire, pkt) /\ wire \in Seq(Packet) /\ pkt \in Packet
        /\ Len(wire) = seq /\ seq \in Nat
        /\ UNCHANGED <<phase, stage, rkey, endkey, flash, ready, seq, ring, offered>>
    BY <1>6 DEF NotifyOk, BaseInv, GhostInv, StreamTypeOK, Packet, SeqInv, Accepted, storeVars,
       sessionVars
  <2>2. Reading
    BY <2>1 DEF Reading
  <2>3. /\ DOMAIN wire = 1 .. seq /\ DOMAIN wire' = 1 .. (seq + 1)
        /\ \A i \in 1 .. seq : wire'[i] = wire[i]
    BY <2>1, AppendProperties, LenProperties
  <2>4. ASSUME NEW s \in Stores, ReadOrder(s) PROVE ReadOrder(s)'
    <3>1. Acked(s)' = Acked(s)
      <4>1. Acked(s)' = UNION {RangeOf(wire'[i].recs) :
                                 i \in {j \in DOMAIN wire' : j <= seq /\ wire'[j].store = s}}
        BY <2>1 DEF Acked, RangeOf
      <4>2. /\ {j \in DOMAIN wire' : j <= seq /\ wire'[j].store = s}
                 = {j \in DOMAIN wire : j <= seq /\ wire[j].store = s}
            /\ \A i \in {j \in DOMAIN wire : j <= seq /\ wire[j].store = s} : wire'[i] = wire[i]
        BY <2>1, <2>3
      <4> QED BY <4>1, <4>2 DEF Acked
    <3>2. UnreadKeys(s)' = UnreadKeys(s) /\ StageRecs(s)' = StageRecs(s) /\ ring'[s] = ring[s]
      BY <2>1, LeftKept
    <3>3. LeftOrder(s)' /\ Left(s)' \subseteq Left(s)
      BY <2>1, <2>4, <3>2, OrderLoses DEF ReadOrder
    <3>4. Sent(s)' \subseteq 1 .. offered[s]
      <4>1. pkt.store = s => RangeOf(pkt.recs) \subseteq 1 .. offered[s]
        BY <2>1 DEF PacketOrderInv, PacketOrder
      <4>2. Sent(s) \subseteq 1 .. offered[s]
        BY <2>4 DEF ReadOrder
      <4>3. \A x \in Sent(s)' : x \in Sent(s) \/ (pkt.store = s /\ x \in RangeOf(pkt.recs))
        BY <2>1, SentAppend
      <4> QED BY <4>1, <4>2, <4>3
    <3>5. Below(Acked(s)', Left(s)')
      BY <2>4, <3>1, <3>3 DEF ReadOrder, Below
    <3>6. Left(s)' \subseteq 1 .. offered[s] /\ offered' = offered
      BY <2>1, <2>4, <3>3 DEF ReadOrder
    <3> QED BY <3>3, <3>4, <3>5, <3>6 DEF ReadOrder, Below
  <2> QED BY <1>1, <2>1, <2>2, <2>4 DEF ReadInv
<1>7. CASE Post
  <2>1. hpc = "post" /\ Reading
    BY <1>7 DEF Post, Reading
  <2>2. Increasing(stage)
    BY <2>1 DEF ReadInv
  <2> QED BY <1>1, <1>7, <2>1, <2>2, PostIncreasing, PostOrder
<1>8. CASE StartActivate
  <2>1. stage' = <<>>
    BY <1>8 DEF StartActivate
  <2>2. DOMAIN stage' = {}
    BY <2>1, EmptySeq
  <2>3. Increasing(stage')
    BY <2>2 DEF Increasing
  <2>4. \A s \in Stores : ReadOrder(s)'
    BY <1>8, StartOrder
  <2> QED BY <2>3, <2>4 DEF ReadInv, Increasing
<1>9. ASSUME NEW t \in Stores, Log(t) PROVE ReadInv'
  <2>1. UNCHANGED <<stage, hpc, active>>
    BY <1>9 DEF Log, PutRefused, PutAccepted, streamVars
  <2>2. Reading' = Reading
    BY <2>1 DEF Reading
  <2> QED BY <1>1, <1>9, <2>1, <2>2, LogOrder DEF ReadInv
<1>10. ASSUME NEW t \in Stores, Commit(t) PROVE ReadInv'
  <2>1. UNCHANGED <<phase, stage, rkey, endkey, wire, seq, hpc, active, offered>>
    BY <1>10 DEF Commit, CommitStep, CommitSkip, CommitShort, CommitClaim, CommitStore, Evict,
       CommitFail, CommitSave, CommitFinish, streamVars
  <2>2. Reading' = Reading
    BY <2>1 DEF Reading
  <2>3. ASSUME Reading, NEW s \in Stores, ReadOrder(s) PROVE ReadOrder(s)'
    <3>1. UNCHANGED <<ring, flash, ready>>
      BY <1>10, <2>3, CommitKeeps
    <3> QED BY <2>1, <2>3, <3>1, OrderKept
  <2> QED BY <1>1, <2>1, <2>2, <2>3 DEF ReadInv
<1>11. CASE Clear
  <2>1. UNCHANGED <<stage, hpc, active>>
    BY <1>11 DEF Clear, ClearStep, ClearCancel, ClearFlash, ClearRam, streamVars
  <2>2. Reading' = Reading
    BY <2>1 DEF Reading
  <2> QED BY <1>1, <1>11, <2>1, <2>2, ClearOrder DEF ReadInv
<1>12. CASE ClearCommand
  <2>1. /\ UNCHANGED <<phase, stage, rkey, endkey, flash, ready, wire, seq, ring, offered, hpc>>
        /\ active' = FALSE
    BY <1>12 DEF ClearCommand, StopEffects, handlerVars, sessionVars
  <2>2. Reading' => Reading
    BY <2>1 DEF Reading
  <2>3. ASSUME NEW s \in Stores, ReadOrder(s) PROVE ReadOrder(s)'
    BY <2>1, <2>3, OrderKept
  <2> QED BY <1>1, <2>1, <2>2, <2>3 DEF ReadInv
<1> QED
  BY <1>2, <1>3, <1>4, <1>5, <1>6, <1>7, <1>8, <1>9, <1>10, <1>11, <1>12
     DEF StreamNext, Handler, Send

\* The protocol knows no restart.
LEMMA NoReboot ==
  ASSUME [StreamNext]_allVars
  PROVE  reboots' = reboots
<1>1. ASSUME NEW s \in Stores, Log(s) \/ Commit(s)
      PROVE  reboots' = reboots
  BY <1>1, Zenon DEF Log, Commit, CommitStep, PutRefused, PutAccepted, CommitSkip, CommitShort,
     CommitClaim, CommitStore, Evict, CommitFail, CommitSave, CommitFinish
<1>2. ASSUME Clear PROVE reboots' = reboots
  BY <1>2, Zenon DEF Clear, ClearStep, ClearCancel, ClearFlash, ClearRam
<1>3. ASSUME Handler \/ SentCb PROVE reboots' = reboots
  BY <1>3, Zenon DEF Handler, Send, HandlerWait, HandlerRun, HandlerTimeout, Proceed, SendZms,
     AdvancePhase, SendRam, NotifyOk, NotifyFails, Post, Resched, SentCb, storeVars
<1>4. ASSUME \/ StartBegin \/ StartCancel \/ StartActivate \/ StopCommand \/ ClearCommand
             \/ Connect \/ Disconnect \/ UNCHANGED allVars
      PROVE  reboots' = reboots
  BY <1>4, Zenon DEF StartBegin, StartCancel, StartActivate, StopCommand, ClearCommand, Connect,
     Disconnect, storeVars, allVars
<1> QED
  BY <1>1, <1>2, <1>3, <1>4, Zenon DEF StreamNext

\* The packets of a download carry each store's records in the order they were
\* logged and none twice, whatever the handler, its callbacks, the commands and
\* the sensors interleave: a packet that is refused gives its records back before
\* anything younger is cut.
THEOREM DownloadSendsInOrder ==
  ASSUME ~Overlap, Streams, "clear" \notin Faults
  PROVE  StreamSpec => []SentInOrder
<1> DEFINE AllOrder == \A s \in Stores : Facts!OrderInv(s)
           J == /\ BaseInv /\ SeqInv /\ StageInv /\ HandInv /\ PacketOrderInv /\ ReadInv
                /\ SentInOrder
<1>1. Init /\ StreamInit => AllOrder /\ J
  <2> SUFFICES ASSUME Init, StreamInit PROVE AllOrder /\ J
    OBVIOUS
  <2>1. /\ stage = <<>> /\ hpc = "idle" /\ ~active /\ wire = <<>> /\ clearing = "no"
    BY DEF Init, StreamInit
  <2>2. DOMAIN wire = {}
    BY <2>1, EmptySeq
  <2>3. AllOrder
    BY StreamStoreInit, ConstantsFacts, SameNames, Facts!OrderInit
  <2>4. StageInv /\ HandInv /\ PacketOrderInv /\ ReadInv /\ SentInOrder
    BY <2>1, <2>2 DEF StageInv, HandInv, PacketOrderInv, ReadInv, Reading, SentInOrder
  <2> QED BY <2>3, <2>4, BaseInit, SeqInit
<1>2. AllOrder /\ J /\ [StreamNext]_allVars => AllOrder' /\ J'
  <2> SUFFICES ASSUME AllOrder, J, [StreamNext]_allVars PROVE AllOrder' /\ J'
    OBVIOUS
  <2>1. BaseInv' /\ [Facts!Next]_(Facts!vars)
    BY BaseStep, MapsToStore
  <2>2. ASSUME NEW t \in Stores PROVE Facts!OrderInv(t)'
    <3>1. Facts!TypeInv /\ Facts!TypeInv'
      BY <2>1 DEF BaseInv
    <3>2. reboots' = reboots
      BY NoReboot
    <3> QED BY <2>1, <3>1, <3>2, ConstantsFacts, SameNames, Facts!OrderStep
  <2>3. SeqInv' /\ StageInv' /\ HandInv'
    BY SeqStep, StageStep, HandStep
  <2>4. PacketOrderInv'
    BY PacketOrderStep
  <2>5. ReadInv'
    BY ReadStep
  <2>6. SentInOrder'
    BY WireStep
  <2> QED BY <2>1, <2>2, <2>3, <2>4, <2>5, <2>6
<1> QED
  BY <1>1, <1>2, PTL DEF StreamSpec
=============================================================================
