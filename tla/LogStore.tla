------------------------------ MODULE LogStore ------------------------------
(***************************************************************************)
(* The two log stores of services/log_service.c: a RAM tail (ring_buf) per *)
(* record kind, the commit work that moves full chunks from the tail to    *)
(* flash (ZMS), the metadata record that says which keys are live, boot,   *)
(* and log_service_clear.                                                  *)
(*                                                                         *)
(* Records are numbered in the order the sensor code offers them, so that  *)
(* order and loss can be stated; the code stores their values.  A download *)
(* appears here only by what it does to the stores (StreamStart,           *)
(* StreamDrain, StreamStop); its own protocol is a module of its own.      *)
(*                                                                         *)
(* Threads.  Both commit works and the detection counter run on the system *)
(* work queue, one at a time (SysIdle); ambient sampling runs on another   *)
(* queue and may fall between any two steps of a commit.                   *)
(***************************************************************************)
EXTENDS RingBuf, FiniteSets

CONSTANTS
  Chunk,      \* records per flash entry (ZMS_*_CHUNK_SIZE)
  RingSize,   \* for each store, records the RAM tail holds
  Slots,      \* chunks one flash partition holds
  MaxEvict,   \* CONFIG_APP_ZMS_MAX_EVICTION_ATTEMPTS
  Overwrite,  \* CONFIG_APP_LOG_OVERWRITE_OLDEST
  Faults,     \* the flash operations that may fail
  Streams,    \* TRUE: downloads take records out of the RAM tail
  MaxRec,     \* bound: for each store, records offered
  MaxReboot   \* bound: reboots

Stores == {"stamp", "ambient"}

ASSUME ConstantsAssumption ==
  /\ Chunk \in Nat \ {0}
  /\ RingSize \in [Stores -> Nat \ {0}]
  /\ \A s \in Stores : RingSize[s] % Chunk = 0
  /\ Slots \in Nat \ {0}
  /\ MaxEvict \in Nat \ {0}
  /\ Overwrite \in BOOLEAN
  /\ Faults \subseteq {"write", "read", "delete", "meta", "clear", "mount"}
  /\ Streams \in BOOLEAN
  /\ MaxRec \in [Stores -> Nat]
  /\ MaxReboot \in Nat

VARIABLES
  ring,      \* rb_stamp, rb_ambient
  pending,   \* the stores whose commit work is queued
  commit,    \* for each store, where its commit work handler is
  meta,      \* stamp_meta, ambient_meta (and their atomic count mirrors)
  flash,     \* for each store, the data entries and the saved metadata
  ready,     \* zms_ready
  active,    \* bulk_stream_active
  clearing,  \* where log_service_clear is
  offered,   \* ghost: records offered so far
  reboots    \* ghost: reboots so far

vars == <<ring, pending, commit, meta, flash, ready, active, clearing, offered, reboots>>

Meta == [write : Nat, oldest : Nat, count : Nat]
FreshMeta == [write |-> 1, oldest |-> 1, count |-> 0]
NoData == [k \in {} |-> 0]
Offsets == 0 .. (Chunk - 1)
\* The handler's local state.  write: in the eviction loop; save: data written,
\* metadata not yet; done, fail: result known, claim not yet finished.
Idle == [pc |-> "idle", attempt |-> 0]
At(pc) == [pc |-> pc, attempt |-> 0]

SysIdle == \A s \in Stores : commit[s] = Idle

-----------------------------------------------------------------------------
(***************************************************************************)
(* Faulty variants.  Nothing below uses them: each is substituted for the  *)
(* definition it is named after to see which property notices the mistake. *)
(***************************************************************************)
EvictedUncounted(m) == [write |-> m.write, oldest |-> m.oldest + 1, count |-> m.count]
ChunkReadyOnce(r) == RbSize(r) = Chunk
VictimNewest(s) == meta[s].write - 1
CanEvictEmpty(s) == Overwrite
LastAttemptEarly(s) == commit[s].attempt + 2 = MaxEvict
SavedMetaEarly(s) == [meta[s] EXCEPT !.write = @ - 1, !.count = @ - 1]
FinishLenShort(s) == IF commit[s].pc = "done" THEN Chunk - 1 ELSE 0
FinishLenNone(s) == 0

-----------------------------------------------------------------------------
Init ==
  /\ ring = [s \in Stores |-> RbEmpty]
  /\ pending = {}
  /\ commit = [s \in Stores |-> Idle]
  /\ meta = [s \in Stores |-> FreshMeta]
  /\ flash = [s \in Stores |-> [data |-> NoData, meta |-> FreshMeta]]
  /\ ready = TRUE
  /\ active = FALSE
  /\ clearing = "no"
  /\ offered = [s \in Stores |-> 0]
  /\ reboots = 0

(***************************************************************************)
(* Ingestion: rb_stamp_put and rb_ambient_put.  log_service_clear demands  *)
(* that ingestion is paused while it runs; the guard on clearing takes     *)
(* that over, although the command handler that calls it checks nothing.   *)
(***************************************************************************)
Offer(s) ==
  /\ clearing = "no"
  /\ s = "stamp" => SysIdle
  /\ offered[s] < MaxRec[s]
  /\ offered' = [offered EXCEPT ![s] = @ + 1]

\* The tail is full: -ENOSPC before the commit work is submitted.
PutRefused(s) ==
  /\ Offer(s)
  /\ RbSpace(ring[s], RingSize[s]) = 0
  /\ UNCHANGED <<ring, pending, commit, meta, flash, ready, active, clearing, reboots>>

\* chunk_ready: the commit work is submitted by every put from a full chunk on.
\* Records that a download has claimed meanwhile do not count.
ChunkReady(r) == RbSize(r) >= Chunk

PutAccepted(s) ==
  LET r == RbPut(ring[s], offered[s] + 1) IN
  /\ Offer(s)
  /\ RbSpace(ring[s], RingSize[s]) > 0
  /\ ring' = [ring EXCEPT ![s] = r]
  /\ \/ ready /\ ChunkReady(r) /\ pending' = pending \cup {s}
     \/ (active \/ ~(ready /\ ChunkReady(r))) /\ UNCHANGED pending
  /\ UNCHANGED <<commit, meta, flash, ready, active, clearing, reboots>>

(***************************************************************************)
(* The commit work handler and commit_chunk_locked.  Each flash operation  *)
(* is a step of its own.                                                   *)
(***************************************************************************)
\* Metadata after a chunk was written, and after the oldest was evicted.  Keys
\* never reach ZMS_META_KEY here, where the code wraps them after 2^32 commits.
Appended(m) == [write |-> m.write + 1, oldest |-> m.oldest, count |-> m.count + 1]
Evicted(m) == [write |-> m.write, oldest |-> m.oldest + 1, count |-> m.count - 1]

CommitSkip(s) ==
  /\ s \in pending /\ SysIdle
  /\ active
  /\ pending' = pending \ {s}
  /\ UNCHANGED <<ring, commit, meta, flash, ready, active, clearing, offered, reboots>>

Claimed(s) == RbClaimLen(ring[s], Chunk, RingSize[s])

\* Less than a chunk is contiguous: finish(0) and return.
CommitShort(s) ==
  /\ s \in pending /\ SysIdle
  /\ ~active
  /\ Claimed(s) < Chunk
  /\ pending' = pending \ {s}
  /\ ring' = [ring EXCEPT ![s] = RbFinish(RbClaim(@, Claimed(s)), 0)]
  /\ UNCHANGED <<commit, meta, flash, ready, active, clearing, offered, reboots>>

CommitClaim(s) ==
  /\ s \in pending /\ SysIdle
  /\ ~active
  /\ Claimed(s) = Chunk
  /\ pending' = pending \ {s}
  /\ ring' = [ring EXCEPT ![s] = RbClaim(@, Chunk)]
  /\ commit' = [commit EXCEPT ![s] = At("write")]
  /\ UNCHANGED <<meta, flash, ready, active, clearing, offered, reboots>>

\* The bytes the claim's pointer refers to.
ChunkOf(s) == [i \in Offsets |-> ring[s].slot[ring[s].tail + i]]

\* zms_write answers -ENOSPC when no entry is free; replacing an entry of the
\* same key may still succeed then.
NoSpace(s) == Cardinality(DOMAIN flash[s].data) >= Slots
Fits(s) == Cardinality(DOMAIN flash[s].data \cup {meta[s].write}) <= Slots

\* zms_write of the chunk succeeds.
CommitStore(s) ==
  /\ commit[s].pc = "write"
  /\ Fits(s)
  /\ flash' = [flash EXCEPT ![s].data =
       [k \in DOMAIN flash[s].data \cup {meta[s].write} |->
          IF k = meta[s].write THEN ChunkOf(s) ELSE flash[s].data[k]]]
  /\ meta' = [meta EXCEPT ![s] = Appended(@)]
  /\ commit' = [commit EXCEPT ![s] = At("save")]
  /\ UNCHANGED <<ring, pending, ready, active, clearing, offered, reboots>>

\* The key eviction deletes, when it may, and when it is still worth a write.
Victim(s) == meta[s].oldest
CanEvict(s) == Overwrite /\ meta[s].count > 0
LastAttempt(s) == commit[s].attempt + 1 = MaxEvict

\* -ENOSPC with entries left: the oldest is deleted.  A failing delete is
\* logged and the accounting advances all the same.
Evict(s) ==
  /\ commit[s].pc = "write"
  /\ NoSpace(s)
  /\ CanEvict(s)
  /\ \/ flash' = [flash EXCEPT ![s].data =
            [k \in DOMAIN flash[s].data \ {Victim(s)} |-> flash[s].data[k]]]
     \/ /\ "delete" \in Faults
        /\ Victim(s) \in DOMAIN flash[s].data
        /\ UNCHANGED flash
  /\ meta' = [meta EXCEPT ![s] = Evicted(@)]
  /\ commit' = [commit EXCEPT ![s] =
       IF LastAttempt(s)
       THEN At("fail")
       ELSE [pc |-> "write", attempt |-> @.attempt + 1]]
  /\ UNCHANGED <<ring, pending, ready, active, clearing, offered, reboots>>

\* The chunk is dropped from this attempt: nothing to evict, eviction not
\* wanted, or an I/O error.
CommitFail(s) ==
  /\ commit[s].pc = "write"
  /\ \/ NoSpace(s) /\ ~CanEvict(s)
     \/ "write" \in Faults
  /\ commit' = [commit EXCEPT ![s] = At("fail")]
  /\ UNCHANGED <<ring, pending, meta, flash, ready, active, clearing, offered, reboots>>

\* The metadata saved counts the chunk just written.
SavedMeta(s) == meta[s]

\* save_meta: its result is ignored.
CommitSave(s) ==
  /\ commit[s].pc = "save"
  /\ \/ flash' = [flash EXCEPT ![s].meta = SavedMeta(s)]
     \/ "meta" \in Faults /\ UNCHANGED flash
  /\ commit' = [commit EXCEPT ![s] = At("done")]
  /\ UNCHANGED <<ring, pending, meta, ready, active, clearing, offered, reboots>>

\* A stored chunk leaves the tail, any other stays for a later attempt.
FinishLen(s) == IF commit[s].pc = "done" THEN Chunk ELSE 0

CommitFinish(s) ==
  /\ commit[s].pc \in {"done", "fail"}
  /\ ring' = [ring EXCEPT ![s] = RbFinish(@, FinishLen(s))]
  /\ commit' = [commit EXCEPT ![s] = Idle]
  /\ UNCHANGED <<pending, meta, flash, ready, active, clearing, offered, reboots>>

(***************************************************************************)
(* What a download does to the stores.                                     *)
(***************************************************************************)
\* bulk_stream_start cancels the commit works, waiting for a running one, and
\* then sets bulk_stream_active.
StreamCancel ==
  /\ Streams
  /\ clearing = "no" /\ SysIdle
  /\ ~active
  /\ pending' = {}
  /\ UNCHANGED <<ring, commit, meta, flash, ready, active, clearing, offered, reboots>>

StreamStart ==
  /\ Streams
  /\ clearing = "no" /\ SysIdle /\ pending = {}
  /\ ~active
  /\ active' = TRUE
  /\ UNCHANGED <<ring, pending, commit, meta, flash, ready, clearing, offered, reboots>>

\* PHASE_RAM_STAMP, PHASE_RAM_AMBIENT: as many records as the packet holds.
StreamDrain(s) ==
  /\ active
  /\ \E n \in 1 .. RbClaimLen(ring[s], RbSize(ring[s]), RingSize[s]) :
       ring' = [ring EXCEPT ![s] = RbFinish(RbClaim(@, n), n)]
  /\ UNCHANGED <<pending, commit, meta, flash, ready, active, clearing, offered, reboots>>

\* The last packet, an error, a lost connection or bulk_stream_stop.
StreamStop ==
  /\ active
  /\ active' = FALSE
  /\ UNCHANGED <<ring, pending, commit, meta, flash, ready, clearing, offered, reboots>>

(***************************************************************************)
(* log_service_clear: stop the download, cancel both commit works (waiting *)
(* for a running one), clear each partition under its mutex, empty the     *)
(* tails.  A failing zms_clear is logged and the RAM metadata reset anyway.*)
(* A remount that fails after it is logged too and leaves zms_ready set:   *)
(* nothing is left to be read then, and each later write fails.            *)
(* bulk_stream_stop does not wait for a packet that is being sent: the     *)
(* download may still take it out of the tail.                             *)
(***************************************************************************)
ClearBegin ==
  /\ clearing = "no"
  /\ clearing' = "cancel"
  /\ active' = FALSE \/ UNCHANGED active
  /\ UNCHANGED <<ring, pending, commit, meta, flash, ready, offered, reboots>>

ClearCancel ==
  /\ clearing = "cancel" /\ SysIdle
  /\ pending' = {}
  /\ clearing' = IF ready THEN "stamp" ELSE "ram"
  /\ UNCHANGED <<ring, commit, meta, flash, ready, active, offered, reboots>>

ClearFlash(s) ==
  /\ clearing = s
  /\ \/ flash' = [flash EXCEPT ![s] = [data |-> NoData, meta |-> FreshMeta]]
     \/ "clear" \in Faults /\ UNCHANGED flash
  /\ meta' = [meta EXCEPT ![s] = FreshMeta]
  /\ clearing' = IF s = "stamp" THEN "ambient" ELSE "ram"
  /\ UNCHANGED <<ring, pending, commit, ready, active, offered, reboots>>

ClearRam ==
  /\ clearing = "ram"
  /\ ring' = [s \in Stores |-> RbEmpty]
  /\ clearing' = "no"
  /\ UNCHANGED <<pending, commit, meta, flash, ready, active, offered, reboots>>

(***************************************************************************)
(* Power loss or reset at any moment, then log_service_init: the stamp     *)
(* partition is mounted first and an error returns before zms_ready is set.*)
(* A store whose metadata is missing or cannot be read starts afresh.      *)
(***************************************************************************)
Reboot(mounted, restored) ==
  /\ reboots < MaxReboot
  /\ reboots' = reboots + 1
  /\ meta' = [s \in Stores |-> IF s \in restored THEN flash[s].meta ELSE FreshMeta]
  /\ ready' = (mounted = Stores)
  /\ ring' = [s \in Stores |-> RbEmpty]
  /\ pending' = {}
  /\ commit' = [s \in Stores |-> Idle]
  /\ active' = FALSE
  /\ clearing' = "no"
  /\ UNCHANGED <<flash, offered>>

Mountable == IF "mount" \in Faults THEN {{}, {"stamp"}, Stores} ELSE {Stores}
Restorable(mounted) == IF "read" \in Faults THEN SUBSET mounted ELSE {mounted}

-----------------------------------------------------------------------------
CommitStep(s) ==
  \/ CommitSkip(s) \/ CommitShort(s) \/ CommitClaim(s)
  \/ CommitStore(s) \/ Evict(s) \/ CommitFail(s)
  \/ CommitSave(s) \/ CommitFinish(s)

ClearStep == ClearCancel \/ (\E s \in Stores : ClearFlash(s)) \/ ClearRam

Next ==
  \/ \E s \in Stores : PutRefused(s) \/ PutAccepted(s)
  \/ \E s \in Stores : CommitStep(s)
  \/ StreamCancel \/ StreamStart \/ StreamStop
  \/ \E s \in Stores : StreamDrain(s)
  \/ ClearBegin
  \/ ClearStep
  \/ \E m \in Mountable : \E r \in Restorable(m) : Reboot(m, r)

Spec == Init /\ [][Next]_vars

\* The system work queue and the thread in log_service_clear keep running;
\* no sensor has to deliver, no peer to act and no reset to happen.
Fairness ==
  /\ \A s \in Stores : WF_vars(CommitStep(s))
  /\ WF_vars(ClearStep)

FairSpec == Spec /\ Fairness

-----------------------------------------------------------------------------
\* One partition: a partial function from keys to chunks, and the saved metadata
\* (FreshMeta when none was saved, which is what boot makes of a missing record).
IsFlash(f) ==
  /\ f = [data |-> f.data, meta |-> f.meta]
  /\ DOMAIN f.data \subseteq Nat
  /\ f.data \in [DOMAIN f.data -> [Offsets -> Nat]]
  /\ f.meta \in Meta

TypeOK ==
  /\ DOMAIN ring = Stores /\ \A s \in Stores : IsRing(ring[s])
  /\ DOMAIN flash = Stores /\ \A s \in Stores : IsFlash(flash[s])
  /\ pending \subseteq Stores
  /\ commit \in [Stores -> [pc : {"idle", "write", "save", "done", "fail"}, attempt : Nat]]
  /\ meta \in [Stores -> Meta]
  /\ ready \in BOOLEAN
  /\ active \in BOOLEAN
  /\ clearing \in {"no", "cancel", "stamp", "ambient", "ram"}
  /\ offered \in [Stores -> Nat]
  /\ reboots \in Nat

-----------------------------------------------------------------------------
\* What a reader of the log gets: the entries metadata calls live, then the
\* records of the tail that are not in flash already.
LiveKeys(s) == {k \in DOMAIN flash[s].data : meta[s].oldest <= k /\ k < meta[s].write}
TailFrom(s) == ring[s].tail + (IF commit[s].pc \in {"save", "done"} THEN Chunk ELSE 0)
TailPos(s) == TailFrom(s) .. (ring[s].put - 1)

ChunkSorted(c) == \A i, j \in Offsets : i < j => c[i] < c[j]
\* Every record of chunk c is older than every record of chunk d.
Before(c, d) == \A i, j \in Offsets : c[i] < d[j]

\* A download returns the records of a store in the order they were logged,
\* none twice, whatever commits, evictions, failing flash operations, drained
\* downloads, reboots and clears came before: within a flash entry, across
\* entries and from the entries to the RAM tail (bulk_stream_start walks
\* oldest_key..write_key and then the ring buffer).
DownloadOrdered ==
  \A s \in Stores : ready =>
    /\ \A k \in LiveKeys(s) : ChunkSorted(flash[s].data[k])
    /\ \A k, l \in LiveKeys(s) : k < l => Before(flash[s].data[k], flash[s].data[l])
    /\ \A k \in LiveKeys(s), p \in TailPos(s), i \in Offsets :
         flash[s].data[k][i] < ring[s].slot[p]
    /\ \A p, q \in TailPos(s) : p < q => ring[s].slot[p] < ring[s].slot[q]

\* The oldest-first accounting of the eviction loop and of boot never drifts
\* from the keys: as many entries are counted as keys lie between oldest_key
\* and write_key, so eviction stops exactly when the oldest key reaches the
\* next key to write and never deletes an entry it has not counted.
CountIsSpan == \A s \in Stores : meta[s].count = meta[s].write - meta[s].oldest

\* The leak the comment in commit_chunk_locked accepts is bounded: however
\* often power is lost between a data write and its metadata write, at most one
\* entry per store lies outside the live keys (the next commit replaces it).
OneOrphan ==
  \A s \in Stores :
    ready => Cardinality(DOMAIN flash[s].data \ LiveKeys(s)) <= 1

\* In OVERWRITE_OLDEST mode a commit on working flash always stores its chunk,
\* as long as resets are fewer than the evictions that still leave a write:
\* every reset between a delete and its metadata write leaves one more key that
\* is counted but gone, and evicting it frees nothing.
OverwriteStores ==
  reboots < MaxEvict - 1 => \A s \in Stores : commit[s].pc # "fail"

\* Whenever a chunk has accumulated, the commit work can claim it in one piece.
\* A claim stops at the physical end of the ring, so this needs the tail to move
\* by whole chunks only.
ChunkClaimable ==
  \A s \in Stores :
    ~active /\ commit[s] = Idle /\ RbSize(ring[s]) >= Chunk => Claimed(s) = Chunk

\* A full tail does not stay full: put refuses records without submitting the
\* commit work, so the work that empties the tail has to be under way already.
TailFull(s) == RbSpace(ring[s], RingSize[s]) = 0
FullTailDrains == \A s \in Stores : (ready /\ TailFull(s)) ~> (~ready \/ ~TailFull(s))

-----------------------------------------------------------------------------
\* The store implements the abstract log: a chunk changes from tail to stored
\* at its data write, and from then on the claimed copy in the ring is ignored.
StoredRecords(s) == UNION {{flash[s].data[k][i] : i \in Offsets} : k \in LiveKeys(s)}
TailRecords(s) == {ring[s].slot[p] : p \in TailPos(s)}
AbsStored == [s \in Stores |-> StoredRecords(s)]
AbsTail == [s \in Stores |-> TailRecords(s)]

Abs == INSTANCE AbsLog WITH
  Room    <- [s \in Stores |-> RingSize[s] - Chunk],
  MaxLoss <- IF "meta" \in Faults THEN Slots * Chunk ELSE Chunk,
  stored  <- AbsStored,
  tail    <- AbsTail,
  last    <- offered,
  reading <- active,
  erasing <- clearing # "no"

ImplementsAbsLog == Abs!Spec
=============================================================================
