----------------------------- MODULE BulkStream -----------------------------
(***************************************************************************)
(* The bulk download of services/log_service.c on top of the log stores:   *)
(* bulk_stream_start, _stop, the work handler that sends one notification  *)
(* at a time in four phases, and the callback that a notification was      *)
(* sent.                                                                   *)
(*                                                                         *)
(* Threads.  The handler runs on a preemptible work queue of its own, and  *)
(* notifying may block, so everything else may come between its steps.     *)
(* Commands run on the Bluetooth receive thread, one at a time; the        *)
(* disconnected callback and the commit works on the system work queue;    *)
(* the sent callback on a Bluetooth thread.                                *)
(***************************************************************************)
EXTENDS LogStore, Sequences

CONSTANTS
  Cap,         \* records one notification holds (max_payload_bytes; the code counts
               \*   bytes, and a peer joins a record cut in two)
  MaxErr,      \* CONFIG_APP_STREAM_MAX_ERR
  NotifyErrs,  \* how bt_gatt_notify_cb may fail on a live connection
  Overlap,     \* TRUE: a packet that a stop overtook may still be in the works
               \*   when the next download, put or commit comes
  Stray,       \* TRUE: a sensor handler may log a record after a peer connected
  MaxStart,    \* bound: START commands
  MaxCallbacks \* bound: sent callbacks that may still come

ASSUME StreamAssumption ==
  /\ Cap \in Nat \ {0}
  /\ MaxErr \in Nat \ {0}
  /\ NotifyErrs \subseteq {"nomem", "other"}
  /\ Overlap \in BOOLEAN
  /\ Stray \in BOOLEAN
  /\ MaxStart \in Nat
  /\ MaxCallbacks \in Nat

VARIABLES
  conn,         \* a peer is connected
  work,         \* bulk_stream_work is scheduled
  hpc,          \* where its handler is
  pkt,          \* bulk_pkt and the handler's locals
  inflight,     \* bulk_in_flight
  seq,          \* bulk_seq
  err,          \* stream_err_count
  phase,        \* cur_phase
  rkey, endkey, \* zms_rkey_*, zms_end_key_*
  stage,        \* what is left of zms_stage
  starting,     \* where bulk_stream_start is
  callbacks,    \* ghost: sent callbacks that are still to come
  wire,         \* ghost: the packets accepted since the download started
  due,          \* ghost: for each store, what the download owes the peer
  starts        \* ghost: START commands so far

handlerVars == <<hpc, pkt>>
sessionVars == <<seq, phase, rkey, endkey, stage>>
ghostVars == <<callbacks, wire, due, starts>>
storeVars == <<ring, pending, commit, meta, flash, ready, clearing, offered, reboots>>
streamVars ==
  <<conn, work, hpc, pkt, inflight, seq, err, phase, rkey, endkey, stage, starting,
    callbacks, wire, due, starts>>
allVars == <<storeVars, active, streamVars>>

Phases == {"zms stamp", "ram stamp", "zms ambient", "ram ambient", "done"}
StoreOf(p) == IF p \in {"zms stamp", "ram stamp"} THEN "stamp" ELSE "ambient"

\* kind: a slice of a flash entry, records of the RAM tail, or the header with
\* BULK_FLAG_LAST; res: what stream_send_one returns.
NoPkt == [kind |-> "none", store |-> "stamp", recs |-> <<>>, seq |-> 0, res |-> "ok"]
NothingDue == [s \in Stores |-> {}]

RangeOf(f) == {f[i] : i \in DOMAIN f}

\* What a download of a store can return now.
Readable(s) ==
  (IF ready THEN UNION {RangeOf(flash[s].data[k]) : k \in LiveKeys(s)} ELSE {})
    \cup RangeOf(ring[s].slot)

-----------------------------------------------------------------------------
(***************************************************************************)
(* Faulty variants, each substituted for the definition it is named after. *)
(***************************************************************************)
WaitWorkBare == FALSE
ConsumedAlways == Len(pkt.recs)
NextStageSame(n) == stage
NextSeqAlways == seq + 1
AbortsLate == pkt.res = "other" /\ err >= MaxErr
CancelledStamp == pending \ {"stamp"}
SnapshotShort(s) == meta[s].write - 1

-----------------------------------------------------------------------------
StreamInit ==
  /\ conn = FALSE
  /\ work = FALSE
  /\ hpc = "idle"
  /\ pkt = NoPkt
  /\ inflight = FALSE
  /\ seq = 0
  /\ err = 0
  /\ phase = "zms stamp"
  /\ rkey = [s \in Stores |-> 0]
  /\ endkey = [s \in Stores |-> 0]
  /\ stage = <<>>
  /\ starting = "no"
  /\ callbacks = 0
  /\ wire = <<>>
  /\ due = NothingDue
  /\ starts = 0

(***************************************************************************)
(* The work handler.                                                       *)
(***************************************************************************)
\* While a notification is in flight the work stays scheduled as long as the
\* download is active.
WaitWork == active

HandlerWait ==
  /\ work /\ hpc = "idle"
  /\ inflight
  /\ work' = WaitWork
  /\ UNCHANGED <<storeVars, active, conn, handlerVars, inflight, sessionVars, err,
                 starting, ghostVars>>

\* Nothing is in flight, or its callback is overdue: go on, unless the download
\* was stopped or the peer is gone.
Proceed ==
  /\ work /\ hpc = "idle"
  /\ work' = FALSE
  /\ inflight' = FALSE
  /\ active' = (active /\ conn)
  /\ hpc' = IF active /\ conn THEN "send" ELSE "idle"
  /\ UNCHANGED <<storeVars, conn, pkt, sessionVars, err, starting, ghostVars>>

HandlerRun == ~inflight /\ Proceed
HandlerTimeout == inflight /\ Proceed

\* load_next_zms_*: the keys of the snapshot that are still there, and those the
\* search may stop at.  It passes over a key whose read fails like one that is gone.
NextKeys(s) == {k \in DOMAIN flash[s].data : rkey[s] <= k /\ k < endkey[s]}
Loadable(s) == {k \in NextKeys(s) : "read" \in Faults \/ \A l \in NextKeys(s) : k <= l}
SeqOf(chunk) == [i \in 1 .. Chunk |-> chunk[i - 1]]
Prefix(q) == SubSeq(q, 1, IF Len(q) < Cap THEN Len(q) ELSE Cap)

\* PHASE_ZMS_*: a slice of the staged entry, after loading the next one when it
\* is used up.
SendZms ==
  /\ hpc = "send"
  /\ phase \in {"zms stamp", "zms ambient"}
  /\ LET s == StoreOf(phase)
     IN  /\ \/ stage # <<>> /\ UNCHANGED <<stage, rkey>>
            \/ /\ stage = <<>> /\ ready
               /\ \E k \in Loadable(s) :
                    /\ stage' = SeqOf(flash[s].data[k])
                    /\ rkey' = [rkey EXCEPT ![s] = k + 1]
         /\ pkt' = [kind |-> "zms", store |-> s, recs |-> Prefix(stage'), seq |-> seq,
                    res |-> "ok"]
  /\ hpc' = "notify"
  /\ UNCHANGED <<storeVars, active, conn, work, inflight, err, seq, phase, endkey,
                 starting, ghostVars>>

\* No entry is left, or none that can be read: -EAGAIN with the next phase.
AdvancePhase ==
  /\ hpc = "send"
  /\ phase \in {"zms stamp", "zms ambient"}
  /\ LET s == StoreOf(phase)
     IN  /\ stage = <<>>
         /\ ready => NextKeys(s) = {} \/ "read" \in Faults
         /\ rkey' = IF ready /\ rkey[s] < endkey[s] THEN [rkey EXCEPT ![s] = endkey[s]] ELSE rkey
  /\ phase' = IF phase = "zms stamp" THEN "ram stamp" ELSE "ram ambient"
  /\ pkt' = [NoPkt EXCEPT !.res = "again"]
  /\ hpc' = "resched"
  /\ UNCHANGED <<storeVars, active, conn, work, inflight, err, seq, endkey, stage,
                 starting, ghostVars>>

\* PHASE_RAM_*: claim what fits, or send the header that ends the store.  (The
\* default case of the switch, PHASE_DONE, is never met: that phase is set
\* together with bulk_stream_active = false.)
SendRam ==
  /\ hpc = "send"
  /\ phase \in {"ram stamp", "ram ambient"}
  /\ LET s == StoreOf(phase)
         n == RbClaimLen(ring[s], Cap, RingSize[s])
     IN  /\ ring' = [ring EXCEPT ![s] = RbClaim(@, n)]
         /\ pkt' = [kind |-> IF n = 0 THEN "last" ELSE "ram", store |-> s,
                    recs |-> [i \in 1 .. n |-> ring[s].slot[ring[s].head + i - 1]],
                    seq |-> seq, res |-> "ok"]
  /\ hpc' = "notify"
  /\ UNCHANGED <<pending, commit, meta, flash, ready, clearing, offered, reboots, active,
                 conn, work, inflight, err, sessionVars, starting, ghostVars>>

\* bulk_in_flight is set, then the stack accepts the notification or not.  It may
\* lose the callback of one it accepted.
NotifyOk ==
  /\ hpc = "notify" /\ conn
  /\ inflight' = TRUE
  /\ wire' = Append(wire, pkt)
  /\ callbacks' \in {callbacks, callbacks + 1} \cap 0 .. MaxCallbacks
  /\ hpc' = "post"
  /\ UNCHANGED <<storeVars, active, conn, work, pkt, err, sessionVars, starting, due, starts>>

NotifyFails ==
  /\ hpc = "notify"
  /\ inflight' = TRUE
  /\ \E e \in IF conn THEN NotifyErrs ELSE {"other"} : pkt' = [pkt EXCEPT !.res = e]
  /\ hpc' = "post"
  /\ UNCHANGED <<storeVars, active, conn, work, err, sessionVars, starting, ghostVars>>

\* Records that leave the RAM tail, and the rest of the staged entry.
Consumed == IF pkt.res = "ok" THEN Len(pkt.recs) ELSE 0
NextStage(n) == SubSeq(stage, n + 1, Len(stage))
NextSeq == IF pkt.res = "ok" THEN seq + 1 ELSE seq

\* The rest of stream_send_one.
Post ==
  /\ hpc = "post"
  /\ seq' = NextSeq
  /\ inflight' = IF pkt.res = "ok" THEN inflight ELSE FALSE
  /\ ring' = IF pkt.kind = "ram"
             THEN [ring EXCEPT ![pkt.store] = RbFinish(@, Consumed)]
             ELSE ring
  /\ stage' = IF pkt.res # "ok" THEN stage
              ELSE CASE pkt.kind = "zms" -> NextStage(Len(pkt.recs))
                     [] pkt.kind = "last" /\ pkt.store = "stamp" -> <<>>
                     [] OTHER -> stage
  /\ phase' = IF pkt.kind = "last" /\ pkt.res = "ok"
              THEN IF pkt.store = "stamp" THEN "zms ambient" ELSE "done"
              ELSE phase
  /\ active' = IF \/ pkt.kind = "last" /\ pkt.store = "ambient" /\ pkt.res = "ok"
                  \/ pkt.kind = "ram" /\ pkt.res = "other"
               THEN FALSE ELSE active
  /\ hpc' = "resched"
  /\ UNCHANGED <<pending, commit, meta, flash, ready, clearing, offered, reboots, conn, work,
                 pkt, err, rkey, endkey, starting, ghostVars>>

\* The result decides when the handler comes again: after the callback or two
\* seconds, at once, after a delay, or never.
Aborts == pkt.res = "other" /\ err + 1 >= MaxErr

Resched ==
  /\ hpc = "resched"
  /\ hpc' = "idle"
  /\ pkt' = NoPkt
  /\ work' = IF Aborts THEN work ELSE TRUE
  /\ active' = IF Aborts THEN FALSE ELSE active
  /\ err' = CASE pkt.res \in {"ok", "again"} \/ Aborts -> 0
              [] pkt.res = "nomem" -> err
              [] OTHER -> err + 1
  /\ UNCHANGED <<storeVars, conn, inflight, sessionVars, starting, ghostVars>>

\* bulk_sent_cb.  It does not say which packet it is about.
SentCb ==
  /\ callbacks > 0
  /\ callbacks' = callbacks - 1
  /\ inflight' = FALSE
  /\ work' = IF inflight /\ active THEN TRUE ELSE work
  /\ UNCHANGED <<storeVars, active, conn, handlerVars, sessionVars, err, starting,
                 wire, due, starts>>

(***************************************************************************)
(* Commands.                                                               *)
(***************************************************************************)
\* The handler holds no packet a stop has overtaken.
Settled == hpc = "idle" \/ active
NoCommand == starting = "no" /\ clearing = "no"

StartBegin ==
  /\ conn /\ NoCommand /\ (Overlap \/ Settled)
  /\ starts < MaxStart
  /\ starts' = starts + 1
  /\ err' = 0
  /\ starting' = IF active THEN "no" ELSE "cancel"
  /\ UNCHANGED <<storeVars, active, conn, work, handlerVars, inflight, sessionVars,
                 callbacks, wire, due>>

\* k_work_cancel_sync of both commit works.
Cancelled == {}

StartCancel ==
  /\ starting = "cancel" /\ SysIdle
  /\ pending' = Cancelled
  /\ starting' = "activate"
  /\ UNCHANGED <<ring, commit, meta, flash, ready, clearing, offered, reboots, active, conn,
                 work, handlerVars, inflight, sessionVars, err, ghostVars>>

\* zms_end_key_*: the entries that exist now.
Snapshot(s) == meta[s].write

StartActivate ==
  /\ starting = "activate"
  /\ starting' = "no"
  /\ rkey' = [s \in Stores |-> meta[s].oldest]
  /\ endkey' = [s \in Stores |-> Snapshot(s)]
  /\ seq' = 0
  /\ phase' = "zms stamp"
  /\ stage' = <<>>
  /\ active' = TRUE
  /\ inflight' = FALSE
  /\ work' = TRUE
  /\ wire' = <<>>
  /\ due' = [s \in Stores |-> Readable(s)]
  /\ UNCHANGED <<storeVars, conn, handlerVars, err, callbacks, starts>>

\* bulk_stream_stop: a handler that is running goes on.
StopEffects ==
  /\ active' = FALSE
  /\ inflight' = FALSE
  /\ work' = FALSE

StopCommand ==
  /\ conn /\ NoCommand
  /\ StopEffects
  /\ UNCHANGED <<storeVars, conn, handlerVars, sessionVars, err, starting, ghostVars>>

\* log_service_clear begins with bulk_stream_stop; nothing is owed any more.
ClearCommand ==
  /\ conn /\ NoCommand
  /\ clearing' = "cancel"
  /\ StopEffects
  /\ due' = NothingDue
  /\ UNCHANGED <<ring, pending, commit, meta, flash, ready, offered, reboots, conn, handlerVars,
                 sessionVars, err, starting, callbacks, wire, starts>>

\* on_disconnected.  The stack may or may not report the packets it drops.
Disconnect ==
  /\ conn /\ SysIdle
  /\ conn' = FALSE
  /\ StopEffects
  /\ callbacks' \in {0, callbacks}
  /\ UNCHANGED <<storeVars, handlerVars, sessionVars, err, starting, wire, due, starts>>

\* A peer takes longer to connect than the handler to send one packet.
Connect ==
  /\ ~conn /\ hpc = "idle"
  /\ conn' = TRUE
  /\ UNCHANGED <<storeVars, active, work, handlerVars, inflight, sessionVars, err, starting,
                 ghostVars>>

(***************************************************************************)
(* The stores.  on_connected pauses the sensors but waits for no handler,  *)
(* so a record may still be logged then.  Unless Overlap is set no record  *)
(* is logged while bulk_stream_start runs: none can then restart a commit  *)
(* work that was just cancelled.                                           *)
(***************************************************************************)
Log(s) ==
  /\ Stray \/ ~conn
  /\ Overlap \/ (Settled /\ starting = "no")
  /\ PutRefused(s) \/ PutAccepted(s)
  /\ UNCHANGED streamVars

Commit(s) ==
  /\ Overlap \/ Settled
  /\ CommitStep(s)
  /\ UNCHANGED streamVars

Clear == ClearStep /\ UNCHANGED streamVars

-----------------------------------------------------------------------------
Send == SendZms \/ AdvancePhase \/ SendRam
Handler ==
  HandlerWait \/ HandlerRun \/ HandlerTimeout \/ Send \/ NotifyOk \/ NotifyFails \/ Post \/ Resched

StreamNext ==
  \/ Handler
  \/ SentCb
  \/ StartBegin \/ StartCancel \/ StartActivate
  \/ StopCommand \/ ClearCommand
  \/ Connect \/ Disconnect
  \/ \E s \in Stores : Log(s) \/ Commit(s)
  \/ Clear

StreamSpec == Init /\ StreamInit /\ [][StreamNext]_allVars

\* The handler's work queue runs; two seconds without a callback pass; a live
\* connection drains the stack's buffers, so a notification is accepted at last.
\* The callback itself may never come, and no peer has to do anything.
StreamFairness ==
  /\ WF_allVars(Handler)
  /\ SF_allVars(HandlerTimeout)
  /\ SF_allVars(NotifyOk)

StreamFairSpec == StreamSpec /\ StreamFairness

-----------------------------------------------------------------------------
StreamTypeOK ==
  /\ active \in BOOLEAN /\ conn \in BOOLEAN /\ work \in BOOLEAN /\ inflight \in BOOLEAN
  /\ hpc \in {"idle", "send", "notify", "post", "resched"}
  /\ pkt \in [kind : {"none", "zms", "ram", "last"}, store : Stores, recs : Seq(Nat),
              seq : Nat, res : {"ok", "again", "nomem", "other"}]
  /\ seq \in Nat /\ err \in 0 .. MaxErr - 1
  /\ phase \in Phases
  /\ rkey \in [Stores -> Nat] /\ endkey \in [Stores -> Nat]
  /\ stage \in Seq(Nat) /\ Len(stage) <= Chunk
  /\ starting \in {"no", "cancel", "activate"}
  /\ callbacks \in Nat /\ starts \in Nat

\* The records of a store on the wire, and whether its LAST header is there.
Sent(s) == UNION {RangeOf(wire[i].recs) : i \in {j \in DOMAIN wire : wire[j].store = s}}
Ended(s) == \E i \in DOMAIN wire : wire[i].kind = "last" /\ wire[i].store = s

Increasing(q) == \A m, n \in DOMAIN q : m < n => q[m] < q[n]

\* The peer can join the packets by arrival: each store's records come in the
\* order logged, none twice, although a packet may be overtaken by a stop, its
\* callback be late or lost, and its retry follow a failure.
SentInOrder ==
  \A i, j \in DOMAIN wire :
    /\ Increasing(wire[i].recs)
    /\ i < j /\ wire[i].store = wire[j].store =>
         \A m \in DOMAIN wire[i].recs, n \in DOMAIN wire[j].recs :
           wire[i].recs[m] < wire[j].recs[n]

\* The sequence numbers of a download are 0, 1, 2, ...: a gap the peer sees is a
\* packet lost on the air, not one the handler failed to queue.
SeqContiguous == \A i \in DOMAIN wire : wire[i].seq = i - 1

\* A download that ended with both LAST headers has returned everything that was
\* readable when it started.
Complete == (\A s \in Stores : Ended(s)) => \A s \in Stores : due[s] \subseteq Sent(s)

\* While a download is active or its handler inside a packet, what it owes is
\* still in the stores or already sent: no failed notification costs records of
\* the RAM tail.
NothingVanishes ==
  active \/ hpc # "idle" => \A s \in Stores : due[s] \subseteq Readable(s) \cup Sent(s)

\* A download always ends, even when no sent callback ever comes.
StreamEnds == active ~> ~active

\* To the stores a download is what LogStore says it is: records leave the tail
\* only at the front, between a start that found the commits cancelled and a
\* stop.  A claim the handler holds has no effect until it is finished.
Reading == active \/ hpc # "idle"
Unclaimed(r) == [r EXCEPT !.head = r.tail]
CommittedRing ==
  [s \in Stores |-> IF commit[s] = Idle THEN Unclaimed(ring[s]) ELSE ring[s]]

Store == INSTANCE LogStore WITH active <- Reading, ring <- CommittedRing

ImplementsStore == Store!Spec
=============================================================================
