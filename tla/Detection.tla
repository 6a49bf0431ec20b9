----------------------------- MODULE Detection -----------------------------
(***************************************************************************)
(* What counter_work_handler makes of a detection in time: the delta since *)
(* the last event, in seconds, with the sub-second rest carried over; the  *)
(* clock under it (time_service.c, time_write_cb); and the record by which *)
(* both survive a reset (log_persist_state, log_restore_state).            *)
(*                                                                         *)
(* Times are milliseconds.  The counter handler runs on the cooperative    *)
(* system queue and blocks on I2C and on the flash; there the peer may     *)
(* connect or write the time.  The sensor watchdog persists from a         *)
(* preemptible queue: anything may happen between two of the values it     *)
(* reads, in an order C leaves to the compiler.                            *)
(*                                                                         *)
(* Left out: consec_detect (module Link), the sample that is skipped after *)
(* a power cycle (module SensorControl), where the deltas are kept (module *)
(* LogStore).                                                              *)
(***************************************************************************)
EXTENDS Integers, FiniteSets

CONSTANTS
  IdleInterval, ActiveInterval,    \* the two measurement periods
  IdleThreshold, ActiveThreshold,  \* crossings in a row before one is logged
  Byte,          \* 2^8: consec_valid is a uint8_t
  MaxDelta,      \* INT32_MAX
  PersistDelay,  \* LOG_PERSIST_DELAY_MS
  Start,         \* real time at the first boot
  Steps,         \* how far time goes on at once
  Errors,        \* how far off the time is that a peer writes
  MaxTime, MaxWrites, MaxSessions, MaxBoots  \* bounds for TLC

ASSUME DetectionAssumption ==
  /\ {IdleInterval, ActiveInterval, Byte} \subseteq Nat \ {0}
  /\ {IdleThreshold, ActiveThreshold, MaxDelta, PersistDelay, Start} \subseteq Nat
  /\ Steps \subseteq Nat
  /\ Errors \subseteq Int
  /\ {MaxTime, MaxWrites, MaxSessions, MaxBoots} \subseteq Nat

VARIABLES
  now,      \* k_uptime_get()
  base,     \* unix_base_time_ms
  conn,     \* a peer is connected
  main,     \* where main() is: it "starts", has "mounted" the log, "runs"
  left,     \* the values of the record that it has yet to put back
  found,    \* the record that log_restore_state gave it
  last,     \* last_event_unix, 0 if there was no event
  carry,    \* carry_ms
  valid,    \* consec_valid
  seen,     \* last_detection_time
  written,  \* interval_written
  pc,       \* where counter_work_handler is
  started,  \* its uptime_now
  stamp,    \* its timestamp_unix while it persists
  args,     \* what it passed to log_persist_state
  todo,     \* values the sensor watchdog has yet to read for its record
  draft,    \* the record it prepares
  busy,     \* it prepares one
  rec,      \* the record in flash
  \* What the properties need to know of the past.
  wall,     \* real time
  maxErr,   \* how far ahead of it a peer has set the clock
  origin,   \* the time from which the deltas of this chain count
  logged,   \* the sum of the deltas, in seconds
  cuts,     \* connections since, each dropping a carry
  short,    \* a delta was saturated, filtered or refused by the RAM tail
  back,     \* an event was earlier than the one before it
  turned,   \* the clock was set back since the last event
  writes, boots

clock == <<now, wall, base, maxErr, writes>>
filter == <<valid, seen, written>>
handler == <<pc, started, stamp, args>>
watch == <<todo, draft, busy>>
chain == <<origin, logged, cuts, short, back>>
booting == <<main, left, found>>
vars == <<clock, conn, booting, last, carry, filter, handler, watch, rec, chain, turned, boots>>

-----------------------------------------------------------------------------
Fields == {"time", "last", "carry"}
Record == [Fields -> Int]

\* No record is a record that log_restore_state rejects.
NoRec == [time |-> 0, last |-> 0, carry |-> 0]

\* get_current_timestamp
Timestamp == base + now

\* An interval and a tenth.
GapOf(interval) == interval + interval \div 10
Gap == GapOf(IF written THEN ActiveInterval ELSE IdleInterval)
IsCrossing == started - seen >= Gap

-----------------------------------------------------------------------------
(***************************************************************************)
(* Faulty variants.  Nothing below uses them: each is substituted for the  *)
(* definition it is named after to see which property notices the mistake. *)
(***************************************************************************)
ElapsedUnclipped == IF last # 0 THEN Timestamp - last ELSE 0
RestDropped == 0
RecordUnchecked(r) == r.time > 0 /\ r.last >= 0 /\ r.carry >= 0
BaseUnshifted(time) == time

-----------------------------------------------------------------------------
\* The time since the last event; a clock set back gives no negative delta.
Elapsed ==
  IF last # 0 /\ Timestamp > last THEN Timestamp - last ELSE 0

Total == carry + Elapsed
Seconds == Total \div 1000
Saturated == Seconds > MaxDelta
Delta == IF Saturated THEN MaxDelta ELSE Seconds
Rest == IF Saturated THEN 999 ELSE Total % 1000

Counted == (valid + 1) % Byte
Passes == Counted >= (IF written THEN ActiveThreshold ELSE IdleThreshold)

\* The event the counter last worked on.
LastEvent == IF pc = "persist" THEN stamp ELSE last

\* set_real_time: the uptime at which the clock would have read zero.
BaseOf(time) == time - now

\* The checks of log_restore_state.
RecordValid(r) ==
  /\ r.time > 0 /\ r.last >= 0 /\ r.carry >= 0
  /\ r.time >= r.last

-----------------------------------------------------------------------------
Init ==
  /\ now = 0 /\ wall = Start /\ base = 0 /\ maxErr = 0 /\ writes = 0
  /\ conn = FALSE
  /\ main = "starts" /\ left = {} /\ found = NoRec
  /\ last = 0 /\ carry = 0
  /\ valid = 0 /\ seen = 0 /\ written = FALSE
  /\ pc = "idle" /\ started = 0 /\ stamp = 0 /\ args = NoRec
  /\ todo = {} /\ draft = NoRec /\ busy = FALSE
  /\ rec = NoRec
  /\ origin = 0 /\ logged = 0 /\ cuts = 0 /\ short = FALSE /\ back = FALSE
  /\ turned = FALSE
  /\ boots = 0

Tick(d) ==
  /\ wall + d <= MaxTime
  /\ now' = now + d /\ wall' = wall + d
  /\ UNCHANGED <<base, maxErr, writes, conn, booting, last, carry, filter, handler, watch, rec,
                 chain, turned, boots>>

(***************************************************************************)
(* counter_work_handler.                                                   *)
(***************************************************************************)
CounterStarts ==
  /\ pc = "idle"
  /\ pc' = "i2c"
  /\ started' = now
  /\ UNCHANGED <<clock, conn, booting, last, carry, filter, stamp, args, watch, rec, chain, turned,
                 boots>>

\* The gap is too small: the object is still there.  (Every now and then this
\* starts advertising, which resets consec_valid as well.)
Bounces ==
  /\ pc = "i2c" /\ ~IsCrossing
  /\ written' = TRUE
  /\ valid' = 0
  /\ seen' = started /\ started' = 0
  /\ pc' = "idle"
  /\ UNCHANGED <<clock, conn, booting, last, carry, stamp, args, watch, rec, chain, turned,
                 boots>>

\* What becomes of a delta: the filter, or a full tail (rb_stamp_put's result is
\* ignored), may keep it out of the log.
Stored(kept) == IF Passes /\ kept THEN Delta ELSE 0

\* Another object: the delta and the carry, and the delta is offered to the log.
Crosses(kept) ==
  /\ pc = "i2c" /\ IsCrossing
  /\ written' = TRUE
  /\ valid' = Counted
  /\ carry' = Rest
  /\ logged' = logged + Stored(kept)
  /\ origin' = IF last = 0 THEN Timestamp - carry ELSE origin
  /\ short' = (short \/ Saturated \/ ~(Passes /\ kept))
  /\ back' = (back \/ (last # 0 /\ Timestamp < last))
  /\ turned' = FALSE

\* Only a delta above the threshold, and a mounted log, make it persist.
Persists == Passes /\ Elapsed > PersistDelay /\ main # "starts"

CrossesQuietly ==
  /\ \E kept \in BOOLEAN : Crosses(kept)
  /\ ~Persists
  /\ last' = Timestamp
  /\ seen' = started /\ started' = 0
  /\ pc' = "idle"
  /\ UNCHANGED <<clock, conn, booting, stamp, args, watch, rec, cuts, boots>>

\* The record is made of the event before this one and of the new carry.
CrossesAndPersists ==
  /\ \E kept \in BOOLEAN : Crosses(kept)
  /\ Persists
  /\ stamp' = Timestamp
  /\ args' = [time |-> Timestamp, last |-> last, carry |-> Rest]
  /\ pc' = "persist"
  /\ UNCHANGED <<clock, conn, booting, last, seen, started, watch, rec, cuts, boots>>

\* The write may fail; the handler goes on.
PersistReturns ==
  /\ pc = "persist"
  /\ rec' \in {rec, args}
  /\ last' = stamp /\ stamp' = 0
  /\ seen' = started /\ started' = 0
  /\ args' = NoRec
  /\ pc' = "idle"
  /\ UNCHANGED <<clock, conn, booting, carry, valid, written, watch, chain, turned, boots>>

\* inactivity_work_handler
Quiet ==
  /\ written
  /\ written' = FALSE
  /\ UNCHANGED <<clock, conn, booting, last, carry, valid, seen, handler, watch, rec, chain, turned,
                 boots>>

(***************************************************************************)
(* vl53_watchdog_work_handler persists what it finds.                      *)
(***************************************************************************)
WatchStarts ==
  /\ main = "runs" /\ ~conn /\ ~busy
  /\ busy' = TRUE /\ todo' = Fields
  /\ UNCHANGED <<clock, conn, booting, last, carry, filter, handler, draft, rec, chain, turned, boots>>

Found(f) ==
  CASE f = "time" -> Timestamp [] f = "last" -> last [] OTHER -> carry

WatchReads(f) ==
  /\ f \in todo
  /\ todo' = todo \ {f}
  /\ draft' = [draft EXCEPT ![f] = Found(f)]
  /\ UNCHANGED <<clock, conn, booting, last, carry, filter, handler, busy, rec, chain, turned, boots>>

WatchWrites ==
  /\ busy /\ todo = {}
  /\ rec' \in {rec, draft}
  /\ busy' = FALSE /\ draft' = NoRec
  /\ UNCHANGED <<clock, conn, booting, last, carry, filter, handler, todo, chain, turned, boots>>

(***************************************************************************)
(* The peer.                                                               *)
(***************************************************************************)
\* on_connected calls counter_state_reset.
Connect ==
  /\ main = "runs" /\ ~conn /\ cuts < MaxSessions
  /\ conn' = TRUE
  /\ carry' = 0 /\ valid' = 0
  /\ cuts' = cuts + 1
  /\ UNCHANGED <<clock, booting, last, seen, written, handler, watch, rec, origin, logged, short,
                 back, turned, boots>>

Disconnect ==
  /\ conn
  /\ conn' = FALSE
  /\ UNCHANGED <<clock, booting, last, carry, filter, handler, watch, rec, chain, turned, boots>>

\* time_write_cb refuses what is not positive.
WriteTime(e) ==
  /\ conn /\ writes < MaxWrites
  /\ wall + e > 0
  /\ base' = BaseOf(wall + e)
  /\ maxErr' = IF e > maxErr THEN e ELSE maxErr
  /\ turned' = (turned \/ base' < base)
  /\ writes' = writes + 1
  /\ UNCHANGED <<now, wall, conn, booting, last, carry, filter, handler, watch, rec, chain, boots>>

\* log_service_clear deletes the record; the counter goes on from its RAM.
ClearLog ==
  /\ conn
  /\ rec' = NoRec
  /\ UNCHANGED <<clock, conn, booting, last, carry, filter, handler, watch, chain, turned, boots>>

(***************************************************************************)
(* A reset at any time, however long the power is off, and the boot.  The  *)
(* sensor's interrupt is enabled before the log is mounted, and main() is  *)
(* preemptible: counter_work_handler may run between any two steps of it.  *)
(***************************************************************************)
Reset(d) ==
  /\ boots < MaxBoots /\ wall + d <= MaxTime
  /\ boots' = boots + 1
  /\ now' = 0 /\ wall' = wall + d /\ base' = 0
  /\ conn' = FALSE
  /\ main' = "starts" /\ left' = {} /\ found' = NoRec
  /\ last' = 0 /\ carry' = 0
  /\ valid' = 0 /\ seen' = 0 /\ written' = FALSE
  /\ pc' = "idle" /\ started' = 0 /\ stamp' = 0 /\ args' = NoRec
  /\ todo' = {} /\ draft' = NoRec /\ busy' = FALSE
  /\ origin' = 0 /\ logged' = 0 /\ cuts' = 0 /\ short' = FALSE /\ back' = FALSE
  /\ turned' = FALSE
  /\ UNCHANGED <<maxErr, writes, rec>>

\* bulk_stream_init; from here on log_persist_state writes.
BootMounts ==
  /\ main = "starts"
  /\ main' = "mounted"
  /\ UNCHANGED <<clock, conn, left, found, last, carry, filter, handler, watch, rec, chain,
                 turned, boots>>

BootFinds ==
  /\ main = "mounted" /\ left = {} /\ RecordValid(rec)
  /\ left' = Fields /\ found' = rec
  /\ UNCHANGED <<clock, conn, main, last, carry, filter, handler, watch, rec, chain, turned,
                 boots>>

\* No valid record, no mounted partition or a failing zms_read.
BootFresh ==
  /\ main = "mounted" /\ left = {}
  /\ main' = "runs"
  /\ UNCHANGED <<clock, conn, left, found, last, carry, filter, handler, watch, rec, chain,
                 turned, boots>>

\* The event and the carry are put back one after the other, in an order C leaves
\* to the compiler ...
BootRestores(f) ==
  /\ f \in left \ {"time"}
  /\ left' = left \ {f}
  /\ IF f = "last" THEN last' = found.last /\ UNCHANGED carry
                   ELSE carry' = found.carry /\ UNCHANGED last
  /\ UNCHANGED <<clock, conn, main, found, filter, handler, watch, rec, chain, turned, boots>>

\* ... and the clock, by a call, after them.  A new chain begins, from the event
\* and the carry that are there now.
BootSeedsClock ==
  /\ left = {"time"}
  /\ left' = {} /\ found' = NoRec /\ main' = "runs"
  /\ base' = BaseOf(found.time)
  /\ turned' = (turned \/ base' < base)
  /\ origin' = LastEvent - carry
  /\ logged' = 0 /\ cuts' = 0 /\ short' = FALSE /\ back' = FALSE
  /\ UNCHANGED <<now, wall, maxErr, writes, conn, last, carry, filter, handler, watch, rec,
                 boots>>

-----------------------------------------------------------------------------
Next ==
  \/ \E d \in Steps : Tick(d)
  \/ CounterStarts \/ Bounces \/ CrossesQuietly \/ CrossesAndPersists \/ PersistReturns
  \/ Quiet
  \/ WatchStarts \/ (\E f \in Fields : WatchReads(f)) \/ WatchWrites
  \/ Connect \/ Disconnect \/ (\E e \in Errors : WriteTime(e)) \/ ClearLog
  \/ (\E d \in Steps : Reset(d)) \/ BootMounts \/ BootFinds \/ BootFresh
  \/ (\E f \in Fields : BootRestores(f)) \/ BootSeedsClock

Spec == Init /\ [][Next]_vars

-----------------------------------------------------------------------------
\* What is left of a second.
Rests == 0..999

\* Every variable has its type: the carry is less than a second, and a record
\* that is not being prepared is blank.
DetectionTypeOK ==
  /\ now \in Nat /\ wall \in Nat /\ base \in Int /\ maxErr \in Nat /\ writes \in Nat
  /\ conn \in BOOLEAN
  /\ main \in {"starts", "mounted", "runs"} /\ left \subseteq Fields /\ found \in Record
  /\ last \in Nat /\ carry \in Rests
  /\ valid \in 0..(Byte - 1) /\ seen \in Nat /\ written \in BOOLEAN
  /\ pc \in {"idle", "i2c", "persist"} /\ started \in Nat /\ stamp \in Nat /\ args \in Record
  /\ todo \subseteq Fields /\ draft \in Record /\ busy \in BOOLEAN /\ rec \in Record
  /\ origin \in Int /\ logged \in Nat /\ cuts \in Nat
  /\ short \in BOOLEAN /\ back \in BOOLEAN /\ turned \in BOOLEAN
  /\ boots \in Nat

\* How much of the time from the first event of the chain to the last one is
\* neither in the log nor in the carry.
Drift == LastEvent - origin - 1000 * logged - carry

\* carry_ms keeps rounding errors from adding up along the chain of deltas: what
\* the log says has passed differs from what has passed by less than a second
\* per connection, which drops the carry.  No time is lost unless a delta does
\* not fit, is filtered, or meets a full tail, whose refusal the handler ignores
\* although the event counts; none is counted twice unless the clock goes back.
\* (While main() puts the record back, event and carry belong to two chains.)
ChainKept ==
  LastEvent # 0 /\ left = {} =>
    /\ ~short => Drift <= 999 * cuts
    /\ ~back => Drift >= 0

\* The clock is never further ahead of real time than a peer has put it, through
\* any sequence of resets, restored records and failed writes.
ClockNotAhead ==
  /\ Timestamp <= wall + maxErr
  /\ rec.time <= wall + maxErr

\* No event lies in the future, so that no delta is clipped, unless the clock was
\* set back after it, or main() has put the event of the record back and not yet
\* the clock (a crossing of that moment is clipped).  A record whose parts were
\* read before and after an event must not be restored, nor may the clock be
\* restored behind a crossing that came in between without being noticed.
StampsPast == left = {} /\ ~turned => LastEvent <= Timestamp

\* log_service.h: what log_persist_state is given is the last logged detection.
\* When counter_work_handler returns, its record names the event that the next
\* delta counts from, so that a reset repeats no delta.
PersistsLastEvent == [][PersistReturns /\ rec' # rec => rec'.last = last']_vars
=============================================================================
