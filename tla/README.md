# SensorSuite in TLA+

The AZSensorSuite firmware (`src/firmware`, nRF54L15, Zephyr) counts objects
with a VL53L4CD time-of-flight sensor, samples temperature and humidity, keeps
both logs across power losses and sends them to a BLE peer. This directory holds
models of the parts of it whose correctness depends on the order of events, the
TLC runs that check them, and proofs of the properties that matter most.

Line numbers below are those of `firmware/src/main.c` and
`firmware/src/services/log_service.c` (`log:`).

## 1. The system

### Threads

| Thread | Runs | Preempted by |
|---|---|---|
| Bluetooth receive (cooperative) | `on_connected`, GATT reads and writes, hence every command | interrupts |
| system work queue (cooperative) | `counter_work`, both commit works, `schedule_work`, advertising, watchdog feed, `on_disconnected` | interrupts; others only while it blocks on I2C, flash or a mutex |
| sensor queue (preemptible, priority 10) | `vl53_stop`, `vl53_sched_reinit`, `vl53_watchdog`, `inactivity`, `ambient`, the heartbeat | interrupts and the threads above |
| stream queue (preemptible, priority 10) | the download handler | the same: it and the sensor queue do not preempt each other, but each may run while the other blocks |
| interrupts | `vl53_int_cb`, timeouts | |

### Components

**Log stores** (`log_service.c`). State: a RAM ring per record kind
(`rb_stamp`, `rb_ambient`), per kind `{write_key, oldest_key, entry_count}` in
RAM and in flash, the flash entries of one chunk each, `zms_ready`.
Operations: put, commit work (claim a chunk, evict if full, write, save the
metadata, finish the claim), boot, clear, counts. Hard: a power loss between any
two flash operations, failing writes and deletes, puts during an ambient commit,
a tail that a download drained to a length that is no multiple of a chunk.
Correct when: what can be read is in the order logged without duplicates; a
full ring drains; the oldest records, and only they, make room; a power loss
costs the tail and at most a chunk.

**Bulk download** (`log_service.c`). State: active flag, phase, keys, staged
chunk, sequence and error counters, the in-flight flag. Operations: start, stop,
the handler (one notification per round), the sent callback. Talks to the stores
(reads flash, claims the RAM tail, bars commits while active) and to the
connection. Hard: late, lost and foreign callbacks, a stop or a disconnect
inside a packet, failing notifications, stray records. Correct when: packets are
ordered and numbered without gaps, a download that reports its end is complete,
nothing is lost by a failure before the stack accepted it, and every download
ends.

**Sensor control** (`main.c`): connection callbacks, schedule, sensor watchdog,
interrupt and the works that stop, re-initialise and slow down the sensor.
State: connection, `vl53_sched_off`, `logging_paused`, `ambient_paused`, the
power pin, the chip's mode and period, the interrupt line and its enabling, the
works' queue and timers. Hard: three threads write the same flags and pins;
stops and re-initialisations queue behind each other; an edge can be missed.
Correct when: the flags agree with the causes, a device without a peer and
within its hours ends up measuring, and a deaf sensor is revived.

**Detection counter** (`counter_work_handler`): `consec_*`, `last_event_unix`,
`carry_ms`. Hard: it blocks on I2C and flash, where a peer may connect or set the
clock, forwards or back; a carry is dropped by every connection. Correct when the
deltas add up to the time passed, without drift and through clock changes.

**Persisted detection state** (`log_persist_state`, `log_restore_state`): one
record in flash, written by the counter and by the sensor watchdog, which reads
its parts one after the other. Correct when a reset puts the counter back to the
last event, with a clock that is not ahead.

**Ambient sampling** (`ambient_work`): pauses during connections. Correct when
it always resumes.

**Connection management** (`on_connected`, `on_disconnected`, bonds, intervals):
one connection object, referenced by the application, the stack and the stream
thread. **Commands** (`main_cmnd_cb`) and the **GATT service**
(`sense_service.c`) are the entry points of the peer.

**Advertising** (`adv_*`): `is_advertising`, the set, two timeouts. Hard: the
flag is set by one thread after the fact and cleared by three callbacks;
`adv_work` spins while the stack has no connection object to give. Correct when
the flag tells the truth and an idle device can always be made to advertise.

**Schedule** (`is_business_hours`, `ms_until_next_transition`,
`schedule_work_handler`, settings): decides whether the sensor has power. Hard:
two looks at a clock that a peer may set, weekends that the sleep knows nothing
of, a setting that is saved after it took effect. Correct when no opening or
closing is slept through.

**Hardware watchdog** (`wdt_*`): a heartbeat bit set on the sensor queue, a feed
on the system queue that reads and clears it. Correct when it resets a stuck
sensor queue in time and never a healthy one.

**Time service** (`time_service.c`): an offset to the uptime. **Error service**
(`error_fatal`, the kernel fault handler): ends everything, with the watchdog off
or on. **Boot** (`main`). **VL53L4CD driver** (vendored). **Python client**
(`software/azss_client.py`).

`PROJECT.json` lists each with its status, and the hazards at their lines.

## 2. Modules

| Module | Models |
|---|---|
| `RingBuf` | Zephyr's `ring_buf` as the code uses it (external): cursors that only grow, the physical place is the cursor modulo the size, a claim stops at the physical end |
| `AbsLog` | the abstract log: per store a set of durable and a set of volatile record numbers; records move a chunk at a time, oldest first |
| `LogStore` | the two stores of `log_service.c`, every flash operation a step |
| `BulkStream` | the download; EXTENDS `LogStore`, so both run together on one state |
| `SensorControl` | who switches the sensor on and off in `main.c` |
| `Detection` | deltas, carry, crossing filter, the clock, the persisted record, resets |
| `Watchdog` | heartbeat, feed and hardware timer, with latencies, kernel faults and `error_fatal` |
| `Link` | advertising, the connection object and its references, unpairing; EXTENDS `Watchdog`, which ends what spins |
| `Schedule` | the working hours, the sleep until they change, the commands and the setting in flash |
| `RingBufLemmas`, `LogStoreProofs`, `BulkStreamProofs`, `SensorControlProofs`, `DetectionProofs`, `LinkProofs`, `ScheduleProofs` | lemmas and theorems about the module each is named after |
| `LogStoreRefinement` | that `LogStore` implements `AbsLog`; EXTENDS `LogStoreProofs` |
| `MCLogStore`, `MCBulkStream`, `MCSensorControl`, `MCDetection`, `MCSchedule` | instances for TLC |

How they fit: `BulkStream` implements `LogStore` (its downloads are the
`StreamStart`, `StreamDrain`, `StreamStop` that `LogStore` assumes), and
`LogStore` implements `AbsLog`, both by refinement mappings. `SensorControl`
covers the side that produces records; `BulkStream` takes from it only whether a
record may still be logged after a peer connected (`Stray`), which
`SensorControl` confirms can happen (a handler under way is not stopped by
`on_connected`). `Link` is a composition: an `adv_work` that spins starves the
stream thread and the sensor queue, so its `stuck` is `Watchdog`'s, and the
watchdog's reset is what frees the device. `Detection` and `Schedule` stand for
themselves: the first takes from `SensorControl` that a handler runs after each
interrupt, the second gives `SensorControl` the opening and closing that it lets
happen at any time. Neither needs more of the other than that.

### LogStore

Records are numbered in the order in which the sensor code offers them; the code
stores values. `ring`, `meta`, `flash` are the variables of those names;
`commit[s]` is the program counter of the store's commit handler, `pending` the
queued commit works, `clearing` where `log_service_clear` is.

| Actions | Code |
|---|---|
| `PutRefused`, `PutAccepted` | `rb_stamp_put`, `rb_ambient_put`: a refused put returns before the work is submitted |
| commit actions (`CommitStep`) | both commit handlers and `commit_chunk_locked`: skip while a download is active, claim, evict while full, write, `save_meta`, finish |
| boot actions | reset at any step, then `log_service_init`: `Reboot(mounted, restored)`, where mounts may fail (`"mount"`), and the reading of a mounted store's metadata (`"read"`), which starts that store afresh with `zms_ready` set |
| clear actions (`ClearStep`) | `log_service_clear`, one step per partition, then the rings |
| `StreamStart`, `StreamDrain`, `StreamStop` | a download as the stores see it |

The commit handlers and the counter share a work queue, so one of them runs at a
time (`SysIdle`); an ambient put may fall between any two steps of a commit. A
put made while a download holds claimed records counts only the others, hence
the choice of submitting in `PutAccepted`.

What is simplified: `Offer` takes over the documented precondition of
`log_service_clear`, that ingestion is paused, although the command handler checks
nothing (1036), and a re-initialisation pending at a connection may leave the
sensor logging during the session. Keys never reach `ZMS_META_KEY`, where the
code wraps them after 2^32 commits (`log:215`, `log:240`). A remount that fails after
`zms_clear` leaves `zms_ready` set: the store is then empty and each write fails,
which `"write"` has among its cases.

### BulkStream

The handler's round is `HandlerRun` / `HandlerWait` / `HandlerTimeout`, then
`SendZms`, `AdvancePhase` or `SendRam` (what `stream_send_one` builds; with
`"read"` in `Faults` any entry may fail to be read, which the search passes over like
a missing one, `Loadable`), then
`NotifyOk` or `NotifyFails`, `Post` (consume, advance, count) and `Resched`
(retry, back-off, abort). Every one of them may be separated by a command, a
disconnect, a callback, a put or a commit. `StartBegin`, `StartCancel` and
`StartActivate` are `bulk_stream_start`, split where a commit may start.
Payloads are counted in records, not bytes. Two assumptions about timing are
constants: with `Overlap = FALSE` a packet overtaken by a stop has left the
handler before the next download, put or commit begins, and a peer cannot
connect before the handler is idle (connecting takes many times longer than a
packet). `Overlap = FALSE` also bars every put while `bulk_stream_start` runs, so
that no commit work is submitted again between its cancelling and the
activation: that window of the code (`log:1046`-`log:1068`) is not explored.
`Overlap = TRUE` lifts these, and most properties then fail
(section 3, "What fails without a run").

### SensorControl

`chip`, `rate`, `line` are the sensor; `timer`, `queue`, `run`, `canceling` the
sensor queue with the kernel's rules: submitting a queued work is a no-op, a
rescheduled work that is already queued stays queued and gets a timer as well,
a running work that was cancelled cannot be submitted before it has returned.
`cqueued` and `cpc` are `counter_work` on the system queue.

| Actions | Code |
|---|---|
| `Detect` | the sensor pulls its line; `vl53_int_cb` |
| `Connect`, `Disconnect` | `on_connected`, `on_disconnected` |
| `ScheduleOpens`, `ScheduleCloses` | `schedule_work_handler`, with any answer of `is_business_hours` |
| `CounterStart` ... `CounterRecords` | `counter_work_handler`, cut where it blocks |
| `Stop`, `Reinit*`, `Watchdog*`, `Inactivity*`, `Ambient*` | the handlers of the sensor queue |
| `TimerFires` | the kernel |

A handler on a cooperative thread is one step; an interrupt inside it is modelled
where it matters (`ScheduleCloses` cancels `counter_work` before the interrupt is
off). A section under `i2c22_mutex` is one step too, while the power pin is not
under that mutex. `heard` stands for the comparison of `last_detection_time`
with the watchdog period: the watchdog looks once per period, so the last
detection is a period old exactly if there was none since its last round.
Timing assumptions: the 10 ms sleeps of a power cycle outlast a counter handler
(`CounterIdle`), and with `ShortSessions = FALSE` a connection outlasts what the
sensor queue had to do when it began. Without the latter both `AmbientAlive` and
`ArmedWhenSettled` fail: a connection that comes and goes while one ambient
sample is being taken leaves ambient sampling cancelled for good, because the
kernel refuses to submit a work whose cancelled handler still runs.

### Detection

Times are milliseconds. `now`, `base`, `last`, `carry`, `valid`, `seen`, `rec` are
`k_uptime_get()`, `unix_base_time_ms`, `last_event_unix`, `carry_ms`,
`consec_valid`, `last_detection_time` and the record in flash. `wall`, `origin`,
`logged` and the like are history: real time, where the chain of deltas began,
their sum, and what happened in between.

| Actions | Code |
|---|---|
| `CounterStarts`, `Bounces`, `CrossesQuietly` | `counter_work_handler`, cut where it blocks on I2C; `Stored(kept)` is what reaches the log, nothing if `rb_stamp_put` meets a full tail, which 879 ignores |
| `CrossesAndPersists`, `PersistReturns` | the same with `log_persist_state`, which may fail; the peer may come in between |
| `WatchStarts`, `WatchReads`, `WatchWrites` | `vl53_watchdog_work_handler`: the three values are read one by one, in any order, since C leaves the order of arguments open |
| `WriteTime`, `Connect`, `Disconnect`, `ClearLog` | `time_write_cb` and `set_real_time`, the connection callbacks, `log_service_clear` |
| `Reset` | power loss at any step |
| `BootMounts`, `BootFinds`, `BootFresh`, `BootRestores(f)`, `BootSeedsClock` | `main` from 1350 to 1360: the event, the carry and the clock are put back one after the other, and `counter_work` may run between any two of them, since the interrupt is enabled before and `main` is preemptible |

### Watchdog and Link

`Watchdog` counts in units of five seconds, so that 45, 50 and 60 s are 9, 10 and
12. A tick is refused while what is due would be later than its queue's latency
allows. `Link` adds the works `adv`, `timeout` and `gone` (the kernel's call of
`on_disconnected`, which comes from the cooperative system queue) and the radio.

| Actions | Code |
|---|---|
| `AdvStarts`, `AdvResumes`, `AdvRetries` | `adv_work_handler`, cut where the stack takes over; retrying is the `-ENOMEM` branch |
| `TimeoutStops`, `DelayEnds`, `AdvSent` | `adv_timeout_work_handler`, its 100 ms, `adv_sent_cb` |
| `Bounces`, `Crosses` | the part of `counter_work_handler` that starts advertising |
| `OnConnected`, `OnConnectedFails`, `OnDisconnected` | the connection callbacks |
| `SecurityFails`, `LinkEnds` | `security_changed` after a failure, which raises the flag and asks for a disconnection that may be refused; the end of a connection, for that reason or another (`failed` remembers which peer it is) |
| `StreamTakes`, `StreamDrops` | the reference `bulk_stream_work_handler` holds |
| `Heartbeat`, `Feed`, `Tick`, `Panic`, `Fatal`, `Restart` | the watchdog's handlers and what resets |

`SlowPeer` is a timing assumption: nobody connects, and no window ends, in the
microseconds between `bt_le_ext_adv_start` and `atomic_set` (352).

### Schedule

Times are seconds. `t` is the clock, `due` the sleep that is left, `checked` and
`should` the handler between its two looks at the clock, `off` and `stored` the
sensor's power and the setting in flash. `Checks` and `Settles` are
`schedule_work_handler`, `PresetCommand`, `WeekendCommand` and `Saves` the
commands with `save_schedule_settings`, whose result the code ignores, `SetTime`
the time callback, `Reset` a boot with any reading of the clock.

## 3. Runs

| Run | Shows | Bounds and why they suffice |
|---|---|---|
| `store_crash` | power loss at every step of commits and evictions on working flash: at most one uncounted entry (`OneOrphan`), overwriting always stores (`OverwriteStores`), a full chunk can always be claimed (`ChunkClaimable`), a full tail drains (`FullTailDrains`), refinement of `AbsLog` | chunk 2, ring 2 chunks, partition 2 chunks, 12 records of one store, 2 resets: the ring and the partition both wrap, eviction happens while an orphan of an earlier reset is there |
| `store_faults` | failing writes, deletes, metadata writes and mounts, resets, drained downloads, clears: types, order (`DownloadOrdered`), `CountIsSpan` | 9 records, 2 resets: each fault can hit each of the four commits |
| `store_clear` | STOP_WHEN_FULL, both stores, failing writes, metadata writes and clears: order (`DownloadOrdered`) | 6 and 3 records: the third chunk meets a full partition |
| `store_wrap` | expected violation: a partly drained tail meets a claim shorter than a chunk and commits stop | |
| `download_safety` | `SentInOrder`, `SeqContiguous`, `Complete`, `NothingVanishes` with stops, clears, disconnects, failures, stray records | one flash entry and a tail of stamps, an ambient tail, one record per packet, 2 downloads, one callback that may be late: an entry spans two packets, and a callback can belong to the wrong one |
| `download_ends` | every download ends (`StreamEnds`); refinement of `LogStore` | one record of each kind, a chunk of 1: all four phases have something to send; entries that cannot be read |
| `sensor_works` | `PausedCoherent`, `AmbientAlive`, `ArmedWhenSettled`, `CancelHolds`, `ActiveEnds` (the short measurement period is always taken back), `SensorComesBack` | none: the state is finite |
| `sensor_hours` | expected violation: detections are recorded outside the active period | |
| `detection_chain` | `ChainKept` (the log and the carry account for the time passed, but for a second per connection), `ClockNotAhead`, `StampsPast` | one clock write, one session, one reset, 3.4 s in steps of 0.7 and 1.3 s: a carry, a saturated delta (`MaxDelta` = 1), a wrapped `consec_valid` (`Byte` = 2), a filtered or refused crossing, a clock set back behind the last event, a torn record and a crossing between two steps of the boot all occur |
| `detection_persist` | expected violation: the record left by a detection names the event before it | |
| `link_watch` | `NoFalseReset`, `StuckIsReset`, `FlagTruthful`, `NeverStartedTwice`, `SpinsOnlyForStream`, `UnpairsTheFailed` (also when the request to disconnect is refused), `AdvertisesAgain` (a new window after each session, without a reset, unless the stream thread holds the object), `AdvertisesOnRequest` | the real intervals; the feed one unit (5 s) late at most; `consec_detect` wraps at 3; one kernel fault, any number of resets |
| `schedule_hours` | `HoursMatchCalendar`, `RightOrDue`, `Durable` (unless a command is about to be saved, or its save failed), sleeps within the cap | the real hours and the real cap; a clock never set, one on a Friday, a Saturday or a Sunday; four days, two commands, clock settings or resets, one second of delay |

`CHECK_DEADLOCK FALSE` is set because the models stop: the bounded inputs run
out, or `error_fatal` was called.

### Fairness

`FairSpec` of `LogStore`: commit works that are queued run (the kernel serves
its queue) and a clear that has begun goes on. `StreamFairSpec`: the handler's
queue runs (weak); the two-second deadline of a packet passes and, on a live
connection, the stack drains its buffers, so a notification is accepted at last
(strong, both may be disabled in between by a callback or a back-off). Nothing
forces the sent callback. `FairSpec` of `SensorControl`: queued works and due
timeouts run. `Spec` of `Link`: queued works and callbacks run, time passes,
the watchdog's handlers and its reset happen, the stream thread gives its
reference back if it may run, and an object that stays is measured again. All
weak, so nothing of it helps a stream thread that is starved by `adv_work`. No
fairness is put on peers, people, the clock or power.

### Findings

1. `store_wrap`: after a download that drained part of a chunk, commits can stop
   for good.
2. `sensor_hours`: closing the schedule does not cancel a pending
   re-initialisation, which powers the sensor up again.
3. `detection_persist`: `log_persist_state` is called before `last_event_unix`
   takes the new event, but with the new carry, so a reset makes the next delta
   repeat the interval that was just logged.

### What fails without a run

These were met while modelling; the properties above are stated around them.

* `Overlap = TRUE`: `bulk_stream_stop` does not wait for the handler. STOP and
  START in a row let its late writes break the numbering and the order
  (`SeqContiguous`, `SentInOrder`), a late claim finished after a clear or a put
  costs records (`NothingVanishes`), and a commit may start on the claim a packet
  still holds, from where the ring is no longer one: the model stops there.
* A refused `rb_stamp_put` loses its delta for good (879): the event counts, the
  time since the last one is not in the log. With finding 1 the tail may stay
  full. `ChainKept` says that no other time is lost.
* A commit whose write fails while the tail is full is not tried again: each put
  returns before it would submit the work (`log:341`). `FullTailDrains` is
  checked on flash that works and without downloads.
* Full storage with STOP_WHEN_FULL: log_service.h:67 says "new chunks dropped when
  ZMS full" and Kconfig:140 "Drop incoming chunks silently once storage is full".
  The code drops no chunk: it finishes none of the claim and keeps the chunk in
  the RAM tail (`log:203`-`log:206`, `log:288`-`log:290`); what is lost are the
  records that `rb_stamp_put` refuses when the tail is full.
* "If enabled, immediately starts a new advertising window after a BLE
  disconnection" (Kconfig:58). If the stream thread holds the connection object
  when `on_disconnected` has run, `adv_work` spins instead (342-346) until the
  watchdog resets the device, up to about two minutes later, and the RAM tail
  is lost. `AdvertisesAgain` excepts that case (`Overtaken`).
* readme.md:47 says that Storage Clear "Clears NVM, including bonding, configuration,
  and logs". `CMND_LOG_CLEAR` (1035) calls `log_service_clear`, which clears the logs
  and the persisted detection state and neither of the others; hence it is no
  action of `Schedule`.
* A crossing between 1357 and 1359 is stamped with the uptime, before the event that
  was just put back: its delta is clipped to zero, and the next one counts from that
  uptime to the restored clock, so the whole Unix time. `StampsPast` excepts these
  steps, and the chain `ChainKept` speaks of begins after them.
* A store whose metadata cannot be read at boot (`log:561`, `log:587`) starts again
  at its first key and counts none of the entries it has. On a full partition
  nothing can be evicted then, and writes may fail (`OverwriteStores`); a new
  chunk may come before an old one that is read again after it
  (`DownloadOrdered`). No run has such a failure; `TypeCorrect`, `SpanCorrect` and
  `ChunkInOnePiece` are proved with it.
* One failed notification in a RAM phase ends the download, although
  `APP_STREAM_MAX_ERR` (Kconfig:111) speaks of consecutive errors tolerated.
* `log_total_stamp_count` (log_service.h:146) is too high after a reset between
  `zms_delete` and `save_meta`.
* Re-initialisation resets the chip's period, not `interval_written`; until
  `inactivity_work` runs, the firmware believes in a period the chip does not
  have. `ActiveEnds` bounds that.
* `ShortSessions = TRUE` breaks `AmbientAlive` and `ArmedWhenSettled`.
* `SlowPeer = FALSE` breaks `FlagTruthful`: the `true` of line 352 overwrites the
  `false` of a connection that was faster.
* Straddled sleeps (`straddled` in `RightOrDue`): when the hours change between the handler's two looks at the
  clock, the power is wrong for one sleep, 30 minutes at most.
* `get_current_timestamp` returns the uptime, not the zero its header promises,
  as long as the time was not set; log_service.h names the ambient handler as
  the caller of `log_persist_state`, where the code has the sensor watchdog.

## 4. Proofs

All theorems hold for every value of the constants allowed by the assumptions
(`ConstantsAssumption`: the ring size is a positive multiple of the chunk) and by
the hypotheses each one names. A hypothesis on `Faults` leaves out the flash
operations whose failure breaks the property: for each one that a theorem about
`LogStore` leaves out TLC finds a counterexample on the instance of
`store_crash`.

* `LogStoreProofs`: `TypeCorrect` (`[]TypeOK`), `SpanCorrect`
  (`[]CountIsSpan`) and `DownloadIsOrdered` (`[]DownloadOrdered`, provided
  neither `zms_clear` nor the reading of the metadata at boot fails; `RebootRestores`
  says what boot finds then).
  * `TypeInv` is `TypeOK` with `ExclusionInv` (downloads and clears never overlap
    a running commit) and `ClaimInv` (a running handler holds a claim of exactly
    one chunk, nobody else holds any): without them the finish could move the
    ring's cursors past each other.
  * `SpanInv` adds the same equation for the saved metadata, which boot restores.
  * `OrderInv` says: everything stored was offered (`OfferedInv`), the ring is
    sorted (`RingSorted`), the entries below the next key to be written are
    sorted (`FlashSorted`) and older than the unclaimed tail (`FlashBeforeRing`).
    It speaks of keys below the *next* key, not of live keys: entries from there
    on are orphans of interrupted commits, which are never read and get replaced,
    and an orphan may repeat records. `DownloadOrdered` alone is not inductive:
    it does not say where a commit or a reset leaves the orphans.
  * The lemmas `OrderShrink`, `OrderFrame`, `OrderPut`, `OrderStore` say what
    removing, leaving alone, putting and committing do to `OrderInv`; the step
    lemma applies one of them per action.
  * `ChunkInOnePiece` (`[]ChunkClaimable`), under every fault, if no download
    takes records (`~Streams`; otherwise finding 1). `WholeInv`: the tail stands
    at a multiple of the chunk, so the physical end of the ring, at a multiple
    too, never cuts a chunk in two.
  * `OneOrphanOnly` (`[]OneOrphan`), with failing writes and mounts. `KeysInv`
    bounds the keys present by the *saved* metadata and says that the RAM metadata
    is ahead of it only between a data write and its `save_meta`.
  * `OverwriteSucceeds` (`[]OverwriteStores`), for partitions of two chunks or
    more on flash that works. `EvictInv` says which keys are present: all from
    some key on up to the next one to be written, and that each reset puts at
    most one key between the saved oldest key and that one. An eviction spends
    one attempt on each of these before it frees a slot, which is why resets
    count against `MaxEvict`.
* `LogStoreRefinement`: `StoreImplementsLog`, `LogStore` implements `AbsLog` with
  failing writes and metadata writes and resets at any step, on partitions that can
  be mounted and read.
  * A put is `Accept` or `Refuse`; the data write of a commit (`CommitStore`) is
    `Flush`, since from there on the records survive; an eviction is `Expire`, or
    nothing if the key was an orphan's; a drained tail is `HandOver`; a clear is
    `Erase` for each partition and `EraseTails`; a reset is `PowerLoss`. All else
    is a stutter.
  * `RefInv` adds to the invariants above that the partition is mounted and
    `LiveInv`: no key present is older than `oldest_key`, the partition is never
    overfull, and unless a metadata write failed at most the newest chunk is
    missing from the saved metadata. That a chunk moves whole needs the count of
    the records in it: `SortedCardinality` gets it from their order.
* `RingBufLemmas`: what put, claim and finish preserve and bound.
* `BulkStreamProofs`: every invariant of `download_safety`, and the refinement of
  `download_ends`, for every packet size, error limit, kind of failing notification
  and number of callbacks, under `~Overlap` (see section 3 for what happens
  otherwise) and `Streams`, which says that `LogStore` has downloads at all.
  * `DownloadImplementsStore`: the download takes only steps of `LogStore`. A
    packet the stack accepted is the `StreamDrain` of its records, `StartCancel`
    and `StartActivate` are `StreamCancel` and `StreamStart`, what ends a download
    (a stop, a disconnect, its LAST header, an abort) is `StreamStop` as soon as the
    handler is out of its packet, a clear's begin is `ClearBegin`; all other steps
    change nothing the stores show. The mapping hides the handler's claim
    (`Unclaimed`) until it is finished. So whatever was proved of `LogStore` holds
    under a download as well: `DownloadKeepsLog` is that for `AbsLog`, and the
    lemmas of `LogStoreProofs` are cited as `Facts!...` below.
  * `BaseInv`: the stores' `TypeInv`, the types, `ControlInv` (a start that waits
    has no download, packet or clear in its way), `PacketInv` (the packet belongs
    to the phase and, in a flash phase, is the front of the stage) and `RingInv`
    (what is claimed in an idle store is the packet's records, at the front).
  * `NumbersContiguous`: `SeqInv`, `bulk_seq` is the number of packets accepted, but
    for the moment between the acceptance and the increment. It needs `~Overlap` more
    than the others: a packet that a STOP overtook must be out of the handler before
    the next START, or its increment falls into the new numbering. `NothingIsLost` needs
    no more: what leaves the tail was in the packet on the wire.
  * `DownloadIsComplete`: `Left(s)` is what the download has still to read of a
    store: the unread keys of its snapshot, the stage, the tail. All that is owed
    is sent or left (`DueInv`), nothing is left when a LAST header is cut
    (`LastLeft`), and what was owed then is sent (`EndInv`). An entry that cannot be read is passed
    over and LAST sent all the same, hence the hypothesis on `"read"`.
  * `DownloadSendsInOrder`: while the handler reads, what is left of a store is in
    order and after every packet that `bulk_seq` has counted (`ReadInv`), the packet in
    its hands too (`PacketOrderInv`), and a tail claim is only ever lost to a clear,
    after which nothing is put until the packet is over (`HandInv`). That a
    download finds its stores in order when it starts, and its tail later, is
    `LogStore`'s `OrderInv`; with it comes the hypothesis that `zms_clear` does not fail.
    (With a failing clear TLC finds no violation on the instance of
    `download_safety` either; the order is only lost in a reset that follows, and
    resets are in `LogStore`, not in `BulkStream`.)
* `SensorControlProofs`: all invariants of `sensor_works`. `PauseAgrees`
  (`[]PausedCoherent`), `CancellationHolds` (`[]CancelHolds`), `SensorTypeCorrect`,
  `ActivePeriodEnds` (`[]ActiveEnds`) and `WatchdogNeverStops`, which
  `SensorComesBack` rests on, hold with short sessions as well;
  `SamplingGoesOn` (`[]AmbientAlive`) and `SettledIsArmed`
  (`[]ArmedWhenSettled`) without, as the hazard at line 519 shows them to fail.
  * `PendingKept` is what they share: a work leaves the queue and the timers only
    by being run or cancelled, although it may be in both or running as well.
  * `SessionInv`: a session leaves no cancellation, no pause and no stop behind
    when it ends. `LastStep` adds to `ArmedWhenSettled` that a re-initialisation at
    its last step has the sensor ranging unless the next one is due.
* `DetectionProofs`: all invariants of the run `detection_chain`, for every
  period, threshold, counter width, step of time and clock error
  (`DriftBounded`, `ClockBounded`, `EventsPast`, `DetectionTypeCorrect`).
  * `IInv` adds `Sane` (a handler that persists has an event, the clock is zero
    only at the very start, a chain without an event has logged nothing) and
    `RecordsSane` (every record that is prepared, passed on or stored has a carry
    below a second and a time that was not ahead when it was read). Without them
    a restored record could put the clock anywhere. What `main` found and has yet to
    put back is such a record too. `EventPast` is `StampsPast` with the steps it
    excepts: there an event ahead of the clock is the one the record names.
  * `DeltaSplits` is the arithmetic of a delta and its rest, `CrossingKeeps` what
    an event does to the chain; the steps follow from the two.
* `LinkProofs`: `WatchdogCorrect` for the watchdog alone and `FlagCorrect`,
  `StartsAreClean`, `SpinCorrect`, `UnpairCorrect` and `SpinIsEnded` for the
  composition, each of the run's invariants, under `SlowPeer` and, for the
  intervals, `WatchdogAssumption`: heartbeat plus latency before feed, boot plus
  feed plus latency before timeout. Kconfig demands the order; the latencies say
  how much of it must be left over.
  * `WatchdogInv` relates the ages: a bit that is set is younger than the last
    feed, one that is not, without a jam, means the feed was not after the
    heartbeat. Only with both can the feed be shown to find the bit set.
  * `LinkInv` says who holds the object in which state of the link, when
    `adv_work` is queued, and that spinning is what the watchdog sees as stuck;
    `LinkTypeOK` is the third part of the invariant, `Inv`.
* `ScheduleProofs`: `HoursCorrect` at every second, `NothingSleptThrough`,
  `ScheduleSurvives`, `ScheduleTypeCorrect`, for every cap, latency and clock.
  `IInv` has `Steady`: unless somebody is about to wake the work, all seconds
  until it is due have the hours that the power agrees with. It follows from
  `SleepIsSteady`: from any second to the next transition, weekends included, the
  hours do not change.

Only model-checked: the liveness properties (`FullTailDrains`, `StreamEnds`,
`SensorComesBack`, `AdvertisesAgain`, `AdvertisesOnRequest`), since fairness and
ENABLED are outside the prover. Every invariant of a passing run is a theorem, and
so are both refinements, each under the hypotheses named.

## 5. Not modelled

* Byte layout and parsing of packets and flash records, the ZMS and ring buffer
  internals, I2C errors (they end in `error_fatal`), measured values, and what
  still runs in the two seconds before `error_fatal` locks interrupts.
* Connection intervals: `update_interval_work` and the commands that ask for
  them. The delayed command holds no reference to the stream or the peer it was
  given for, so it may meet the next one; nothing of the state modelled here
  depends on it. The pairing dialogue, and how `adv_param_set` chooses the length
  of a window.
* A schedule setting that fails to load or is corrupt (the code keeps its
  defaults), and a watchdog driver that cannot be disabled beyond `Fatal` leaving
  it on or off.
* Detections lost because a packet the stack accepted is lost with the link:
  nothing is acknowledged, so no property of this code could hold.
* The vendored VL53L4CD driver is register access without a protocol of its own.
  `azss_client.py` runs on the user's computer, and nothing the device does
  depends on its queue.

## 6. Plan

1. Connection intervals, with the delayed command that outlives its peer.
2. `SensorControl` with `Schedule` for its openings and closings.
3. `DownloadSendsInOrder` without the hypothesis on `zms_clear`, from an `OrderInv`
   that does not speak of what a reset would restore; power losses inside a download.
