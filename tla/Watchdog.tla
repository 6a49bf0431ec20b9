------------------------------ MODULE Watchdog ------------------------------
(***************************************************************************)
(* The hardware watchdog: a heartbeat handler on the sensor queue sets a   *)
(* bit; a feed handler on the system queue reads and clears it, and feeds  *)
(* only if it was set.  Time passes in steps of one unit; each queue runs  *)
(* what is due within its latency, unless the sensor queue is stuck.       *)
(*                                                                         *)
(* After a kernel fault interrupts are off and the watchdog stays on; after*)
(* error_fatal it has been disabled, if the driver can do that.            *)
(***************************************************************************)
EXTENDS Integers

CONSTANTS
  HeartbeatInterval, FeedInterval, Timeout,  \* WDT_*_MS
  SensorLatency, SystemLatency,  \* how late the two queues run what is due
  BootTime,                      \* from wdt_setup to the end of main
  MaxFaults                      \* bound on kernel faults

\* Kconfig: the heartbeat must come before each feed, and the feed before the
\* timeout; here with the latencies that takes.
ASSUME WatchdogAssumption ==
  /\ {HeartbeatInterval, FeedInterval, Timeout, SensorLatency, SystemLatency, BootTime,
      MaxFaults} \subseteq Nat
  /\ HeartbeatInterval + SensorLatency < FeedInterval
  /\ BootTime + FeedInterval + SystemLatency < Timeout

VARIABLES
  mode,    \* "boot", "run", "panic" (kernel fault) or "fatal" (error_fatal)
  armed,   \* the hardware timer runs
  wdt,     \* how long ago it was started or fed
  fed,     \* how long ago the feed handler ran
  beat,    \* how long ago the heartbeat handler ran
  bit,     \* wdt_bits
  stuck,   \* the sensor queue does not run
  \* What the properties need to know of the past.
  jammed,    \* it was stuck at some time since the timer was started or fed
  stuckFor,  \* how long it has been
  faults

timer == <<armed, wdt, fed, beat, bit>>
jam == <<stuck, jammed, stuckFor>>
wvars == <<mode, timer, jam, faults>>

-----------------------------------------------------------------------------
\* Faulty variants, for Feeds and BeatBits.
FeedsAnyway == TRUE
BeatForgotten == bit
-----------------------------------------------------------------------------
\* Whether the feed handler feeds, and what the heartbeat leaves in wdt_bits.
Feeds == bit
BeatBits == TRUE

\* wdt_setup, early in main.
Started(m) ==
  /\ mode' = m /\ armed' = TRUE /\ wdt' = 0
  /\ fed' = 0 /\ beat' = 0 /\ bit' = FALSE
  /\ stuck' = FALSE /\ jammed' = FALSE /\ stuckFor' = 0

WatchdogInit ==
  /\ mode = "boot" /\ armed = TRUE /\ wdt = 0
  /\ fed = 0 /\ beat = 0 /\ bit = FALSE
  /\ stuck = FALSE /\ jammed = FALSE /\ stuckFor = 0
  /\ faults = 0

\* The end of main schedules both handlers.
Booted ==
  /\ mode = "boot"
  /\ mode' = "run" /\ fed' = 0 /\ beat' = 0
  /\ UNCHANGED <<armed, wdt, bit, faults>>

\* wdt_heartbeat_sensor_work_handler
Heartbeat ==
  /\ mode = "run" /\ ~stuck
  /\ beat >= HeartbeatInterval
  /\ bit' = BeatBits /\ beat' = 0
  /\ UNCHANGED <<mode, armed, wdt, fed, jam, faults>>

\* wdt_feed_work_handler
Feed ==
  /\ mode = "run"
  /\ fed >= FeedInterval
  /\ bit' = FALSE /\ fed' = 0
  /\ IF Feeds
       THEN wdt' = 0 /\ jammed' = stuck
       ELSE UNCHANGED <<wdt, jammed>>
  /\ UNCHANGED <<mode, armed, beat, stuck, stuckFor, faults>>

\* The sensor queue gets stuck, or runs again: then what is overdue is run
\* within the queue's latency.
Sticks(b) ==
  /\ stuck' = b /\ jammed' = (jammed \/ b)
  /\ stuckFor' = IF b THEN stuckFor ELSE 0
  /\ beat' = IF stuck /\ ~b /\ beat > HeartbeatInterval THEN HeartbeatInterval ELSE beat
  /\ UNCHANGED <<armed, wdt, fed, bit>>

Jam == mode = "run" /\ Sticks(~stuck) /\ UNCHANGED <<mode, faults>>

\* k_sys_fatal_error_handler
Panic ==
  /\ mode \in {"boot", "run"} /\ faults < MaxFaults
  /\ mode' = "panic" /\ faults' = faults + 1
  /\ UNCHANGED <<timer, jam>>

\* error_fatal
Fatal ==
  /\ mode \in {"boot", "run"}
  /\ mode' = "fatal" /\ armed' \in BOOLEAN
  /\ UNCHANGED <<wdt, fed, beat, bit, jam, faults>>

\* One unit of time; none of what is due may be put off further.
Tick ==
  /\ armed /\ wdt < Timeout
  /\ mode = "boot" => wdt < BootTime
  /\ mode = "run" =>
       /\ fed < FeedInterval + SystemLatency
       /\ stuck \/ beat < HeartbeatInterval + SensorLatency
  /\ wdt' = wdt + 1
  /\ IF mode = "run"
       THEN /\ fed' = fed + 1 /\ beat' = beat + 1
            /\ stuckFor' = IF stuck THEN stuckFor + 1 ELSE 0
       ELSE UNCHANGED <<fed, beat, stuckFor>>
  /\ UNCHANGED <<mode, armed, bit, stuck, jammed, faults>>

Expired == wdt >= Timeout
Reset == armed /\ Expired /\ Started("boot") /\ UNCHANGED faults

WatchdogNext ==
  \/ (Booted /\ UNCHANGED jam) \/ Heartbeat \/ Feed \/ Jam \/ Panic \/ Fatal \/ Tick \/ Reset

WatchdogSpec == WatchdogInit /\ [][WatchdogNext]_wvars

-----------------------------------------------------------------------------
WatchdogTypeOK ==
  /\ mode \in {"boot", "run", "panic", "fatal"}
  /\ {armed, bit, stuck, jammed} \subseteq BOOLEAN
  /\ {wdt, fed, beat, stuckFor, faults} \subseteq Nat

\* The watchdog resets a device that runs only if its sensor queue was stuck:
\* a heartbeat every 45 s and a feed every 50 s are never so late, nor in such
\* an order, that a feed finds the bit unset.
NoFalseReset == mode = "run" /\ Expired => jammed

\* A sensor queue that is stuck is so for one feed interval, after which the last
\* heartbeat no longer counts, and one timeout at most.
StuckIsReset == stuckFor <= FeedInterval + SystemLatency + Timeout
=============================================================================
