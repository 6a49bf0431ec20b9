--------------------------- MODULE SensorControl ---------------------------
(***************************************************************************)
(* Who switches the VL53L4CD on and off in main.c: connections, the        *)
(* business-hours schedule, the sensor watchdog and the detection          *)
(* interrupt, which share the power pin, the interrupt line, five work     *)
(* items of the sensor queue and a handful of flags.                       *)
(*                                                                         *)
(* Threads.  The Bluetooth receive thread (Connect) and the system work    *)
(* queue (Disconnect, schedule_work, counter_work) are cooperative: their  *)
(* handlers are one step, except counter_work, which blocks on I2C.  The   *)
(* sensor queue is preemptible, so every other step may fall between two   *)
(* steps of its handlers.  The interrupt (Detect) may fall anywhere, also  *)
(* inside a cooperative handler.  A section under i2c22_mutex is one step; *)
(* the power pin is not under that mutex.                                  *)
(*                                                                         *)
(* Times are left out: a pending timer may fire at any moment.  The I2C    *)
(* bus itself never fails; a transfer fails when the chip has no power.    *)
(***************************************************************************)
EXTENDS Integers, Sequences

CONSTANT
  ShortSessions  \* TRUE: a connection may end before the sensor queue has worked
                 \* off what it had to do when the connection began

ASSUME ShortSessionsAssumption == ShortSessions \in BOOLEAN

\* The delayable works of the sensor queue, and vl53_stop_work.
Delayable == {"reinit", "watchdog", "ambient", "inactivity"}
Works == Delayable \cup {"stop"}

VARIABLES
  conn,       \* conn # NULL
  off,        \* sched.vl53_sched_off
  paused,     \* logging_paused
  apaused,    \* ambient_paused
  chip,       \* the sensor: off, boot (powered), standby (initialised), ranging
  rate,       \* the inter-measurement period the chip was last given
  line,       \* the chip holds its interrupt line active
  irq,        \* the GPIO edge interrupt is enabled
  skip,       \* next_sample_xshut
  written,    \* interval_written: the firmware takes the period to be the active one
  heard,      \* last_detection_time is later than the watchdog's last round
  timer,      \* works whose timeout is running
  queue,      \* works in the sensor queue, oldest first
  run,        \* where the running handler of the sensor queue is
  canceling,  \* running works that were cancelled (K_WORK_CANCELING)
  cqueued,    \* counter_work is in the system queue
  cpc,        \* where counter_work_handler is
  fatal       \* error_fatal was called: nothing runs any more

vars == <<conn, off, paused, apaused, chip, rate, line, irq, skip, written, heard,
          timer, queue, run, canceling, cqueued, cpc, fatal>>
flags == <<conn, off, paused, apaused>>
sensor == <<chip, rate, line>>
works == <<timer, queue, run, canceling>>
counter == <<cqueued, cpc>>

InQueue == {queue[i] : i \in DOMAIN queue}
Pending == timer \cup InQueue
ReinitSteps == {"release", "init", "enable"}
Steps == {"idle", "check", "ambient", "flag"} \cup ReinitSteps

-----------------------------------------------------------------------------
(***************************************************************************)
(* Faulty variants.  Nothing below uses them: each is substituted for the  *)
(* definition it is named after to see which property notices the mistake. *)
(***************************************************************************)
SubmittedTwice(q, w) == Append(q, w)
ResumedUnasked == FALSE
ReinitForgotten == timer
AmbientForgotten == queue
EdgeAfterCancel == chip = "ranging" /\ ~line /\ irq
PutOffOnce == IF written THEN timer \ {"inactivity"} ELSE timer \cup {"inactivity"}
WatchdogGivesUp == IF paused THEN timer ELSE timer \cup {"watchdog"}

-----------------------------------------------------------------------------
(***************************************************************************)
(* Kernel work queues, as far as the handlers use them.                    *)
(***************************************************************************)
\* Submitting a work that waits in the queue does nothing, nor does submitting
\* one whose cancelled handler has not returned.
Submitted(q, w) ==
  IF w \in InQueue \cup canceling THEN q ELSE Append(q, w)

\* Cancelling a work unlinks it; the others keep their order.
Without(q, w) ==
  LET n == CHOOSE i \in DOMAIN q : q[i] = w
  IN  IF \E i \in DOMAIN q : q[i] = w
        THEN [i \in 1 .. Len(q) - 1 |-> IF i < n THEN q[i] ELSE q[i + 1]]
        ELSE q

-----------------------------------------------------------------------------
\* What main() leaves behind: the sensor ranging, its interrupt enabled, the
\* periodic works scheduled, nobody connected.
Init ==
  /\ conn = FALSE /\ off = FALSE
  /\ paused = FALSE /\ apaused = FALSE
  /\ chip = "ranging" /\ rate = "idle" /\ line \in BOOLEAN
  /\ irq = TRUE
  /\ skip = TRUE
  /\ written = FALSE
  /\ heard = FALSE
  /\ timer = {"watchdog"}
  /\ queue = <<"ambient">>
  /\ run = "idle"
  /\ canceling = {}
  /\ cqueued = FALSE /\ cpc = "idle"
  /\ fatal = FALSE

(***************************************************************************)
(* The sensor sees something and pulls its line; it holds it until         *)
(* ClearInterrupt or a power cycle.  vl53_int_cb schedules counter_work.   *)
(***************************************************************************)
Edge == chip = "ranging" /\ ~line /\ irq

Detect ==
  /\ ~fatal
  /\ chip = "ranging" /\ ~line
  /\ line' = TRUE
  /\ cqueued' = (cqueued \/ (irq /\ "counter" \notin canceling))
  /\ UNCHANGED <<flags, chip, rate, irq, skip, written, heard, works, cpc, fatal>>

(***************************************************************************)
(* on_connected and on_disconnected.                                       *)
(***************************************************************************)
\* The interrupt is disabled before counter_work is cancelled.
CounterAfterCancel == FALSE

Connect ==
  /\ ~fatal
  /\ ~conn
  /\ conn' = TRUE
  /\ irq' = FALSE
  /\ cqueued' = CounterAfterCancel
  /\ paused' = TRUE /\ apaused' = TRUE
  /\ timer' = timer \ {"ambient"}
  /\ queue' = LET q == Without(queue, "ambient")
              IN IF off THEN q ELSE Submitted(q, "stop")
  /\ canceling' = canceling \cup {w \in {"ambient"} : run = "ambient"}
                            \cup {w \in {"counter"} : cpc # "idle"}
  /\ UNCHANGED <<off, sensor, skip, written, heard, run, cpc, fatal>>

\* k_work_reschedule with a delay: the timeout runs anew; an instance that is
\* already in the queue stays there.
ReinitRescheduled == timer \cup {"reinit"}
AmbientResumed == Submitted(queue, "ambient")

Disconnect ==
  /\ ~fatal
  /\ conn /\ cpc = "idle"
  /\ ShortSessions \/ ("stop" \notin InQueue /\ canceling = {})
  /\ conn' = FALSE
  /\ paused' = (off /\ paused)
  /\ apaused' = FALSE
  /\ timer' = (IF off THEN timer ELSE ReinitRescheduled) \ {"ambient"}
  /\ queue' = AmbientResumed
  /\ UNCHANGED <<off, sensor, irq, skip, written, heard, run, canceling, counter, fatal>>

(***************************************************************************)
(* schedule_work_handler.  Whether it is business hours now is any value.  *)
(***************************************************************************)
Resumed == conn /\ paused

ScheduleOpens ==
  /\ ~fatal
  /\ cpc = "idle"
  /\ off
  /\ off' = FALSE
  /\ chip' = IF chip = "off" THEN "boot" ELSE chip
  /\ paused' = Resumed
  /\ IF conn
       THEN UNCHANGED <<timer, queue>>
       ELSE /\ timer' = ReinitRescheduled \ {"ambient"}
            /\ queue' = AmbientResumed
  /\ UNCHANGED <<conn, apaused, rate, line, irq, skip, written, heard, run, canceling,
                 counter, fatal>>

\* counter_work is cancelled first; an edge before the interrupt is disabled, or
\* the power is cut, schedules it again.
ScheduleCloses ==
  /\ ~fatal
  /\ cpc = "idle"
  /\ ~off
  /\ off' = TRUE
  /\ paused' = TRUE
  /\ cqueued' \in {FALSE, Edge}
  /\ irq' = (conn /\ irq)
  /\ chip' = "off" /\ line' = FALSE
  /\ UNCHANGED <<conn, apaused, rate, skip, written, heard, works, cpc, fatal>>

(***************************************************************************)
(* counter_work_handler.  What it computes from the time of the detection  *)
(* is left out here.                                                       *)
(***************************************************************************)
CounterStart ==
  /\ ~fatal
  /\ cqueued /\ cpc = "idle"
  /\ cqueued' = FALSE
  /\ cpc' = "clear"
  /\ UNCHANGED <<flags, sensor, irq, skip, written, heard, works, fatal>>

\* The first sample after a power cycle is thrown away, whether the interrupt
\* could be cleared or not.
CounterSkips ==
  /\ ~fatal
  /\ cpc = "clear" /\ skip
  /\ skip' = FALSE
  /\ line' = (line /\ chip = "off")
  /\ cpc' = "idle"
  /\ canceling' = canceling \ {"counter"}
  /\ UNCHANGED <<flags, chip, rate, irq, written, heard, timer, queue, run, cqueued, fatal>>

CounterFails ==
  /\ ~fatal
  /\ cpc = "clear" /\ ~skip
  /\ chip = "off"
  /\ fatal' = TRUE
  /\ UNCHANGED <<flags, sensor, irq, skip, written, heard, works, counter>>

\* The first detection after a quiet period switches the chip to the active period;
\* every detection puts off the end of it.
PutOff == timer \cup {"inactivity"}

CounterClears ==
  /\ ~fatal
  /\ cpc = "clear" /\ ~skip
  /\ chip # "off"
  /\ line' = FALSE
  /\ timer' = PutOff
  /\ rate' = IF written THEN rate ELSE "active"
  /\ written' = TRUE
  /\ cpc' = "record"
  /\ UNCHANGED <<flags, chip, irq, skip, heard, queue, run, canceling, cqueued, fatal>>

CounterRecords ==
  /\ ~fatal
  /\ cpc = "record"
  /\ heard' = TRUE
  /\ cpc' = "idle"
  /\ canceling' = canceling \ {"counter"}
  /\ UNCHANGED <<flags, sensor, irq, skip, written, timer, queue, run, cqueued, fatal>>

CounterIdle == ~cqueued /\ cpc = "idle"

Counter ==
  CounterStart \/ CounterSkips \/ CounterFails \/ CounterClears \/ CounterRecords

(***************************************************************************)
(* The sensor queue.                                                       *)
(***************************************************************************)
TimerFires(w) ==
  /\ ~fatal
  /\ w \in timer
  /\ timer' = timer \ {w}
  /\ queue' = Submitted(queue, w)
  /\ UNCHANGED <<flags, sensor, irq, skip, written, heard, run, canceling, counter, fatal>>

\* The queue thread takes the oldest work and its handler starts.
Take(w) ==
  /\ ~fatal
  /\ run = "idle"
  /\ queue # <<>> /\ Head(queue) = w
  /\ queue' = Tail(queue)

\* The handler goes on from one step to the next.
Step(from, to) ==
  /\ ~fatal
  /\ run = from /\ run' = to

Stop ==
  /\ Take("stop")
  /\ fatal' = (chip = "off")
  /\ chip' = IF chip = "ranging" THEN "standby" ELSE chip
  /\ UNCHANGED <<flags, rate, line, irq, skip, written, heard, timer, run, canceling, counter>>

\* vl53_sched_reinit_work and VL53L4CD_user_init: a power cycle, with two sleeps of
\* 10 ms that outlast a counter_work_handler queued or under way ...
ReinitPulse ==
  /\ Take("reinit")
  /\ run' = "release"
  /\ chip' = "off" /\ line' = FALSE
  /\ UNCHANGED <<flags, rate, irq, skip, written, heard, timer, canceling, counter, fatal>>

ReinitRelease ==
  /\ Step("release", "init")
  /\ CounterIdle
  /\ chip' = IF chip = "off" THEN "boot" ELSE chip
  /\ skip' = TRUE
  /\ UNCHANGED <<flags, rate, line, irq, written, heard, timer, queue, canceling, counter,
                 fatal>>

\* ... the configuration, fatal if the chip does not answer ...
ReinitConfigure ==
  /\ Step("init", "enable")
  /\ fatal' = (chip = "off")
  /\ chip' = IF chip = "off" THEN chip ELSE "ranging"
  /\ rate' = "idle"
  /\ UNCHANGED <<flags, line, irq, skip, written, heard, timer, queue, canceling, counter>>

\* ... and the interrupt, which a line that is active already does not trigger.
ReinitEnable ==
  /\ Step("enable", "idle")
  /\ irq' = TRUE
  /\ UNCHANGED <<flags, sensor, skip, written, heard, timer, queue, canceling, counter, fatal>>

\* vl53_watchdog_work: whoever keeps the sensor quiet, the watchdog re-arms itself.
WatchdogRearmed == timer \cup {"watchdog"}

WatchdogPasses ==
  /\ Take("watchdog")
  /\ paused \/ off \/ conn
  /\ timer' = WatchdogRearmed
  /\ heard' = FALSE
  /\ UNCHANGED <<flags, sensor, irq, skip, written, run, canceling, counter, fatal>>

WatchdogLooks ==
  /\ Take("watchdog")
  /\ ~(paused \/ off \/ conn)
  /\ run' = "check"
  /\ UNCHANGED <<flags, sensor, irq, skip, written, heard, timer, canceling, counter, fatal>>

\* It acts on what it saw before.
WatchdogActs ==
  /\ Step("check", "idle")
  /\ timer' = WatchdogRearmed \ (IF heard THEN {} ELSE {"reinit"})
  /\ queue' = IF heard THEN queue ELSE Submitted(queue, "reinit")
  /\ heard' = FALSE
  /\ UNCHANGED <<flags, sensor, irq, skip, written, canceling, counter, fatal>>

InactivitySlows ==
  /\ Take("inactivity")
  /\ run' = "flag"
  /\ rate' = "idle"
  /\ UNCHANGED <<flags, chip, line, irq, skip, written, heard, timer, canceling, counter, fatal>>

InactivityFlags ==
  /\ Step("flag", "idle")
  /\ written' = FALSE
  /\ UNCHANGED <<flags, sensor, irq, skip, heard, timer, queue, canceling, counter, fatal>>

AmbientStarts ==
  /\ Take("ambient")
  /\ run' = IF apaused THEN "idle" ELSE "ambient"
  /\ UNCHANGED <<flags, sensor, irq, skip, written, heard, timer, canceling, counter, fatal>>

\* The sample was taken, or not: the next one is scheduled, unless one is.
AmbientRearms ==
  /\ Step("ambient", "idle")
  /\ timer' = IF "ambient" \in Pending \cup canceling
                THEN timer ELSE timer \cup {"ambient"}
  /\ canceling' = canceling \ {"ambient"}
  /\ UNCHANGED <<flags, sensor, irq, skip, written, heard, queue, counter, fatal>>

SensorQueue ==
  \/ Stop
  \/ ReinitPulse \/ ReinitRelease \/ ReinitConfigure \/ ReinitEnable
  \/ WatchdogPasses \/ WatchdogLooks \/ WatchdogActs
  \/ InactivitySlows \/ InactivityFlags
  \/ AmbientStarts \/ AmbientRearms

-----------------------------------------------------------------------------
Next ==
  \/ Detect
  \/ Connect \/ Disconnect
  \/ ScheduleOpens \/ ScheduleCloses
  \/ Counter
  \/ \E w \in Delayable : TimerFires(w)
  \/ SensorQueue

Spec == Init /\ [][Next]_vars

\* The kernel runs a work that is queued and a timeout that is due; nothing
\* obliges peers, the clock or people.
Fairness ==
  /\ WF_vars(Counter)
  /\ WF_vars(SensorQueue)
  /\ \A w \in Delayable : WF_vars(TimerFires(w))

FairSpec == Spec /\ Fairness

-----------------------------------------------------------------------------
\* Every variable has its type, no work is queued twice, and only a work that
\* runs is being cancelled.
SensorTypeOK ==
  /\ {conn, off, paused, apaused, line, irq, skip, written, heard, cqueued, fatal}
       \subseteq BOOLEAN
  /\ chip \in {"off", "boot", "standby", "ranging"}
  /\ rate \in {"idle", "active"}
  /\ timer \subseteq Delayable
  /\ queue \in Seq(Works)
  /\ \A i, j \in DOMAIN queue : queue[i] = queue[j] => i = j
  /\ run \in Steps
  /\ cpc \in {"idle", "clear", "record"}
  /\ canceling \subseteq {"ambient", "counter"}
  /\ "ambient" \in canceling => run = "ambient"
  /\ "counter" \in canceling => cpc # "idle"

\* logging_paused, which three handlers on two threads write, says exactly that a
\* peer is connected or the schedule has the sensor off (on_connected,
\* on_disconnected, schedule_work_handler; vl53_watchdog_work_handler reads it).
PausedCoherent == paused = (conn \/ off)

\* With no peer, ambient sampling goes on: its work is pending or will re-arm
\* itself (Kconfig, APP_SHT_READ_INTERVAL_MS), however connections interrupted it.
AmbientAlive ==
  ~fatal /\ ~conn => "ambient" \in Pending \/ run = "ambient"

\* Once the sensor queue has nothing left to do for the sensor, a device without
\* a peer and within its hours measures and listens, whatever order stops and
\* re-initialisations were queued in (on_connected, on_disconnected).
ArmedWhenSettled ==
  ~fatal /\ ~conn /\ ~off /\ run \notin ReinitSteps /\ "reinit" \notin Pending
    => chip = "ranging" /\ irq

\* The cancellation in on_connected holds: with the interrupt disabled no
\* detection handler is waiting to start during a connection.
CancelHolds == conn /\ ~irq => ~cqueued

\* An edge reaches the firmware: the line is up, or its handler is on the way.
Listening ==
  /\ chip = "ranging" /\ irq
  /\ line => cqueued \/ cpc = "clear"

\* A sensor that is deaf, because an edge was missed or a re-initialisation is
\* under way, does not stay so: the sensor watchdog brings it back unless a peer
\* or the schedule wants it off (vl53_watchdog_work_handler, Kconfig
\* APP_VL53_WATCHDOG_PERIOD_MS).
SensorComesBack == []<>(conn \/ off \/ fatal \/ Listening)

\* firmware/readme.md: the device only collects timestamp logs within the active
\* period.  No detection is recorded after the schedule has closed.
CollectsInHours == [][CounterRecords => ~off]_vars

\* The short period, and the belief that the chip has it, always have an end,
\* however detections, re-initialisations and the end of an earlier one overlap:
\* the work that takes both back is pending or at it (counter_work_handler,
\* inactivity_work_handler).
ActiveEnds ==
  ~fatal =>
    /\ rate = "active" => "inactivity" \in Pending
    /\ written => "inactivity" \in Pending \/ run = "flag"
=============================================================================
