------------------------------ MODULE Schedule ------------------------------
(***************************************************************************)
(* The working hours: is_business_hours, the sleep until they change,      *)
(* schedule_work_handler, the commands that set them and the setting that  *)
(* outlives a reset.                                                       *)
(*                                                                         *)
(* Times are seconds; the handler runs on the system queue, at most        *)
(* Latency late, and reads the clock twice: once to see whether the sensor *)
(* should be on, once to see how long to sleep.  A peer may write a command*)
(* or the time in between.                                                 *)
(*                                                                         *)
(* Left out: what the handler does to the sensor when the hours change     *)
(* (module SensorControl), and how the clock outlives a reset (module      *)
(* Detection; here it may read anything afterwards).                       *)
(***************************************************************************)
EXTENDS Integers

CONSTANTS
  MaxSleep,    \* SCHEDULE_MAX_SLEEP_MS, in seconds
  Latency,     \* how late the handler, and each of its steps, may be
  Steps,       \* how far time goes on while the work sleeps
  Clocks,      \* what the clock may be set to, by a peer or by a reset
  MaxTime, MaxLate, MaxEvents  \* bounds for TLC

ASSUME ScheduleAssumption ==
  /\ MaxSleep \in Nat \ {0}
  /\ Latency \in Nat
  /\ {MaxTime, MaxLate, MaxEvents} \subseteq Nat
  /\ Steps \subseteq Nat \ {0}
  /\ Clocks \subseteq Nat

VARIABLES
  t,         \* get_current_timestamp() / 1000
  preset,    \* sched.active_schedule
  weekends,  \* sched.weekends_disabled
  off,       \* sched.vl53_sched_off
  stored,    \* the setting in flash
  saving,    \* a command has changed the schedule and saves it
  due,       \* when schedule_work runs next, 0 if it is submitted
  late,      \* how long it, or its handler, has been kept waiting
  checked,   \* the handler has called is_business_hours
  should,    \* should_be_active
  again,     \* the work was submitted while it ran
  \* What the properties need to know of the past.
  straddled, \* the hours changed between the handler's two looks at the clock
  failed,    \* the last save failed
  slips, events

work == <<due, late, checked, should, again, straddled>>
settings == <<preset, weekends>>
vars == <<t, settings, off, stored, saving, work, failed, slips, events>>

-----------------------------------------------------------------------------
\* schedule_hours, in seconds
Hour == 3600
Day == 24 * Hour

Presets == {"8_16", "8_18", "9_21", "disabled"}
StartOf(p) == Hour * (IF p = "9_21" THEN 9 ELSE IF p = "disabled" THEN 0 ELSE 8)
EndOf(p) ==
  Hour * (IF p = "8_16" THEN 16 ELSE IF p = "8_18" THEN 18 ELSE IF p = "9_21" THEN 21 ELSE 24)

-----------------------------------------------------------------------------
(***************************************************************************)
(* Faulty variants: each is substituted for the definition it is named     *)
(* after to see which property notices the mistake.                        *)
(***************************************************************************)
IsWeekendFromSunday(x) == ((x \div Day) % 7) \in {0, 6}
SleepUncapped(x, p) ==
  IF x % Day < StartOf(p) THEN StartOf(p) - (x % Day)
  ELSE IF x % Day < EndOf(p) THEN EndOf(p) - (x % Day)
  ELSE Day + StartOf(p) - (x % Day)
NextOpening(x, p) ==
  LET day == x - (x % Day) IN
  IF x % Day < StartOf(p) THEN day + StartOf(p) ELSE day + Day + StartOf(p)
SettingPresetOnly == [stored EXCEPT !.preset = preset]
-----------------------------------------------------------------------------
\* The first of January 1970 was a Thursday.
IsWeekend(x) == (((x \div Day) + 4) % 7) \in {0, 6}

\* is_business_hours
HoursOf(x, p, w) ==
  /\ ~(w /\ IsWeekend(x))
  /\ ((x % Day) \div Hour) * Hour >= StartOf(p)
  /\ ((x % Day) \div Hour) * Hour < EndOf(p)

Hours(x) == HoursOf(x, preset, weekends)

\* ms_until_next_transition: today's start, today's end or tomorrow's start.
NextTransition(x, p) ==
  LET day == x - (x % Day) IN
  IF x % Day < StartOf(p) THEN day + StartOf(p)
  ELSE IF x % Day < EndOf(p) THEN day + EndOf(p)
  ELSE day + Day + StartOf(p)

AtMost(n, max) == IF n < max THEN n ELSE max
Sleep(x, p) == AtMost(NextTransition(x, p) - x, MaxSleep)

\* save_schedule_settings
Setting == [preset |-> preset, weekends |-> weekends]

-----------------------------------------------------------------------------
\* A device that has been set up before, as it starts.
Init ==
  /\ t \in Clocks
  /\ stored \in [preset : Presets, weekends : BOOLEAN]
  /\ preset = stored.preset /\ weekends = stored.weekends
  /\ off = FALSE /\ saving = FALSE
  /\ due = 0 /\ late = 0 /\ checked = FALSE /\ should = FALSE /\ again = FALSE
  /\ straddled = FALSE /\ failed = FALSE
  /\ slips = 0 /\ events = 0

\* Time goes on while the work sleeps, or while it is kept waiting.
Sleeps(d) ==
  /\ due > 0 /\ ~checked
  /\ d <= due /\ t + d <= MaxTime
  /\ t' = t + d /\ due' = due - d
  /\ UNCHANGED <<settings, off, stored, saving, late, checked, should, again, straddled,
                 failed, slips, events>>

Waits(d) ==
  /\ due = 0 \/ checked
  /\ slips < MaxLate /\ late + d <= Latency
  /\ t' = t + d /\ late' = late + d
  /\ slips' = slips + 1
  /\ UNCHANGED <<settings, off, stored, saving, due, checked, should, again, straddled, failed,
                 events>>

(***************************************************************************)
(* schedule_work_handler.                                                  *)
(***************************************************************************)
Checks ==
  /\ due = 0 /\ ~checked
  /\ checked' = TRUE /\ should' = Hours(t)
  /\ late' = 0
  /\ UNCHANGED <<t, settings, off, stored, saving, due, again, straddled, failed, slips, events>>

\* Power as the first look said, sleep as the second one says; a work submitted
\* meanwhile runs again at once.
Settles ==
  /\ checked
  /\ checked' = FALSE /\ late' = 0 /\ again' = FALSE
  /\ off' = ~should
  /\ due' = IF again THEN 0 ELSE Sleep(t, preset)
  /\ straddled' = (should # Hours(t) /\ ~again)
  /\ UNCHANGED <<t, settings, stored, saving, should, failed, slips, events>>

\* k_work_reschedule(&schedule_work, K_NO_WAIT)
Reschedules ==
  IF checked
    THEN again' = TRUE /\ UNCHANGED <<due, late>>
    ELSE /\ due' = 0
         /\ late' = (IF due = 0 THEN late ELSE 0)
         /\ UNCHANGED again

(***************************************************************************)
(* The peer: a command and its two steps, and the time.                    *)
(***************************************************************************)
Command(p, w) ==
  /\ ~saving /\ events < MaxEvents
  /\ preset' = p /\ weekends' = w
  /\ saving' = TRUE
  /\ events' = events + 1
  /\ UNCHANGED <<t, off, stored, work, failed, slips>>

PresetCommand == \E p \in Presets : Command(p, weekends)
WeekendCommand == \E w \in BOOLEAN : Command(preset, w)

\* The result of the save is ignored.
Saves ==
  /\ saving
  /\ saving' = FALSE
  /\ \/ stored' = Setting /\ failed' = FALSE
     \/ stored' = stored /\ failed' = TRUE
  /\ Reschedules
  /\ UNCHANGED <<t, settings, off, checked, should, straddled, slips, events>>

\* set_real_time and time_changed_cb
SetTime(x) ==
  /\ ~saving /\ events < MaxEvents
  /\ t' = x
  /\ Reschedules
  /\ events' = events + 1
  /\ UNCHANGED <<settings, off, stored, saving, checked, should, straddled, failed, slips>>

\* The settings are loaded before the schedule first runs.
Reset(x) ==
  /\ events < MaxEvents
  /\ t' = x
  /\ preset' = stored.preset /\ weekends' = stored.weekends
  /\ off' = FALSE /\ saving' = FALSE
  /\ due' = 0 /\ late' = 0 /\ checked' = FALSE /\ should' = FALSE /\ again' = FALSE
  /\ straddled' = FALSE /\ failed' = FALSE
  /\ events' = events + 1
  /\ UNCHANGED <<stored, slips>>

-----------------------------------------------------------------------------
Next ==
  \/ (\E d \in Steps \union {due} : Sleeps(d)) \/ (\E d \in 1..Latency : Waits(d))
  \/ Checks \/ Settles
  \/ PresetCommand \/ WeekendCommand \/ Saves
  \/ (\E x \in Clocks : SetTime(x) \/ Reset(x))

Spec == Init /\ [][Next]_vars

-----------------------------------------------------------------------------
\* Every variable has its type, and nobody sleeps longer than allowed.
ScheduleTypeOK ==
  /\ {t, late, slips, events} \subseteq Nat
  /\ due \in 0..MaxSleep
  /\ preset \in Presets
  /\ {weekends, off, saving, checked, should, again, straddled, failed} \subseteq BOOLEAN
  /\ stored \in [preset : Presets, weekends : BOOLEAN]

\* A calendar: day 0 is a Thursday, so Saturdays leave the rest 2, Sundays 3; the
\* sensor works from the start to the end of the preset.
Calendar(x) ==
  \E day \in {x \div Day} :
    /\ weekends => day % 7 \notin {2, 3}
    /\ x - Day * day \in StartOf(preset)..(EndOf(preset) - 1)

\* is_business_hours, which rounds to hours and counts days its own way, agrees
\* with the calendar.
HoursMatchCalendar == Hours(t) <=> Calendar(t)

\* No opening and no closing is slept through.  The sensor's power agrees with
\* the hours unless the handler is about to run; a handler that has looked just
\* before the change and slept on what it saw just after is wrong, for the
\* longest sleep at most.  Weekends begin and end with a sleep in between, too,
\* although ms_until_next_transition knows nothing of them.
RightOrDue ==
  \/ off # Hours(t)
  \/ due = 0 \/ checked \/ saving
  \/ straddled

\* A schedule that was set outlives a reset unless it could not be saved.
Durable == ~saving /\ ~failed => stored.preset = preset /\ stored.weekends = weekends
=============================================================================
