---------------------------- MODULE ScheduleProofs ----------------------------
(***************************************************************************)
(* The hours are right at every second there is, and no change of them is  *)
(* slept through, however late the handler and wherever the clock is set.  *)
(***************************************************************************)
EXTENDS Schedule, TLAPS

\* A sleep ends before the hours change: what RightOrDue needs to know of the
\* seconds that are still to be slept.
Steady ==
  ~checked /\ due > 0 /\ ~saving /\ ~straddled =>
    off # Hours(t) /\ \A u \in t..(t + due - 1) : Hours(u) = Hours(t)

IInv == ScheduleTypeOK /\ Steady /\ Durable

-----------------------------------------------------------------------------
LEMMA Divides ==
  ASSUME NEW n \in Nat, NEW k \in Nat, k > 0
  PROVE  n = k * (n \div k) + (n % k) /\ n % k \in 0..(k - 1) /\ n \div k \in Nat
<1>1. n = k * (n \div k) + (n % k)
  OBVIOUS
<1>2. n % k \in 0..(k - 1)
  OBVIOUS
<1>3. n \div k \in Nat
  OBVIOUS
<1> QED
  BY <1>1, <1>2, <1>3

LEMMA Lengths == Hour \in Nat /\ Hour > 0 /\ Day \in Nat /\ Day > 0 /\ Day = 24 * Hour
<1>1. Hour \in Nat /\ Hour > 0
  BY DEF Hour
<1>2. Day = 24 * Hour
  BY DEF Day
<1> QED
  BY <1>1, <1>2

LEMMA DayDivides ==
  ASSUME NEW n \in Nat
  PROVE  /\ n = Day * (n \div Day) + (n % Day)
         /\ n % Day \in Nat /\ n % Day < Day
         /\ n \div Day \in Nat
  BY Lengths, Divides

LEMMA DayIsUnique ==
  ASSUME NEW n \in Nat, NEW d \in Nat, n - Day * d \in 0..(Day - 1)
  PROVE  n \div Day = d /\ n % Day = n - Day * d
<1>1. n \div Day = d
  BY Lengths, DayDivides, SMTT(30)
<1> QED
  BY <1>1, DayDivides, Lengths

\* Rounding down to hours does not matter: the presets are whole hours.
LEMMA HourRounds ==
  ASSUME NEW n \in Nat, NEW h \in Nat
  PROVE  (n \div Hour) * Hour >= Hour * h <=> n >= Hour * h
<1> DEFINE q == n \div Hour
<1>1. q \in Nat /\ n = Hour * q + (n % Hour) /\ n % Hour \in 0..(Hour - 1)
  BY Lengths, Divides
<1>2. n >= Hour * q /\ n < Hour * q + Hour
  BY <1>1, Lengths
<1>3. CASE q >= h
  <2>1. Hour * q >= Hour * h
    BY <1>1, <1>3, Lengths
  <2> QED
    BY <1>1, <1>2, <2>1, Lengths
<1>4. CASE q + 1 <= h
  <2>1. Hour * (q + 1) <= Hour * h
    BY <1>1, <1>4, Lengths
  <2>2. Hour * q + Hour <= Hour * h
    BY <1>1, <2>1, Lengths
  <2> QED
    BY <1>1, <1>2, <2>2, Lengths
<1> QED
  BY <1>1, <1>3, <1>4

LEMMA PresetsAreHours ==
  ASSUME NEW p \in Presets
  PROVE  /\ \E a \in Nat, b \in Nat : StartOf(p) = Hour * a /\ EndOf(p) = Hour * b
         /\ StartOf(p) \in Nat /\ EndOf(p) \in Nat
         /\ StartOf(p) < EndOf(p) /\ EndOf(p) <= Day
<1>1. \E a \in {0, 8, 9}, b \in {16, 18, 21, 24} : StartOf(p) = Hour * a /\ EndOf(p) = Hour * b
  BY DEF StartOf, EndOf, Presets
<1> QED
  BY <1>1, Lengths

\* What is_business_hours computes, without its rounding.
LEMMA OpenIffBetween ==
  ASSUME NEW x \in Nat, NEW p \in Presets, NEW w \in BOOLEAN
  PROVE  HoursOf(x, p, w) <=> /\ ~(w /\ IsWeekend(x))
                              /\ x % Day >= StartOf(p)
                              /\ x % Day < EndOf(p)
<1> DEFINE s == x % Day
<1>1. s \in Nat
  BY DayDivides
<1>2. PICK a \in Nat, b \in Nat : StartOf(p) = Hour * a /\ EndOf(p) = Hour * b
  BY PresetsAreHours
<1>3. (s \div Hour) * Hour >= StartOf(p) <=> s >= StartOf(p)
  BY <1>1, <1>2, HourRounds
<1>4. (s \div Hour) * Hour >= EndOf(p) <=> s >= EndOf(p)
  BY <1>1, <1>2, HourRounds
<1>5. (s \div Hour) * Hour \in Nat /\ EndOf(p) \in Nat
  BY <1>1, <1>2, Divides, Lengths
<1>6. (s \div Hour) * Hour < EndOf(p) <=> s < EndOf(p)
  BY <1>1, <1>4, <1>5
<1> QED
  BY <1>3, <1>6 DEF HoursOf

-----------------------------------------------------------------------------
\* The hours do not change before the end of a sleep, weekends or not.
LEMMA SleepIsSteady ==
  ASSUME ScheduleAssumption, NEW x \in Nat, NEW p \in Presets, NEW w \in BOOLEAN,
         NEW u \in Nat, u >= x, u < NextTransition(x, p)
  PROVE  HoursOf(u, p, w) = HoursOf(x, p, w)
<1> DEFINE d == x \div Day
           s == x % Day
<1>1. d \in Nat /\ s \in Nat /\ s < Day /\ x = Day * d + s
  BY DayDivides
<1>2. /\ StartOf(p) \in Nat /\ EndOf(p) \in Nat /\ StartOf(p) < EndOf(p)
        /\ EndOf(p) <= Day /\ Day \in Nat /\ Day > 0
  BY PresetsAreHours, Lengths
<1>3. HoursOf(u, p, w) \in BOOLEAN /\ HoursOf(x, p, w) \in BOOLEAN
  BY DEF HoursOf
<1>4. CASE s < StartOf(p)
  <2>1. u - Day * d \in 0..(Day - 1) /\ u - Day * d < StartOf(p)
    BY <1>1, <1>2, <1>4 DEF NextTransition
  <2>2. u % Day < StartOf(p) /\ u % Day \in Nat
    BY <1>1, <2>1, DayIsUnique
  <2> QED
    BY <1>1, <1>2, <1>3, <1>4, <2>2, OpenIffBetween
<1>5. CASE s >= StartOf(p) /\ s < EndOf(p)
  <2>1. u - Day * d \in 0..(Day - 1) /\ u - Day * d < EndOf(p) /\ u - Day * d >= StartOf(p)
    BY <1>1, <1>2, <1>5 DEF NextTransition
  <2>2. u \div Day = d /\ u % Day >= StartOf(p) /\ u % Day < EndOf(p)
    BY <1>1, <2>1, DayIsUnique
  <2>3. IsWeekend(u) <=> IsWeekend(x)
    BY <2>2 DEF IsWeekend
  <2> QED
    BY <1>3, <1>5, <2>2, <2>3, OpenIffBetween
<1>6. CASE s >= EndOf(p)
  <2>1. u < Day * d + Day + StartOf(p) /\ u >= Day * d + s
    BY <1>1, <1>2, <1>6 DEF NextTransition
  <2>2. ~HoursOf(x, p, w)
    BY <1>1, <1>2, <1>6, OpenIffBetween
  <2>3. CASE u < Day * d + Day
    <3>1. u - Day * d \in 0..(Day - 1) /\ u - Day * d >= EndOf(p)
      BY <1>1, <1>2, <1>6, <2>1, <2>3
    <3>2. u % Day >= EndOf(p) /\ u % Day \in Nat
      BY <1>1, <3>1, DayIsUnique
    <3> QED
      BY <1>2, <1>3, <2>2, <3>2, OpenIffBetween
  <2>4. CASE u >= Day * (d + 1)
    <3>1. u - Day * (d + 1) \in 0..(Day - 1) /\ u - Day * (d + 1) < StartOf(p) /\ d + 1 \in Nat
      BY <1>1, <1>2, <2>1, <2>4
    <3>2. u % Day < StartOf(p) /\ u % Day \in Nat
      BY <3>1, DayIsUnique
    <3> QED
      BY <1>2, <1>3, <2>2, <3>2, OpenIffBetween
  <2>5. Day * (d + 1) = Day * d + Day /\ Day * d \in Nat
    BY <1>1, <1>2
  <2> QED
    BY <1>2, <2>3, <2>4, <2>5
<1> QED
  BY <1>1, <1>2, <1>4, <1>5, <1>6

\* A sleep takes a second at least and MaxSleep at most.
LEMMA SleepIsBounded ==
  ASSUME ScheduleAssumption, NEW x \in Nat, NEW p \in Presets
  PROVE  /\ Sleep(x, p) \in 1..MaxSleep
         /\ NextTransition(x, p) \in Nat /\ x + Sleep(x, p) <= NextTransition(x, p)
<1> DEFINE d == x \div Day
           s == x % Day
<1>1. d \in Nat /\ s \in Nat /\ s < Day /\ x = Day * d + s
  BY DayDivides
<1>2. /\ StartOf(p) \in Nat /\ EndOf(p) \in Nat /\ StartOf(p) < EndOf(p)
        /\ EndOf(p) <= Day /\ Day \in Nat /\ Day > 0
  BY PresetsAreHours, Lengths
<1>3. NextTransition(x, p) \in Nat /\ NextTransition(x, p) > x
  BY <1>1, <1>2 DEF NextTransition
<1> QED
  BY <1>3 DEF Sleep, AtMost, ScheduleAssumption

-----------------------------------------------------------------------------
LEMMA TypeStep ==
  ASSUME ScheduleAssumption, ScheduleTypeOK, [Next]_vars
  PROVE  ScheduleTypeOK'
<1> USE DEF ScheduleTypeOK, settings
<1>1. ASSUME NEW d \in Steps \union {due}, Sleeps(d) PROVE ScheduleTypeOK'
  BY <1>1 DEF Sleeps, ScheduleAssumption
<1>2. ASSUME NEW d \in 1..Latency, Waits(d) PROVE ScheduleTypeOK'
  BY <1>2 DEF Waits, ScheduleAssumption
<1>3. CASE Checks
  <2>1. Hours(t) \in BOOLEAN
    BY DEF Hours, HoursOf
  <2> QED
    BY <1>3, <2>1 DEF Checks
<1>4. CASE Settles
  <2>1. Sleep(t, preset) \in 0..MaxSleep
    BY SleepIsBounded
  <2>2. {weekends', off', saving', checked', should', again', straddled', failed'} \subseteq BOOLEAN
    BY <1>4, Zenon DEF Settles
  <2> QED
    BY <1>4, <2>1, <2>2 DEF Settles, ScheduleAssumption
<1>5. CASE PresetCommand \/ WeekendCommand
  <2>1. {weekends', off', saving', checked', should', again', straddled', failed'} \subseteq BOOLEAN
    BY <1>5, Zenon DEF PresetCommand, WeekendCommand, Command, work
  <2> QED
    BY <1>5, <2>1 DEF PresetCommand, WeekendCommand, Command, work
<1>6. CASE Saves
  <2>1. Setting \in [preset : Presets, weekends : BOOLEAN]
    BY DEF Setting
  <2>2. {weekends', off', saving', checked', should', again', straddled', failed'} \subseteq BOOLEAN
    BY <1>6, Zenon DEF Saves, Reschedules
  <2>3. stored' \in [preset : Presets, weekends : BOOLEAN]
    BY <1>6, <2>1 DEF Saves
  <2> QED
    BY <1>6, <2>2, <2>3 DEF Saves, Reschedules, ScheduleAssumption
<1>7. ASSUME NEW x \in Clocks, SetTime(x) PROVE ScheduleTypeOK'
  <2>1. {weekends', off', saving', checked', should', again', straddled', failed'} \subseteq BOOLEAN
    BY <1>7, Zenon DEF SetTime, Reschedules
  <2> QED
    BY <1>7, <2>1 DEF SetTime, Reschedules, ScheduleAssumption
<1>8. ASSUME NEW x \in Clocks, Reset(x) PROVE ScheduleTypeOK'
  <2>1. stored.preset \in Presets /\ stored.weekends \in BOOLEAN
    OBVIOUS
  <2>2. {weekends', off', saving', checked', should', again', straddled', failed'} \subseteq BOOLEAN
    BY <1>8, <2>1, Zenon DEF Reset
  <2> QED
    BY <1>8, <2>1, <2>2 DEF Reset, ScheduleAssumption
<1>9. CASE UNCHANGED vars
  BY <1>9 DEF vars, work
<1> QED
  BY <1>1, <1>2, <1>3, <1>4, <1>5, <1>6, <1>7, <1>8, <1>9 DEF Next

LEMMA SteadyStep ==
  ASSUME ScheduleAssumption, ScheduleTypeOK, Steady, [Next]_vars
  PROVE  Steady'
<1> USE DEF ScheduleTypeOK, settings, Hours
<1>1. ASSUME NEW d \in Steps \union {due}, Sleeps(d) PROVE Steady'
  <2>1. t' = t + d /\ due' = due - d /\ d \in Nat /\ due \in Nat
    <3>1. t' = t + d /\ due' = due - d
      BY <1>1 DEF Sleeps
    <3>2. Steps \subseteq Nat /\ due \in Nat
      BY DEF ScheduleAssumption
    <3> QED
      BY <3>1, <3>2
  <2>2. UNCHANGED <<preset, weekends, off, saving, checked, straddled>>
    BY <1>1 DEF Sleeps
  <2>3. SUFFICES ASSUME ~checked, due > 0, due' > 0, ~saving, ~straddled
                 PROVE  /\ off # HoursOf(t + d, preset, weekends)
                        /\ \A u \in (t + d)..(t + due - 1) :
                             HoursOf(u, preset, weekends) = HoursOf(t + d, preset, weekends)
    BY <2>1, <2>2 DEF Steady
  <2>4. off # HoursOf(t, preset, weekends) /\ \A u \in t..(t + due - 1) :
          HoursOf(u, preset, weekends) = HoursOf(t, preset, weekends)
    BY <2>3 DEF Steady
  <2> QED
    BY <2>1, <2>3, <2>4
<1>2. ASSUME NEW d \in 1..Latency, Waits(d) PROVE Steady'
  BY <1>2 DEF Waits, Steady
<1>3. CASE Checks
  BY <1>3 DEF Checks, Steady
<1>4. CASE Settles
  <2>1. t' = t /\ preset' = preset /\ weekends' = weekends /\ off' = ~should
    BY <1>4 DEF Settles
  <2>2. SUFFICES ASSUME due' > 0, ~straddled'
                 PROVE  /\ off' # HoursOf(t, preset, weekends)
                        /\ \A u \in t..(t + due' - 1) :
                             HoursOf(u, preset, weekends) = HoursOf(t, preset, weekends)
    BY <2>1 DEF Steady
  <2>3. ~again /\ due' = Sleep(t, preset)
    BY <1>4, <2>2 DEF Settles
  <2>4. should = HoursOf(t, preset, weekends)
    BY <1>4, <2>2, <2>3 DEF Settles
  <2>5. off' # HoursOf(t, preset, weekends)
    BY <2>1, <2>4
  <2>6. t + due' <= NextTransition(t, preset) /\ due' \in Nat /\ NextTransition(t, preset) \in Int
    BY <2>3, SleepIsBounded DEF ScheduleAssumption
  <2> QED
    BY <2>5, <2>6, SleepIsSteady
<1>5. CASE PresetCommand \/ WeekendCommand
  BY <1>5 DEF PresetCommand, WeekendCommand, Command, Steady
<1>6. CASE Saves
  BY <1>6 DEF Saves, Reschedules, Steady
<1>7. ASSUME NEW x \in Clocks, SetTime(x) PROVE Steady'
  BY <1>7 DEF SetTime, Reschedules, Steady
<1>8. ASSUME NEW x \in Clocks, Reset(x) PROVE Steady'
  BY <1>8 DEF Reset, Steady
<1>9. CASE UNCHANGED vars
  BY <1>9 DEF vars, work, Steady
<1> QED
  BY <1>1, <1>2, <1>3, <1>4, <1>5, <1>6, <1>7, <1>8, <1>9 DEF Next

LEMMA DurableStep ==
  ASSUME Durable, [Next]_vars
  PROVE  Durable'
  BY DEF Next, Sleeps, Waits, Checks, Settles, PresetCommand, WeekendCommand, Command, Saves,
     SetTime, Reset, Setting, settings, vars, work, Durable

LEMMA IInvHolds == Spec => []IInv
<1>1. Init => IInv
  <2> SUFFICES ASSUME Init PROVE IInv
    OBVIOUS
  <2>1. preset \in Presets /\ weekends \in BOOLEAN
    BY DEF Init
  <2>2. {weekends, off, saving, checked, should, again, straddled, failed} \subseteq BOOLEAN
    BY <2>1, Zenon DEF Init
  <2> QED
    BY <2>1, <2>2, ScheduleAssumption
    DEF Init, IInv, ScheduleTypeOK, Steady, Durable, ScheduleAssumption
<1>2. IInv /\ [Next]_vars => IInv'
  BY ScheduleAssumption, TypeStep, SteadyStep, DurableStep DEF IInv
<1> QED
  BY <1>1, <1>2, PTL DEF Spec

-----------------------------------------------------------------------------
\* The schedule's variables keep their types, and schedule_work_handler never
\* sleeps longer than SCHEDULE_MAX_SLEEP_MS.
THEOREM ScheduleTypeCorrect == Spec => []ScheduleTypeOK
  BY IInvHolds, PTL DEF IInv

\* is_business_hours agrees with the calendar at every second.
THEOREM HoursCorrect == Spec => []HoursMatchCalendar
<1>1. ScheduleTypeOK => HoursMatchCalendar
  <2> SUFFICES ASSUME ScheduleTypeOK PROVE HoursMatchCalendar
    OBVIOUS
  <2> DEFINE d == t \div Day
  <2>1. t \in Nat /\ preset \in Presets /\ weekends \in BOOLEAN
    BY DEF ScheduleTypeOK
  <2>2. d \in Nat /\ t - Day * d = t % Day /\ t % Day \in Nat
    <3>1. t = Day * d + (t % Day) /\ d \in Nat /\ t % Day \in Nat
      BY <2>1, DayDivides
    <3>2. Day * d \in Nat
      BY <3>1, Lengths
    <3> QED
      BY <2>1, <3>1, <3>2
  <2>3. StartOf(preset) \in Nat /\ EndOf(preset) \in Nat
    BY <2>1, PresetsAreHours
  <2>4. IsWeekend(t) <=> d % 7 \in {2, 3}
    BY <2>2 DEF IsWeekend
  <2>5. t % Day \in StartOf(preset)..(EndOf(preset) - 1)
          <=> t % Day >= StartOf(preset) /\ t % Day < EndOf(preset)
    BY <2>2, <2>3
  <2> QED
    BY <2>1, <2>2, <2>4, <2>5, OpenIffBetween DEF HoursMatchCalendar, Calendar, Hours
<1> QED
  BY <1>1, ScheduleTypeCorrect, PTL

\* schedule_work_handler sleeps through no opening and no closing, whatever the
\* clock is set to and whichever preset and weekends a peer chooses.
THEOREM NothingSleptThrough == Spec => []RightOrDue
<1>1. IInv => RightOrDue
  BY ScheduleAssumption DEF IInv, ScheduleTypeOK, Steady, RightOrDue
<1> QED
  BY <1>1, IInvHolds, PTL

\* What a peer set is in flash once the command is done, if it could be saved.
THEOREM ScheduleSurvives == Spec => []Durable
  BY IInvHolds, PTL DEF IInv
=============================================================================
