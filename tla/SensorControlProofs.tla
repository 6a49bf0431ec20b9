------------------------ MODULE SensorControlProofs ------------------------
(***************************************************************************)
(* Theorems about SensorControl, for every order of handlers, timers and   *)
(* interrupts: the pause flag agrees with connection and schedule, a       *)
(* connection keeps the detection handler out, the short measurement       *)
(* period ends and the watchdog goes on, short sessions included; ambient  *)
(* sampling goes on and a settled device is armed, without them.           *)
(***************************************************************************)
EXTENDS SensorControl, TLAPS

\* The actions that touch none of the variables an argument is about.
LEMMA CounterKeepsFlags ==
  ASSUME Counter
  PROVE UNCHANGED <<flags, irq>> /\ (cqueued' => cqueued)
  BY DEF Counter, CounterStart, CounterSkips, CounterFails, CounterClears, CounterRecords,
         flags, counter, works

LEMMA SensorQueueKeepsFlags ==
  ASSUME SensorQueue
  PROVE UNCHANGED <<flags, counter>> /\ (UNCHANGED irq \/ irq' = TRUE)
<1>1. CASE Stop
  BY <1>1 DEF Stop, flags, counter
<1>2. CASE ReinitPulse \/ ReinitRelease \/ ReinitConfigure \/ ReinitEnable
  BY <1>2 DEF ReinitPulse, ReinitRelease, ReinitConfigure, ReinitEnable, flags, counter, sensor
<1>3. CASE WatchdogPasses \/ WatchdogLooks \/ WatchdogActs
  BY <1>3 DEF WatchdogPasses, WatchdogLooks, WatchdogActs, flags, counter, sensor
<1>4. CASE InactivitySlows \/ InactivityFlags \/ AmbientStarts \/ AmbientRearms
  BY <1>4 DEF InactivitySlows, InactivityFlags, AmbientStarts, AmbientRearms, flags, counter, sensor
<1> QED BY <1>1, <1>2, <1>3, <1>4 DEF SensorQueue

LEMMA TimersKeepFlags ==
  ASSUME NEW w \in Delayable, TimerFires(w)
  PROVE UNCHANGED <<flags, irq, counter>>
  BY DEF TimerFires, flags, counter

-----------------------------------------------------------------------------
\* Both facts are inductive together with the flags being Booleans.
FlagsInv ==
  /\ {conn, off, paused, irq, cqueued} \subseteq BOOLEAN
  /\ PausedCoherent
  /\ CancelHolds

LEMMA FlagsInvInit == Init => FlagsInv
  BY DEF Init, FlagsInv, PausedCoherent, CancelHolds

\* One step per handler that writes a flag; the others keep them.
LEMMA FlagsInvStep == FlagsInv /\ [Next]_vars => FlagsInv'
<1> SUFFICES ASSUME FlagsInv, [Next]_vars PROVE FlagsInv'
  OBVIOUS
<1> USE DEF FlagsInv, PausedCoherent, CancelHolds, flags, counter
<1>1. CASE Detect
  BY <1>1 DEF Detect
<1>2. CASE Connect
  BY <1>2 DEF Connect, CounterAfterCancel
<1>3. CASE Disconnect
  BY <1>3 DEF Disconnect
<1>4. CASE ScheduleOpens
  BY <1>4 DEF ScheduleOpens, Resumed
<1>5. CASE ScheduleCloses
  BY <1>5 DEF ScheduleCloses, Edge
<1>6. CASE Counter
  <2>1. cqueued' \in BOOLEAN
    BY <1>6 DEF Counter, CounterStart, CounterSkips, CounterFails, CounterClears, CounterRecords
  <2> QED BY <1>6, <2>1, CounterKeepsFlags
<1>7. CASE \E w \in Delayable : TimerFires(w)
  BY <1>7, TimersKeepFlags
<1>8. CASE SensorQueue
  <2>1. UNCHANGED <<flags, counter>>
    BY <1>8, SensorQueueKeepsFlags
  <2>2. CASE UNCHANGED irq
    BY <2>1, <2>2
  <2>3. CASE irq' = TRUE
    BY <2>1, <2>3
  <2> QED BY <1>8, <2>2, <2>3, SensorQueueKeepsFlags
<1>9. CASE UNCHANGED vars
  BY <1>9 DEF vars
<1> QED BY <1>1, <1>2, <1>3, <1>4, <1>5, <1>6, <1>7, <1>8, <1>9 DEF Next

-----------------------------------------------------------------------------
\* logging_paused always says that a peer is connected or the schedule has the
\* sensor off (on_connected, on_disconnected, schedule_work_handler).
THEOREM PauseAgrees == Spec => []PausedCoherent
<1>1. FlagsInv => PausedCoherent
  BY DEF FlagsInv
<1> QED BY FlagsInvInit, FlagsInvStep, <1>1, PTL DEF Spec

\* During a connection with the interrupt disabled no detection handler waits to
\* run (on_connected).
THEOREM CancellationHolds == Spec => []CancelHolds
<1>1. FlagsInv => CancelHolds
  BY DEF FlagsInv
<1> QED BY FlagsInvInit, FlagsInvStep, <1>1, PTL DEF Spec

-----------------------------------------------------------------------------
(***************************************************************************)
(* The queue: what the kernel's operations do to the works in it.          *)
(***************************************************************************)
Elems(q) == {q[i] : i \in DOMAIN q}
IsQueue(q) == q \in Seq(Works) /\ \A i, j \in DOMAIN q : q[i] = q[j] => i = j

\* Submitting adds the work, unless the kernel does not accept it.
LEMMA SubmittedQueue ==
  ASSUME NEW q, IsQueue(q), NEW w \in Works, w \notin Elems(q) \/ w \in InQueue \cup canceling
  PROVE  /\ IsQueue(Submitted(q, w))
         /\ Elems(Submitted(q, w)) = IF w \in InQueue \cup canceling THEN Elems(q)
                                     ELSE Elems(q) \cup {w}
<1>1. CASE w \in InQueue \cup canceling
  BY <1>1 DEF Submitted
<1>2. CASE w \notin InQueue \cup canceling
  <2>1. Submitted(q, w) = Append(q, w) /\ w \notin Elems(q)
    BY <1>2 DEF Submitted
  <2> DEFINE r == Append(q, w)
  <2>2. /\ r \in Seq(Works) /\ DOMAIN q = 1 .. Len(q) /\ DOMAIN r = 1 .. (Len(q) + 1)
        /\ Len(q) \in Nat /\ r[Len(q) + 1] = w
        /\ \A i \in 1 .. Len(q) : r[i] = q[i]
    BY DEF IsQueue
  <2> HIDE DEF r
  <2>3. IsQueue(r)
    BY <2>1, <2>2 DEF IsQueue, Elems
  <2>4. Elems(r) = Elems(q) \cup {w}
    BY <2>2 DEF Elems
  <2> QED BY <1>2, <2>1, <2>3, <2>4 DEF r
<1> QED BY <1>1, <1>2

\* The thread takes the oldest work out, and no other.
LEMMA TakenQueue ==
  ASSUME NEW q, IsQueue(q), q # <<>>
  PROVE  IsQueue(Tail(q)) /\ Head(q) \in Elems(q) /\ Elems(Tail(q)) = Elems(q) \ {Head(q)}
<1> DEFINE r == Tail(q)
<1>1. /\ r \in Seq(Works) /\ Len(q) \in Nat /\ Len(q) > 0 /\ Head(q) = q[1]
      /\ DOMAIN q = 1 .. Len(q) /\ DOMAIN r = 1 .. (Len(q) - 1)
      /\ \A i \in 1 .. (Len(q) - 1) : r[i] = q[i + 1]
  BY DEF IsQueue
<1> HIDE DEF r
<1>2. IsQueue(r)
  <2>1. ASSUME NEW i \in DOMAIN r, NEW j \in DOMAIN r, r[i] = r[j] PROVE i = j
    <3>1. i + 1 \in DOMAIN q /\ j + 1 \in DOMAIN q /\ q[i + 1] = q[j + 1]
      BY <1>1, <2>1
    <3>2. i + 1 = j + 1
      BY <3>1 DEF IsQueue
    <3> QED BY <1>1, <3>2
  <2> QED BY <1>1, <2>1 DEF IsQueue
<1>3. Head(q) \in Elems(q)
  BY <1>1 DEF Elems
<1>4. \A i \in 1 .. (Len(q) - 1) : r[i] \in Elems(q) \ {Head(q)}
  <2> TAKE i \in 1 .. (Len(q) - 1)
  <2>1. 1 \in DOMAIN q /\ i + 1 \in DOMAIN q /\ i + 1 # 1
    BY <1>1
  <2>2. q[i + 1] # q[1]
    BY <2>1 DEF IsQueue
  <2>3. q[i + 1] \in Elems(q)
    BY <2>1 DEF Elems
  <2> QED BY <1>1, <2>2, <2>3
<1>5. ASSUME NEW w \in Elems(q), w # Head(q) PROVE w \in Elems(r)
  <2>1. PICK i \in 1 .. Len(q) : q[i] = w
    BY <1>1 DEF Elems
  <2>2. i - 1 \in 1 .. (Len(q) - 1) /\ r[i - 1] = w
    BY <1>1, <1>5, <2>1
  <2> QED BY <1>1, <2>2 DEF Elems
<1>6. Elems(r) \subseteq Elems(q) \ {Head(q)}
  BY <1>1, <1>4 DEF Elems
<1> QED BY <1>2, <1>3, <1>5, <1>6 DEF r

\* Cancelling takes the work out, and no other.
LEMMA WithoutQueue ==
  ASSUME NEW q, IsQueue(q), NEW w
  PROVE  IsQueue(Without(q, w)) /\ Elems(Without(q, w)) = Elems(q) \ {w}
<1>1. CASE w \notin Elems(q)
  BY <1>1 DEF Without, Elems
<1>2. CASE w \in Elems(q)
  <2> DEFINE n == CHOOSE i \in DOMAIN q : q[i] = w
             r == Without(q, w)
  <2>1. Len(q) \in Nat /\ DOMAIN q = 1 .. Len(q) /\ \A i \in 1 .. Len(q) : q[i] \in Works
    BY DEF IsQueue
  <2>2. n \in 1 .. Len(q) /\ q[n] = w
    BY <1>2, <2>1 DEF Elems
  <2>3. r = [i \in 1 .. Len(q) - 1 |-> IF i < n THEN q[i] ELSE q[i + 1]]
    BY <1>2 DEF Without, Elems
  <2> HIDE DEF n, r
  <2>4. Len(q) - 1 \in Nat /\ \A i \in 1 .. (Len(q) - 1) : r[i] \in Works
    BY <2>1, <2>2, <2>3
  <2>5. r \in Seq(Works) /\ DOMAIN r = 1 .. (Len(q) - 1)
    BY <2>3, <2>4
  <2>6. \A i \in 1 .. (Len(q) - 1) : r[i] = IF i < n THEN q[i] ELSE q[i + 1]
    BY <2>3
  <2> DEFINE from(i) == IF i < n THEN i ELSE i + 1
  <2>a. \A i \in DOMAIN r : from(i) \in DOMAIN q /\ from(i) # n /\ r[i] = q[from(i)]
    BY <2>1, <2>2, <2>5, <2>6
  <2>b. \A i, j \in DOMAIN r : from(i) = from(j) => i = j
    BY <2>1, <2>2, <2>5
  <2> HIDE DEF from
  <2>7. IsQueue(r)
    BY <2>5, <2>a, <2>b DEF IsQueue
  <2>8. Elems(r) \subseteq Elems(q) \ {w}
    BY <2>1, <2>2, <2>a DEF Elems, IsQueue
  <2>9. ASSUME NEW x \in Elems(q), x # w PROVE x \in Elems(r)
    <3>1. PICK i \in 1 .. Len(q) : q[i] = x
      BY <2>1 DEF Elems
    <3>2. CASE i < n
      BY <2>1, <2>2, <2>5, <2>6, <3>1, <3>2 DEF Elems
    <3>3. CASE ~(i < n)
      <4>1. i - 1 \in 1 .. (Len(q) - 1) /\ ~(i - 1 < n) /\ r[i - 1] = q[i]
        BY <2>1, <2>2, <2>6, <2>9, <3>1, <3>3
      <4> QED BY <2>5, <3>1, <4>1 DEF Elems
    <3> QED BY <3>2, <3>3
  <2> QED BY <2>7, <2>8, <2>9 DEF r
<1> QED BY <1>1, <1>2

\* The step in which the handler of a pending work begins.
Handled(w) ==
  \/ w = "reinit" /\ ReinitPulse
  \/ w = "watchdog" /\ (WatchdogPasses \/ WatchdogLooks)
  \/ w = "ambient" /\ AmbientStarts
  \/ w = "inactivity" /\ InactivitySlows

\* A work that is pending stays so until its handler is taken up; only ambient
\* sampling is cancelled, when a connection begins or while one has cancelled it.
\* And only a connection has the sensor stopped.
LEMMA PendingKept ==
  ASSUME IsQueue(queue), canceling \subseteq {"ambient", "counter"}, [Next]_vars
  PROVE  /\ IsQueue(queue')
         /\ \A w \in Delayable : w \in Pending =>
              w \in Pending' \/ Handled(w) \/ (w = "ambient" /\ (conn' \/ "ambient" \in canceling))
         /\ "stop" \in InQueue' => "stop" \in InQueue \/ conn'
<1> USE DEF Pending, Delayable
<1>1. InQueue = Elems(queue) /\ InQueue' = Elems(queue') /\ Delayable \subseteq Works
  BY DEF InQueue, Elems, Works
<1>2. CASE UNCHANGED <<timer, queue>>
  BY <1>1, <1>2
<1>3. ASSUME NEW w \in Works, Take(w), timer \subseteq timer' PROVE
             /\ IsQueue(queue')
             /\ \A v \in Delayable : v \in Pending => v \in Pending' \/ v = w
             /\ "stop" \in InQueue' => "stop" \in InQueue
  <2>1. IsQueue(queue') /\ Elems(queue') = Elems(queue) \ {w}
    BY <1>3, TakenQueue DEF Take
  <2> QED BY <1>1, <1>3, <2>1
<1>4. ASSUME NEW w \in Delayable, queue' = Submitted(queue, w) PROVE
             /\ IsQueue(queue')
             /\ InQueue \subseteq InQueue' /\ InQueue' \subseteq InQueue \cup {w}
             /\ w \notin canceling => w \in InQueue'
  BY <1>1, <1>4, SubmittedQueue
<1>5. CASE Connect
  <2> DEFINE q == Without(queue, "ambient")
  <2>1. IsQueue(q) /\ Elems(q) = InQueue \ {"ambient"}
    BY <1>1, WithoutQueue
  <2>2. /\ IsQueue(Submitted(q, "stop"))
        /\ Elems(q) \subseteq Elems(Submitted(q, "stop"))
    <3>1. "stop" \in Works /\ ("stop" \notin Elems(q) \/ "stop" \in InQueue \cup canceling)
      BY <2>1 DEF Works
    <3> HIDE DEF q
    <3> QED BY <2>1, <3>1, SubmittedQueue
  <2>3. conn' /\ timer' = timer \ {"ambient"} /\ queue' \in {q, Submitted(q, "stop")}
    BY <1>5 DEF Connect
  <2> HIDE DEF q
  <2> QED BY <1>1, <2>1, <2>2, <2>3
<1>6. CASE Disconnect
  <2>1. queue' = Submitted(queue, "ambient") /\ timer \ {"ambient"} \subseteq timer'
    BY <1>6 DEF Disconnect, AmbientResumed, ReinitRescheduled
  <2> QED BY <1>4, <2>1
<1>7. CASE ScheduleOpens
  <2>1. CASE conn
    BY <1>2, <1>7, <2>1 DEF ScheduleOpens
  <2>2. CASE ~conn
    <3>1. queue' = Submitted(queue, "ambient") /\ timer \ {"ambient"} \subseteq timer'
      BY <1>7, <2>2 DEF ScheduleOpens, AmbientResumed, ReinitRescheduled
    <3> QED BY <1>4, <3>1
  <2> QED BY <2>1, <2>2
<1>8. ASSUME NEW w \in Delayable, TimerFires(w) PROVE
             /\ IsQueue(queue')
             /\ \A v \in Delayable : v \in Pending =>
                  v \in Pending' \/ (v = "ambient" /\ "ambient" \in canceling)
             /\ "stop" \in InQueue' => "stop" \in InQueue
  <2>1. queue' = Submitted(queue, w) /\ timer' = timer \ {w}
    BY <1>8 DEF TimerFires
  <2> QED BY <1>4, <2>1
<1>9. CASE WatchdogActs
  <2>1. CASE heard
    BY <1>1, <1>9, <2>1 DEF WatchdogActs, WatchdogRearmed
  <2>2. CASE ~heard
    <3>1. queue' = Submitted(queue, "reinit") /\ timer \ {"reinit"} \subseteq timer'
      BY <1>9, <2>2 DEF WatchdogActs, WatchdogRearmed
    <3> QED BY <1>4, <3>1
  <2> QED BY <2>1, <2>2
<1>10. CASE Detect \/ ScheduleCloses \/ CounterStart \/ CounterSkips \/ CounterFails
            \/ CounterRecords \/ ReinitRelease \/ ReinitConfigure \/ ReinitEnable
            \/ InactivityFlags \/ UNCHANGED vars
  BY <1>2, <1>10 DEF Detect, ScheduleCloses, CounterStart, CounterSkips, CounterFails,
     CounterRecords, ReinitRelease, ReinitConfigure, ReinitEnable, InactivityFlags, works, vars
<1>11. CASE CounterClears \/ AmbientRearms
  <2>1. queue' = queue /\ timer \subseteq timer'
    BY <1>11 DEF CounterClears, PutOff, AmbientRearms
  <2> QED BY <1>1, <2>1
<1>12. CASE Stop
  BY <1>3, <1>12 DEF Stop, Works
<1>13. CASE ReinitPulse
  BY <1>3, <1>13 DEF ReinitPulse, Works, Handled
<1>14. CASE WatchdogPasses \/ WatchdogLooks
  <2>1. Take("watchdog") /\ timer \subseteq timer'
    BY <1>14 DEF WatchdogPasses, WatchdogLooks, WatchdogRearmed
  <2> QED BY <1>3, <1>14, <2>1 DEF Works, Handled
<1>15. CASE InactivitySlows
  BY <1>3, <1>15 DEF InactivitySlows, Works, Handled
<1>16. CASE AmbientStarts
  BY <1>3, <1>16 DEF AmbientStarts, Works, Handled
<1> QED
  BY <1>5, <1>6, <1>7, <1>8, <1>9, <1>10, <1>11, <1>12, <1>13, <1>14, <1>15, <1>16
     DEF Next, Counter, SensorQueue

-----------------------------------------------------------------------------
(***************************************************************************)
(* Types.                                                                  *)
(***************************************************************************)
BooleansOK ==
  {conn, off, paused, apaused, line, irq, skip, written, heard, cqueued, fatal} \subseteq BOOLEAN

\* Only a work that runs is being cancelled.
CancelOK ==
  /\ canceling \subseteq {"ambient", "counter"}
  /\ "ambient" \in canceling => run = "ambient"
  /\ "counter" \in canceling => cpc # "idle"

ValuesOK ==
  /\ chip \in {"off", "boot", "standby", "ranging"}
  /\ rate \in {"idle", "active"}
  /\ timer \subseteq Delayable
  /\ run \in Steps
  /\ cpc \in {"idle", "clear", "record"}

LEMMA SensorTypeParts ==
  SensorTypeOK <=> BooleansOK /\ CancelOK /\ ValuesOK /\ IsQueue(queue)
  BY DEF SensorTypeOK, BooleansOK, CancelOK, ValuesOK, IsQueue

LEMMA SensorTypeInit == Init => SensorTypeOK
<1> SUFFICES ASSUME Init PROVE SensorTypeOK
  OBVIOUS
<1>1. BooleansOK
  BY DEF Init, BooleansOK
<1>2. CancelOK /\ ValuesOK
  BY DEF Init, CancelOK, ValuesOK, Steps, Delayable
<1>3. IsQueue(queue)
  BY DEF Init, IsQueue, Works, Delayable
<1> QED BY <1>1, <1>2, <1>3, SensorTypeParts

LEMMA BooleansStep == BooleansOK /\ [Next]_vars => BooleansOK'
<1> SUFFICES ASSUME BooleansOK, [Next]_vars PROVE BooleansOK'
  OBVIOUS
<1> USE DEF BooleansOK, flags, sensor
<1>1. CASE Detect \/ Connect \/ Disconnect
  BY <1>1, Zenon DEF Detect, Connect, CounterAfterCancel, Disconnect, counter
<1>2. CASE ScheduleOpens
  BY <1>2, Zenon DEF ScheduleOpens, Resumed, counter
<1>3. CASE ScheduleCloses
  BY <1>3, Zenon DEF ScheduleCloses, Edge
<1>4. CASE Counter
  BY <1>4, Zenon DEF Counter, CounterStart, CounterSkips, CounterFails, CounterClears,
     CounterRecords, counter
<1>5. CASE \E w \in Delayable : TimerFires(w)
  BY <1>5, Zenon DEF TimerFires, counter
<1>6. CASE Stop \/ ReinitPulse \/ ReinitRelease \/ ReinitConfigure \/ ReinitEnable
  BY <1>6, Zenon DEF Stop, ReinitPulse, ReinitRelease, ReinitConfigure, ReinitEnable, counter
<1>7. CASE WatchdogPasses \/ WatchdogLooks \/ WatchdogActs
  BY <1>7, Zenon DEF WatchdogPasses, WatchdogLooks, WatchdogActs, counter
<1>8. CASE InactivitySlows \/ InactivityFlags \/ AmbientStarts \/ AmbientRearms
  BY <1>8, Zenon DEF InactivitySlows, InactivityFlags, AmbientStarts, AmbientRearms, counter
<1>9. CASE UNCHANGED vars
  BY <1>9, Zenon DEF vars
<1> QED BY <1>1, <1>2, <1>3, <1>4, <1>5, <1>6, <1>7, <1>8, <1>9 DEF Next, SensorQueue

LEMMA ValuesStep == ValuesOK /\ CancelOK /\ [Next]_vars => ValuesOK' /\ CancelOK'
<1> SUFFICES ASSUME ValuesOK, CancelOK, [Next]_vars PROVE ValuesOK' /\ CancelOK'
  OBVIOUS
<1> USE DEF ValuesOK, CancelOK, sensor, works, counter, Steps, ReinitSteps, Delayable
<1>1. CASE Detect \/ Connect
  BY <1>1 DEF Detect, Connect
<1>2. CASE Disconnect \/ ScheduleOpens \/ ScheduleCloses
  BY <1>2 DEF Disconnect, ScheduleOpens, ScheduleCloses, ReinitRescheduled
<1>3. CASE Counter
  BY <1>3 DEF Counter, CounterStart, CounterSkips, CounterFails, CounterClears, PutOff,
     CounterRecords
<1>4. CASE \E w \in Delayable : TimerFires(w)
  BY <1>4 DEF TimerFires
<1>5. CASE Stop \/ ReinitPulse
  BY <1>5 DEF Stop, ReinitPulse, Take
<1>6. CASE ReinitRelease \/ ReinitConfigure \/ ReinitEnable
  BY <1>6 DEF ReinitRelease, ReinitConfigure, ReinitEnable, Step
<1>7. CASE WatchdogPasses \/ WatchdogLooks \/ WatchdogActs
  BY <1>7 DEF WatchdogPasses, WatchdogLooks, WatchdogActs, WatchdogRearmed, Take, Step
<1>8. CASE InactivitySlows \/ InactivityFlags
  BY <1>8 DEF InactivitySlows, InactivityFlags, Take, Step
<1>9. CASE AmbientStarts \/ AmbientRearms
  BY <1>9 DEF AmbientStarts, AmbientRearms, Take, Step
<1>10. CASE UNCHANGED vars
  BY <1>10 DEF vars
<1> QED BY <1>1, <1>2, <1>3, <1>4, <1>5, <1>6, <1>7, <1>8, <1>9, <1>10 DEF Next, SensorQueue

LEMMA SensorTypeStep == SensorTypeOK /\ [Next]_vars => SensorTypeOK'
<1> SUFFICES ASSUME SensorTypeOK, [Next]_vars PROVE SensorTypeOK'
  OBVIOUS
<1>1. BooleansOK' /\ ValuesOK' /\ CancelOK'
  BY SensorTypeParts, BooleansStep, ValuesStep
<1>2. IsQueue(queue')
  BY SensorTypeParts, PendingKept DEF CancelOK
<1>3. SensorTypeOK' <=> BooleansOK' /\ CancelOK' /\ ValuesOK' /\ IsQueue(queue')
  BY DEF SensorTypeOK, BooleansOK, CancelOK, ValuesOK, IsQueue
<1> QED BY <1>1, <1>2, <1>3

\* No order of submissions, cancellations and timeouts queues a work twice, and a
\* cancelled work is one that runs.
THEOREM SensorTypeCorrect == Spec => []SensorTypeOK
  BY SensorTypeInit, SensorTypeStep, PTL DEF Spec

-----------------------------------------------------------------------------
(***************************************************************************)
(* The active period.                                                      *)
(***************************************************************************)
LEMMA ActiveEndsStep == SensorTypeOK /\ ActiveEnds /\ [Next]_vars => ActiveEnds'
<1> SUFFICES ASSUME SensorTypeOK, ActiveEnds, [Next]_vars PROVE ActiveEnds'
  OBVIOUS
<1>1. CASE InactivitySlows
  BY <1>1 DEF InactivitySlows, ActiveEnds
<1>2. CASE "inactivity" \in Pending => "inactivity" \in Pending'
  <2>1. ASSUME rate' \in {rate, "idle"}, written' = written, run = "flag" => run' = "flag",
               fatal => fatal'
        PROVE  ActiveEnds'
    BY <1>2, <2>1 DEF ActiveEnds
  <2> USE <2>1 DEF flags, sensor, works, counter, Take, Step
  <2>2. CASE Detect \/ Connect \/ Disconnect \/ ScheduleOpens \/ ScheduleCloses
    BY <2>2 DEF Detect, Connect, Disconnect, ScheduleOpens, ScheduleCloses
  <2>3. CASE CounterStart \/ CounterSkips \/ CounterFails \/ CounterRecords
    BY <2>3 DEF CounterStart, CounterSkips, CounterFails, CounterRecords
  <2>4. CASE CounterClears
    BY <2>4 DEF CounterClears, PutOff, Pending, ActiveEnds
  <2>5. CASE \E w \in Delayable : TimerFires(w)
    BY <2>5 DEF TimerFires
  <2>6. CASE Stop \/ ReinitPulse \/ ReinitRelease \/ ReinitConfigure \/ ReinitEnable
    BY <2>6 DEF Stop, ReinitPulse, ReinitRelease, ReinitConfigure, ReinitEnable
  <2>7. CASE WatchdogPasses \/ WatchdogLooks \/ WatchdogActs \/ AmbientStarts \/ AmbientRearms
    BY <2>7 DEF WatchdogPasses, WatchdogLooks, WatchdogActs, AmbientStarts, AmbientRearms
  <2>8. CASE InactivityFlags
    BY <1>2, <2>8 DEF InactivityFlags, ActiveEnds
  <2>9. CASE UNCHANGED vars
    BY <2>9 DEF vars
  <2> QED BY <1>1, <2>2, <2>3, <2>4, <2>5, <2>6, <2>7, <2>8, <2>9 DEF Next, Counter, SensorQueue
<1>3. "inactivity" \in Pending => "inactivity" \in Pending' \/ InactivitySlows
  BY SensorTypeParts, PendingKept DEF CancelOK, Delayable, Handled
<1> QED BY <1>1, <1>2, <1>3

\* Whatever overlaps, the active period and the belief in it come to an end
\* (counter_work_handler, inactivity_work_handler, VL53L4CD_user_init).
THEOREM ActivePeriodEnds == Spec => []ActiveEnds
<1>1. Init => ActiveEnds
  BY DEF Init, ActiveEnds
<1> QED BY <1>1, SensorTypeInit, SensorTypeStep, ActiveEndsStep, PTL DEF Spec

-----------------------------------------------------------------------------
(***************************************************************************)
(* What goes on without a peer.  Sessions are taken to be longer than the  *)
(* backlog of the sensor queue: otherwise both facts fail, because a work  *)
(* cancelled while it runs is not accepted again before it has returned,   *)
(* and because a stop may be left behind.                                  *)
(***************************************************************************)
\* A session leaves nothing of itself behind: no cancellation, no pause of ambient
\* sampling, no stop in the queue.
SessionInv ==
  /\ apaused => conn
  /\ ~conn => canceling = {} /\ "stop" \notin InQueue

LEMMA SessionStep ==
  ~ShortSessions /\ SensorTypeOK /\ SessionInv /\ [Next]_vars => SessionInv'
<1> SUFFICES ASSUME ~ShortSessions, SensorTypeOK, SessionInv, [Next]_vars PROVE SessionInv'
  OBVIOUS
<1>1. "stop" \in InQueue' => "stop" \in InQueue \/ conn'
  BY SensorTypeParts, PendingKept DEF CancelOK
<1>2. ASSUME UNCHANGED <<conn, apaused>>, canceling' \subseteq canceling PROVE SessionInv'
  BY <1>1, <1>2 DEF SessionInv
<1> USE <1>2 DEF flags, works
<1>3. CASE Connect
  BY <1>3 DEF Connect, SessionInv
<1>4. CASE Disconnect
  <2>1. ~conn' /\ ~apaused' /\ canceling' = {} /\ "stop" \notin InQueue
    BY <1>4 DEF Disconnect
  <2> QED BY <1>1, <2>1 DEF SessionInv
<1>5. CASE Detect \/ ScheduleOpens \/ ScheduleCloses
  BY <1>5 DEF Detect, ScheduleOpens, ScheduleCloses
<1>6. CASE Counter
  BY <1>6 DEF Counter, CounterStart, CounterSkips, CounterFails, CounterClears, CounterRecords
<1>7. CASE \E w \in Delayable : TimerFires(w)
  BY <1>7 DEF TimerFires
<1>8. CASE Stop \/ ReinitPulse \/ ReinitRelease \/ ReinitConfigure \/ ReinitEnable
  BY <1>8 DEF Stop, ReinitPulse, ReinitRelease, ReinitConfigure, ReinitEnable
<1>9. CASE WatchdogPasses \/ WatchdogLooks \/ WatchdogActs
  BY <1>9 DEF WatchdogPasses, WatchdogLooks, WatchdogActs
<1>10. CASE InactivitySlows \/ InactivityFlags \/ AmbientStarts \/ AmbientRearms
  BY <1>10 DEF InactivitySlows, InactivityFlags, AmbientStarts, AmbientRearms
<1>11. CASE UNCHANGED vars
  BY <1>11 DEF vars
<1> QED BY <1>3, <1>4, <1>5, <1>6, <1>7, <1>8, <1>9, <1>10, <1>11 DEF Next, SensorQueue

LEMMA AmbientStep ==
  SensorTypeOK /\ SessionInv /\ AmbientAlive /\ ~ShortSessions /\ [Next]_vars => AmbientAlive'
<1> SUFFICES ASSUME SensorTypeOK, SessionInv, AmbientAlive, ~ShortSessions, [Next]_vars,
                    ~fatal', ~conn'
             PROVE  "ambient" \in Pending' \/ run' = "ambient"
  BY DEF AmbientAlive
<1>1. CASE Disconnect
  <2>1. canceling = {} /\ queue' = Submitted(queue, "ambient")
    BY <1>1 DEF Disconnect, AmbientResumed
  <2>2. IsQueue(queue) /\ "ambient" \in Works
    BY SensorTypeParts DEF Works, Delayable
  <2>3. "ambient" \in Elems(queue')
    BY <2>1, <2>2, SubmittedQueue DEF InQueue, Elems
  <2> QED BY <2>3 DEF Pending, InQueue, Elems
<1>2. CASE AmbientStarts
  BY <1>2 DEF AmbientStarts, SessionInv, flags
<1>3. CASE AmbientRearms
  <2>1. ~conn
    BY <1>3 DEF AmbientRearms, flags
  <2>2. "ambient" \notin canceling
    BY <2>1 DEF SessionInv
  <2> QED BY <1>3, <2>2 DEF AmbientRearms, Pending, InQueue
<1>4. CASE ~Disconnect /\ ~AmbientStarts /\ ~AmbientRearms
  <2>1. ~conn /\ ~fatal /\ (run = "ambient" => run' = "ambient")
    <3> USE DEF flags, works
    <3>1. CASE Detect \/ ScheduleOpens \/ ScheduleCloses
      <4>1. UNCHANGED <<conn, fatal, run>>
        BY <3>1, Zenon DEF Detect, ScheduleOpens, ScheduleCloses
      <4> QED BY <4>1
    <3>2. CASE Connect
      BY <3>2 DEF Connect
    <3>3. CASE Counter
      BY <3>3 DEF Counter, CounterStart, CounterSkips, CounterFails, CounterClears, CounterRecords
    <3>4. CASE \E w \in Delayable : TimerFires(w)
      BY <3>4 DEF TimerFires
    <3>5. CASE Stop \/ ReinitPulse \/ ReinitRelease \/ ReinitConfigure \/ ReinitEnable
      BY <3>5 DEF Stop, ReinitPulse, ReinitRelease, ReinitConfigure, ReinitEnable, Take, Step
    <3>6. CASE WatchdogPasses \/ WatchdogLooks \/ WatchdogActs
      BY <3>6 DEF WatchdogPasses, WatchdogLooks, WatchdogActs, Take, Step
    <3>7. CASE InactivitySlows \/ InactivityFlags
      BY <3>7 DEF InactivitySlows, InactivityFlags, Take, Step
    <3>8. CASE UNCHANGED vars
      BY <3>8 DEF vars
    <3> QED BY <1>4, <3>1, <3>2, <3>3, <3>4, <3>5, <3>6, <3>7, <3>8 DEF Next, SensorQueue
  <2>2. "ambient" \in Pending => "ambient" \in Pending'
    BY <1>4, <2>1, SensorTypeParts, PendingKept DEF CancelOK, Delayable, Handled, SessionInv
  <2> QED BY <2>1, <2>2 DEF AmbientAlive
<1> QED BY <1>1, <1>2, <1>3, <1>4

\* Without a peer ambient sampling goes on: no order of connections, schedule
\* changes and samples leaves its work neither pending nor at work (on_connected,
\* on_disconnected, schedule_work_handler, ambient_work_handler).
THEOREM SamplingGoesOn == ASSUME ~ShortSessions PROVE Spec => []AmbientAlive
<1> DEFINE J == SensorTypeOK /\ SessionInv /\ AmbientAlive
<1>1. Init => J
  <2>1. Init => SessionInv /\ AmbientAlive
    BY DEF Init, SessionInv, AmbientAlive, Pending, InQueue
  <2> QED BY <2>1, SensorTypeInit
<1>2. J /\ [Next]_vars => J'
  BY SensorTypeStep, SessionStep, AmbientStep
<1>3. J => AmbientAlive
  OBVIOUS
<1> HIDE DEF J
<1> QED BY <1>1, <1>2, <1>3, PTL DEF Spec

\* A re-initialisation that has come to its last step has the sensor ranging,
\* unless the next one is already due.
LastStep ==
  ~fatal /\ ~conn /\ ~off /\ run = "enable" /\ "reinit" \notin Pending => chip = "ranging"

ArmedInv == ArmedWhenSettled /\ LastStep

LEMMA ArmedStep ==
  SensorTypeOK /\ SessionInv /\ ArmedInv /\ ~ShortSessions /\ [Next]_vars => ArmedInv'
<1> SUFFICES ASSUME SensorTypeOK, SessionInv, ArmedInv, [Next]_vars, ~ShortSessions,
                    ~fatal', ~conn', ~off', "reinit" \notin Pending'
             PROVE  /\ run' \notin ReinitSteps => chip' = "ranging" /\ irq' = TRUE
                    /\ run' = "enable" => chip' = "ranging"
  BY SensorTypeStep, SensorTypeParts DEF ArmedInv, ArmedWhenSettled, LastStep, SensorTypeOK
<1>1. "reinit" \in Pending => ReinitPulse
  BY SensorTypeParts, PendingKept DEF CancelOK, Delayable, Handled
<1>2. CASE ReinitPulse
  BY <1>2 DEF ReinitPulse, ReinitSteps
<1>3. CASE ReinitRelease
  BY <1>3 DEF ReinitRelease, Step, ReinitSteps
<1>4. CASE ReinitConfigure
  BY <1>4 DEF ReinitConfigure, Step, ReinitSteps
<1>5. CASE ReinitEnable
  <2>1. ~fatal /\ ~conn /\ ~off /\ chip' = chip /\ irq' = TRUE /\ run = "enable" /\ run' = "idle"
    BY <1>5 DEF ReinitEnable, Step, flags, sensor
  <2> QED BY <1>1, <1>2, <2>1 DEF ArmedInv, LastStep
<1>6. CASE Disconnect
  <2>1. timer' = (timer \cup {"reinit"}) \ {"ambient"}
    BY <1>6 DEF Disconnect, ReinitRescheduled
  <2> QED BY <2>1 DEF Pending
<1>7. CASE ScheduleOpens
  <2>1. timer' = (timer \cup {"reinit"}) \ {"ambient"}
    BY <1>7 DEF ScheduleOpens, ReinitRescheduled
  <2> QED BY <2>1 DEF Pending
<1>8. CASE Stop
  <2>1. ~conn /\ "stop" \in InQueue
    <3>1. ~conn /\ queue # <<>> /\ Head(queue) = "stop" /\ IsQueue(queue)
      BY <1>8, SensorTypeParts DEF Stop, Take, flags
    <3>2. Head(queue) \in Elems(queue)
      BY <3>1, TakenQueue
    <3> QED BY <3>1, <3>2 DEF InQueue, Elems
  <2> QED BY <2>1 DEF SessionInv
<1>9. CASE Connect \/ ScheduleCloses
  BY <1>9 DEF Connect, ScheduleCloses
<1>10. ASSUME UNCHANGED <<conn, off, chip, irq>>, fatal => fatal',
              run \in ReinitSteps \/ run' \in ReinitSteps => run' = run
       PROVE  /\ run' \notin ReinitSteps => chip' = "ranging" /\ irq' = TRUE
              /\ run' = "enable" => chip' = "ranging"
  <2>1. ~fatal /\ ~conn /\ ~off /\ irq \in BOOLEAN
    BY <1>10, SensorTypeParts DEF BooleansOK
  <2>2. CASE "reinit" \in Pending
    BY <1>1, <1>2, <2>2
  <2>3. CASE "reinit" \notin Pending
    BY <1>10, <2>1, <2>3 DEF ArmedInv, ArmedWhenSettled, LastStep
  <2> QED BY <2>2, <2>3
<1>11. CASE \/ Detect \/ Counter \/ (\E w \in Delayable : TimerFires(w))
            \/ WatchdogPasses \/ WatchdogLooks \/ WatchdogActs
            \/ InactivitySlows \/ InactivityFlags \/ AmbientStarts \/ AmbientRearms
            \/ UNCHANGED vars
  <2>1. UNCHANGED <<conn, off, chip, irq>> /\ (fatal => fatal')
    <3> USE DEF flags, sensor
    <3>1. CASE Detect \/ Counter
      BY <3>1 DEF Detect, Counter, CounterStart, CounterSkips, CounterFails, CounterClears,
         CounterRecords
    <3>2. CASE \E w \in Delayable : TimerFires(w)
      BY <3>2 DEF TimerFires
    <3>3. CASE WatchdogPasses \/ WatchdogLooks \/ WatchdogActs
      BY <3>3 DEF WatchdogPasses, WatchdogLooks, WatchdogActs
    <3>4. CASE InactivitySlows \/ InactivityFlags \/ AmbientStarts \/ AmbientRearms
      BY <3>4 DEF InactivitySlows, InactivityFlags, AmbientStarts, AmbientRearms
    <3>5. CASE UNCHANGED vars
      BY <3>5 DEF vars
    <3> QED BY <1>11, <3>1, <3>2, <3>3, <3>4, <3>5
  <2>2. run \in ReinitSteps \/ run' \in ReinitSteps => run' = run
    <3> USE DEF ReinitSteps, works, Take, Step
    <3>1. CASE Detect \/ Counter
      BY <3>1 DEF Detect, Counter, CounterStart, CounterSkips, CounterFails, CounterClears,
         CounterRecords
    <3>2. CASE \E w \in Delayable : TimerFires(w)
      BY <3>2 DEF TimerFires
    <3>3. CASE WatchdogPasses \/ WatchdogLooks \/ WatchdogActs
      BY <3>3 DEF WatchdogPasses, WatchdogLooks, WatchdogActs
    <3>4. CASE InactivitySlows \/ InactivityFlags \/ AmbientStarts \/ AmbientRearms
      BY <3>4 DEF InactivitySlows, InactivityFlags, AmbientStarts, AmbientRearms
    <3>5. CASE UNCHANGED vars
      BY <3>5 DEF vars
    <3> QED BY <1>11, <3>1, <3>2, <3>3, <3>4, <3>5
  <2> QED BY <1>10, <2>1, <2>2
<1> QED
  BY <1>2, <1>3, <1>4, <1>5, <1>6, <1>7, <1>8, <1>9, <1>11 DEF Next, SensorQueue

\* Once nothing is left to do for the sensor, a device without a peer and within
\* its hours measures and listens (on_connected, on_disconnected,
\* schedule_work_handler, vl53_stop_work_handler, vl53_sched_reinit_work_handler).
THEOREM SettledIsArmed == ASSUME ~ShortSessions PROVE Spec => []ArmedWhenSettled
<1> DEFINE J == SensorTypeOK /\ SessionInv /\ ArmedInv
<1>1. Init => J
  <2>1. Init => SessionInv /\ ArmedInv
    BY DEF Init, SessionInv, ArmedInv, ArmedWhenSettled, LastStep, Pending, InQueue
  <2> QED BY <2>1, SensorTypeInit
<1>2. J /\ [Next]_vars => J'
  BY SensorTypeStep, SessionStep, ArmedStep
<1>3. J => ArmedWhenSettled
  BY DEF ArmedInv
<1> HIDE DEF J
<1> QED BY <1>1, <1>2, <1>3, PTL DEF Spec

-----------------------------------------------------------------------------
\* The sensor watchdog never goes out: its work is pending or at work, whatever
\* keeps the sensor quiet.  SensorComesBack rests on it.
WatchdogAlive == ~fatal => "watchdog" \in Pending \/ run = "check"

LEMMA WatchdogAliveStep == SensorTypeOK /\ WatchdogAlive /\ [Next]_vars => WatchdogAlive'
<1> SUFFICES ASSUME SensorTypeOK, WatchdogAlive, [Next]_vars PROVE WatchdogAlive'
  OBVIOUS
<1>1. "watchdog" \in Pending => "watchdog" \in Pending' \/ WatchdogPasses \/ WatchdogLooks
  BY SensorTypeParts, PendingKept DEF CancelOK, Delayable, Handled
<1>2. CASE WatchdogPasses
  BY <1>2 DEF WatchdogPasses, WatchdogRearmed, WatchdogAlive, Pending
<1>3. CASE WatchdogLooks
  BY <1>3 DEF WatchdogLooks, WatchdogAlive
<1>4. CASE WatchdogActs
  BY <1>4 DEF WatchdogActs, WatchdogRearmed, WatchdogAlive, Pending
<1>5. CASE ~WatchdogPasses /\ ~WatchdogLooks /\ ~WatchdogActs
  <2>1. (fatal => fatal') /\ (run = "check" => run' = "check")
    <3> USE DEF works, Take, Step
    <3>1. CASE Detect \/ Connect \/ Disconnect
      BY <3>1 DEF Detect, Connect, Disconnect
    <3>2. CASE ScheduleOpens \/ ScheduleCloses
      BY <3>2 DEF ScheduleOpens, ScheduleCloses
    <3>3. CASE Counter
      BY <3>3 DEF Counter, CounterStart, CounterSkips, CounterFails, CounterClears, CounterRecords
    <3>4. CASE \E w \in Delayable : TimerFires(w)
      BY <3>4 DEF TimerFires
    <3>5. CASE Stop \/ ReinitPulse \/ ReinitRelease \/ ReinitConfigure \/ ReinitEnable
      BY <3>5 DEF Stop, ReinitPulse, ReinitRelease, ReinitConfigure, ReinitEnable
    <3>6. CASE InactivitySlows \/ InactivityFlags \/ AmbientStarts \/ AmbientRearms
      BY <3>6 DEF InactivitySlows, InactivityFlags, AmbientStarts, AmbientRearms
    <3>7. CASE UNCHANGED vars
      BY <3>7 DEF vars
    <3> QED BY <1>5, <3>1, <3>2, <3>3, <3>4, <3>5, <3>6, <3>7 DEF Next, SensorQueue
  <2> QED BY <1>1, <1>5, <2>1 DEF WatchdogAlive
<1> QED BY <1>2, <1>3, <1>4, <1>5

\* vl53_watchdog_work_handler re-arms itself in every case, and nothing cancels it.
THEOREM WatchdogNeverStops == Spec => []WatchdogAlive
<1>1. Init => WatchdogAlive
  BY DEF Init, WatchdogAlive, Pending
<1> QED BY <1>1, SensorTypeInit, SensorTypeStep, WatchdogAliveStep, PTL DEF Spec
=============================================================================
