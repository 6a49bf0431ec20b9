----------------------------- MODULE LinkProofs -----------------------------
(***************************************************************************)
(* Theorems about the watchdog and about advertising.  For every choice of *)
(* intervals that meets Kconfig's condition, with the latencies counted in,*)
(* a device whose sensor queue runs is never reset, and one whose sensor   *)
(* queue does not run is.  And a device whose peers are no faster than its *)
(* own queue keeps is_advertising and the connection object in order.      *)
(***************************************************************************)
EXTENDS Link, TLAPS

\* While the queue is not stuck, the last heartbeat is younger than a feed
\* interval; so if none came since the last feed, that feed is younger still.
WatchdogInv ==
  /\ WatchdogTypeOK
  /\ wdt <= Timeout
  /\ stuck => jammed
  /\ ~stuck => stuckFor = 0
  /\ mode = "boot" => wdt <= BootTime /\ ~bit /\ ~jammed
  /\ stuckFor <= wdt + FeedInterval + SystemLatency
  /\ mode = "run" =>
       /\ fed <= FeedInterval + SystemLatency
       /\ ~stuck => beat <= HeartbeatInterval + SensorLatency
       /\ bit => beat <= fed
       /\ stuckFor <= beat
       /\ ~jammed => wdt <= fed + BootTime
       /\ ~jammed /\ ~bit => fed <= beat

LEMMA WatchdogInvInit == WatchdogAssumption /\ WatchdogInit => WatchdogInv
<1> SUFFICES ASSUME WatchdogAssumption, WatchdogInit PROVE WatchdogInv
  OBVIOUS
<1>1. {armed, bit, stuck, jammed} \subseteq BOOLEAN /\ ~bit /\ ~stuck /\ ~jammed
  BY Zenon DEF WatchdogInit
<1>2. mode = "boot" /\ wdt = 0 /\ fed = 0 /\ beat = 0 /\ stuckFor = 0 /\ faults = 0
  BY DEF WatchdogInit
<1> QED
  BY <1>1, <1>2 DEF WatchdogAssumption, WatchdogInv, WatchdogTypeOK

LEMMA HandlersKeepWatchdog ==
  ASSUME WatchdogAssumption, WatchdogInv, Heartbeat \/ Feed
  PROVE  WatchdogInv'
<1>1. CASE Heartbeat
  BY <1>1 DEF Heartbeat, BeatBits, jam, WatchdogAssumption, WatchdogInv, WatchdogTypeOK
<1>2. CASE Feed /\ bit
  <2>1. (jammed' <=> stuck) /\ ~bit' /\ {armed', bit', stuck', jammed'} \subseteq BOOLEAN
    BY <1>2, Zenon DEF Feed, Feeds, WatchdogInv, WatchdogTypeOK
  <2> QED
    BY <1>2, <2>1 DEF Feed, Feeds, WatchdogAssumption, WatchdogInv, WatchdogTypeOK
<1>3. CASE Feed /\ ~bit
  <2>1. jammed
    BY <1>3 DEF Feed, WatchdogAssumption, WatchdogInv, WatchdogTypeOK
  <2>2. (jammed' <=> jammed) /\ ~bit' /\ {armed', bit', stuck', jammed'} \subseteq BOOLEAN
    BY <1>3, Zenon DEF Feed, Feeds, WatchdogInv, WatchdogTypeOK
  <2> QED
    BY <1>3, <2>1, <2>2 DEF Feed, Feeds, WatchdogAssumption, WatchdogInv, WatchdogTypeOK
<1> QED
  BY <1>1, <1>2, <1>3

LEMMA SticksKeepsWatchdog ==
  ASSUME WatchdogAssumption, WatchdogInv, mode = "run", mode' = mode, faults' = faults,
         NEW b \in BOOLEAN, Sticks(b)
  PROVE  WatchdogInv'
<1>1. CASE b
  BY <1>1 DEF Sticks, WatchdogAssumption, WatchdogInv, WatchdogTypeOK
<1>2. CASE ~b
  BY <1>2 DEF Sticks, WatchdogAssumption, WatchdogInv, WatchdogTypeOK
<1> QED
  BY <1>1, <1>2

LEMMA FaultsKeepWatchdog ==
  ASSUME WatchdogAssumption, WatchdogInv, Panic \/ Fatal \/ (Booted /\ UNCHANGED jam) \/ Reset
  PROVE  WatchdogInv'
<1>1. CASE Panic
  BY <1>1 DEF Panic, timer, jam, WatchdogAssumption, WatchdogInv, WatchdogTypeOK
<1>2. CASE Fatal
  BY <1>2 DEF Fatal, jam, WatchdogAssumption, WatchdogInv, WatchdogTypeOK
<1>3. CASE Booted /\ UNCHANGED jam
  BY <1>3 DEF Booted, jam, WatchdogAssumption, WatchdogInv, WatchdogTypeOK
<1>4. CASE Reset
  <2>1. {armed', bit', stuck', jammed'} \subseteq BOOLEAN /\ ~bit' /\ ~stuck' /\ ~jammed'
    BY <1>4, Zenon DEF Reset, Started
  <2> QED
    BY <1>4, <2>1 DEF Reset, Started, WatchdogAssumption, WatchdogInv, WatchdogTypeOK
<1> QED
  BY <1>1, <1>2, <1>3, <1>4

LEMMA TickKeepsWatchdog ==
  ASSUME WatchdogAssumption, WatchdogInv, Tick
  PROVE  WatchdogInv'
<1>1. CASE mode = "run" /\ stuck
  BY <1>1 DEF Tick, WatchdogAssumption, WatchdogInv, WatchdogTypeOK
<1>2. CASE mode = "run" /\ ~stuck
  BY <1>2 DEF Tick, WatchdogAssumption, WatchdogInv, WatchdogTypeOK
<1>3. CASE mode # "run"
  BY <1>3 DEF Tick, WatchdogAssumption, WatchdogInv, WatchdogTypeOK
<1> QED
  BY <1>1, <1>2, <1>3

LEMMA WatchdogInvSafe ==
  ASSUME WatchdogAssumption, WatchdogInv
  PROVE  NoFalseReset /\ StuckIsReset
  BY DEF WatchdogAssumption, WatchdogInv, WatchdogTypeOK, NoFalseReset, StuckIsReset, Expired

LEMMA WatchdogStep ==
  ASSUME WatchdogAssumption, WatchdogInv, [WatchdogNext]_wvars
  PROVE  WatchdogInv'
<1>1. CASE UNCHANGED wvars
  BY <1>1 DEF wvars, timer, jam, WatchdogInv, WatchdogTypeOK
<1>2. CASE Jam
  BY <1>2, SticksKeepsWatchdog DEF Jam, WatchdogInv, WatchdogTypeOK
<1> QED
  BY <1>1, <1>2, HandlersKeepWatchdog, FaultsKeepWatchdog, TickKeepsWatchdog DEF WatchdogNext

\* The watchdog alone, with a sensor queue that sticks and runs as it likes.
THEOREM WatchdogCorrect == WatchdogSpec => [](NoFalseReset /\ StuckIsReset)
<1>1. WatchdogSpec => []WatchdogInv
  BY WatchdogAssumption, WatchdogInvInit, WatchdogStep, PTL DEF WatchdogSpec
<1>2. WatchdogInv => NoFalseReset /\ StuckIsReset
  BY WatchdogAssumption, WatchdogInvSafe
<1> QED
  BY <1>1, <1>2, PTL

-----------------------------------------------------------------------------
\* Who may hold the object, what the flag means and when adv_work is queued.
LinkInv ==
  /\ resuming => radio /\ ~adv
  /\ radio /\ ~resuming => adv
  /\ radio => refs = {} /\ link = "none" /\ ~sent
  /\ sent => adv /\ link = "none"
  /\ link = "coming" => adv
  /\ adv => radio \/ sent \/ link = "coming"
  /\ conn => ~adv
  /\ conn <=> link \in {"up", "down"}
  /\ "adv" \in queued => ~radio /\ ~adv /\ link = "none" /\ ~resuming
  /\ "gone" \in queued <=> link = "down"
  /\ "stack" \in refs <=> link # "none"
  /\ "app" \in refs <=> conn
  /\ bond <=> failed /\ link \in {"up", "down"}
  /\ link = "coming" => ~failed
  /\ stuck <=> Spins(queued, refs)
  /\ mode = "boot" => ~radio /\ ~adv /\ ~conn /\ link = "none" /\ ~resuming /\ refs = {}

Inv == LinkTypeOK /\ LinkInv /\ WatchdogInv

LEMMA InvInit == LinkAssumption /\ WatchdogAssumption /\ Init => Inv
<1> SUFFICES ASSUME LinkAssumption, WatchdogAssumption, Init PROVE Inv
  OBVIOUS
<1>1. WatchdogInv
  BY WatchdogInvInit DEF Init
<1>2. LinkTypeOK
  <2>1. {resuming, delayed, adv, conn, bond, failed, there, radio, sent} \subseteq BOOLEAN
    BY Zenon DEF Init
  <2> QED
    BY <2>1 DEF Init, LinkTypeOK, LinkAssumption
<1>3. LinkInv
  BY DEF Init, WatchdogInit, LinkInv, Spins
<1> QED
  BY <1>1, <1>2, <1>3 DEF Inv

\* A step of this module runs only on a device that runs, and settles whether
\* adv_work spins.
LEMMA OnWatchdogKeeps ==
  ASSUME WatchdogAssumption, WatchdogInv, mode = "run", OnWatchdog
  PROVE  WatchdogInv' /\ mode' = "run" /\ (stuck' <=> Spins(queued', refs'))
<1>1. Spins(queued', refs') \in BOOLEAN
  BY DEF Spins
<1> QED
  BY <1>1, SticksKeepsWatchdog DEF OnWatchdog, Sticks

LEMMA QueueKeeps ==
  ASSUME LinkAssumption, WatchdogAssumption, Inv,
         AdvStarts \/ AdvRetries \/ AdvResumes \/ DelayEnds \/ TimeoutStops \/ OnDisconnected
  PROVE  Inv'
<1>1. OnWatchdog /\ mode = "run"
  BY DEF AdvStarts, AdvRetries, AdvResumes, DelayEnds, TimeoutStops, OnDisconnected, Runs, Ready
<1>2. WatchdogInv' /\ mode' = "run" /\ (stuck' <=> Spins(queued', refs'))
  BY <1>1, OnWatchdogKeeps DEF Inv
<1> USE DEF Inv, LinkInv, Runs, Ready, ble, app, queue, Works
<1>3. CASE AdvStarts
  BY <1>2, <1>3 DEF AdvStarts, LinkTypeOK
<1>4. CASE AdvRetries
  BY <1>2, <1>4 DEF AdvRetries, Retried, LinkTypeOK
<1>5. CASE AdvResumes
  BY <1>2, <1>5 DEF AdvResumes, FlagSet, LinkTypeOK
<1>6. CASE DelayEnds
  BY <1>2, <1>6 DEF DelayEnds, LinkTypeOK
<1>7. CASE TimeoutStops
  BY <1>2, <1>7 DEF TimeoutStops, LinkTypeOK
<1>8. CASE OnDisconnected
  BY <1>2, <1>8 DEF OnDisconnected, AdvertisingStart, Unreffed, BondLeft, LinkTypeOK
<1> QED
  BY <1>3, <1>4, <1>5, <1>6, <1>7, <1>8

LEMMA SensorKeeps ==
  ASSUME LinkAssumption, WatchdogAssumption, Inv, Bouncing \/ Crosses \/ Leaves
  PROVE  Inv'
<1>1. OnWatchdog /\ mode = "run"
  BY DEF Bouncing, Bounces, Crosses, Leaves, Ready
<1>2. WatchdogInv' /\ mode' = "run" /\ (stuck' <=> Spins(queued', refs'))
  BY <1>1, OnWatchdogKeeps DEF Inv
<1> USE DEF Inv, LinkInv, Ready, ble, app, queue, Works
<1>3. ASSUME NEW n \in {IdleStart, ActiveStart}, Bounces(n) PROVE Inv'
  <2>1. consec' \in 0..(Byte - 1)
    BY <1>3 DEF Bounces, Bounced, LinkTypeOK, LinkAssumption
  <2>2. CASE StartsAgain(n)
    BY <1>2, <1>3, <2>1, <2>2 DEF Bounces, StartsAgain, AdvertisingStart, LinkTypeOK
  <2>3. CASE ~StartsAgain(n)
    BY <1>2, <1>3, <2>1, <2>3 DEF Bounces, LinkTypeOK
  <2> QED
    BY <2>2, <2>3
<1>4. CASE Crosses
  BY <1>2, <1>4 DEF Crosses, LinkTypeOK, LinkAssumption
<1>5. CASE Leaves
  BY <1>2, <1>5 DEF Leaves, LinkTypeOK
<1> QED
  BY <1>3, <1>4, <1>5 DEF Bouncing

LEMMA RadioKeeps ==
  ASSUME LinkAssumption, WatchdogAssumption, Inv, SlowPeer,
         PeerConnects \/ OnConnected \/ SecurityFails \/ LinkEnds \/ WindowEnds \/ AdvSent
           \/ StreamTakes \/ StreamDrops
  PROVE  Inv'
<1>1. OnWatchdog /\ mode = "run"
  BY DEF PeerConnects, OnConnected, SecurityFails, LinkEnds, WindowEnds, AdvSent, StreamTakes, StreamDrops,
         Receives
<1>2. WatchdogInv' /\ mode' = "run" /\ (stuck' <=> Spins(queued', refs'))
  BY <1>1, OnWatchdogKeeps DEF Inv
<1> USE DEF Inv, LinkInv, Receives, ble, app, queue, Works
<1>3. CASE PeerConnects
  BY <1>2, <1>3 DEF PeerConnects, LinkTypeOK
<1>4. CASE OnConnected
  <2>1. LinkTypeOK'
    <3>1. {resuming', delayed', adv', conn', bond', failed', there', radio', sent'} \subseteq BOOLEAN
      BY <1>4, Zenon DEF OnConnected, LinkTypeOK
    <3> QED
      BY <1>4, <3>1 DEF OnConnected, LinkTypeOK, LinkAssumption
  <2> QED
    BY <1>2, <1>4, <2>1 DEF OnConnected, LinkTypeOK
<1>5. CASE LinkEnds
  BY <1>2, <1>5 DEF LinkEnds, LinkTypeOK
<1>10. CASE SecurityFails
  <2>1. LinkTypeOK'
    BY <1>10 DEF SecurityFails, LinkTypeOK
  <2> QED
    BY <1>2, <1>10, <2>1 DEF SecurityFails
<1>6. CASE WindowEnds
  BY <1>2, <1>6 DEF WindowEnds, LinkTypeOK
<1>7. CASE AdvSent
  BY <1>2, <1>7 DEF AdvSent, FlagCleared, LinkTypeOK
<1>8. CASE StreamTakes
  BY <1>2, <1>8 DEF StreamTakes, LinkTypeOK
<1>9. CASE StreamDrops
  BY <1>2, <1>9 DEF StreamDrops, LinkTypeOK
<1> QED
  BY <1>3, <1>4, <1>5, <1>6, <1>7, <1>8, <1>9, <1>10

LEMMA DeviceKeeps ==
  ASSUME LinkAssumption, WatchdogAssumption, Inv,
         OnConnectedFails \/ Boot \/ Watch \/ Restart
  PROVE  Inv'
<1> USE DEF Inv
<1>1. WatchdogInv'
  BY HandlersKeepWatchdog, FaultsKeepWatchdog, TickKeepsWatchdog
  DEF OnConnectedFails, Boot, Watch, Restart
<1>2. CASE OnConnectedFails
  BY <1>1, <1>2 DEF OnConnectedFails, Fatal, jam, ble, app, queue, LinkInv, LinkTypeOK, Spins
<1>3. CASE Boot
  BY <1>1, <1>3 DEF Boot, Booted, AdvertisingStart, jam, ble, app, queue, LinkInv, LinkTypeOK,
     Spins, Works
<1>4. CASE Watch
  <2>1. UNCHANGED <<queue, app, ble, there, stuck>> /\ (mode' = "boot" => mode = "boot")
    BY <1>4 DEF Watch, Heartbeat, Feed, Tick, Panic, jam
  <2> QED
    BY <1>1, <2>1 DEF ble, app, queue, LinkInv, LinkTypeOK, Spins
<1>5. CASE Restart
  <2>1. LinkTypeOK'
    <3>1. {resuming', delayed', adv', conn', bond', failed', there', radio', sent'} \subseteq BOOLEAN
      BY <1>5, Zenon DEF Restart, LinkTypeOK
    <3> QED
      BY <1>5, <3>1 DEF Restart, LinkTypeOK, LinkAssumption
  <2> QED
    BY <1>1, <1>5, <2>1 DEF Restart, Reset, Started, LinkInv, Spins
<1> QED
  BY <1>2, <1>3, <1>4, <1>5

LEMMA InvStep ==
  ASSUME LinkAssumption, WatchdogAssumption, SlowPeer, Inv, [Next]_vars
  PROVE  Inv'
<1>1. CASE UNCHANGED vars
  BY <1>1 DEF vars, wvars, timer, jam, ble, app, queue, Inv, LinkTypeOK, LinkInv, WatchdogInv,
     WatchdogTypeOK, Spins
<1> QED
  BY <1>1, QueueKeeps, SensorKeeps, RadioKeeps, DeviceKeeps DEF Next

LEMMA InvHolds == ASSUME SlowPeer PROVE Spec => []Inv
  BY LinkAssumption, WatchdogAssumption, InvInit, InvStep, SlowPeer, PTL DEF Spec

-----------------------------------------------------------------------------
\* adv_work, the radio's events, connections, resets and the stream thread leave
\* is_advertising telling the truth, so that advertising can always be started
\* again.
THEOREM FlagCorrect == ASSUME SlowPeer PROVE Spec => []FlagTruthful
<1>1. Inv => FlagTruthful
  BY DEF Inv, LinkInv, FlagTruthful
<1> QED
  BY <1>1, InvHolds, PTL

\* adv_work_handler finds neither the flag set nor the advertising set enabled,
\* for which bt_le_ext_adv_start would return a fatal error.
THEOREM StartsAreClean == ASSUME SlowPeer PROVE Spec => []NeverStartedTwice
<1>1. Inv => NeverStartedTwice
  BY DEF Inv, LinkInv, NeverStartedTwice, Ready
<1> QED
  BY <1>1, InvHolds, PTL

\* adv_work retries forever only after a session, and only because the stream
\* thread holds the connection object.
THEOREM SpinCorrect == ASSUME SlowPeer PROVE Spec => []SpinsOnlyForStream
<1>1. Inv => SpinsOnlyForStream
  BY DEF Inv, LinkInv, LinkTypeOK, Spins, SpinsOnlyForStream
<1> QED
  BY <1>1, InvHolds, PTL

\* The flag to unpair is up exactly while a connection with a peer that failed to
\* authenticate lives or goes down, so that on_disconnected unpairs that peer.
THEOREM UnpairCorrect == ASSUME SlowPeer PROVE Spec => []UnpairsTheFailed
<1>1. Inv => UnpairsTheFailed
  BY DEF Inv, LinkInv, UnpairsTheFailed
<1> QED
  BY <1>1, InvHolds, PTL

\* The watchdog does its work in the composition as well: what spins is ended.
THEOREM SpinIsEnded == ASSUME SlowPeer PROVE Spec => [](NoFalseReset /\ StuckIsReset)
<1>1. Inv => NoFalseReset /\ StuckIsReset
  BY WatchdogAssumption, WatchdogInvSafe DEF Inv
<1> QED
  BY <1>1, InvHolds, PTL
=============================================================================
