-------------------------------- MODULE Link --------------------------------
(***************************************************************************)
(* Advertising and the connection object.  The system work queue runs its  *)
(* handlers one by one, here in any order; the Bluetooth thread interrupts *)
(* it only where a handler waits; the stream thread runs when neither has  *)
(* anything to do.                                                         *)
(*                                                                         *)
(* There is one connection object (BT_MAX_CONN).  Advertising needs it, so *)
(* bt_le_ext_adv_start returns -ENOMEM as long as somebody holds a         *)
(* reference to the last connection, and adv_work_handler submits itself   *)
(* again at once.  If it is the stream thread that holds it, the queue     *)
(* never lets it run: only the watchdog, whose heartbeat starves as well,  *)
(* ends that.  Hence the watchdog is part of this module.                  *)
(*                                                                         *)
(* Left out: what the connection carries (modules BulkStream, LogStore)    *)
(* and the sensor's part of the callbacks (module SensorControl).          *)
(***************************************************************************)
EXTENDS Watchdog

CONSTANTS
  AdvertiseOnDisconnect,    \* CONFIG_APP_ADVERTISE_ON_DISCONNECT
  IdleStart, ActiveStart,   \* CONSEC_ADVERTISING_START / the interval
  Byte,                     \* 2^8: consec_detect is a uint8_t
  SlowPeer                  \* no peer connects, and no window ends, before
                            \* adv_work_handler has resumed

ASSUME LinkAssumption ==
  /\ {AdvertiseOnDisconnect, SlowPeer} \subseteq BOOLEAN
  /\ {IdleStart, ActiveStart} \subseteq 0..(Byte - 1)
  /\ Byte \in Nat

VARIABLES
  queued,   \* works submitted to the system queue
  resuming, \* adv_work_handler has started the radio, not yet set the flag
  delayed,  \* adv_timeout_work waits for its 100 ms
  adv,      \* is_advertising
  conn,     \* conn, the application's pointer
  bond,     \* clear_bond_on_disconnect
  consec,   \* consec_detect
  there,    \* an object stays in front of the sensor
  radio,    \* the advertising set is enabled
  sent,     \* the window has ended, adv_sent_cb is yet to be called
  link,     \* "none", "coming", "up", "down": the last two are on_connected's
            \* and on_disconnected's business
  refs,     \* who holds the connection object
  failed    \* ghost: the last peer to connect failed to authenticate

ble == <<radio, sent, link, refs>>
app == <<adv, conn, bond, consec, failed>>
queue == <<queued, resuming, delayed>>
vars == <<wvars, ble, app, queue, there>>

-----------------------------------------------------------------------------
\* Faulty variants: each is substituted for a definition below to see which
\* property notices the mistake.
StartsUnlessWaiting(q, connected, wait) ==
  IF adv \/ connected \/ wait
    THEN queued' = q /\ delayed' = wait
    ELSE queued' = (q \ {"timeout"}) \union {"adv"} /\ delayed' = FALSE
FlagForgotten == FALSE
FlagKept == adv
BondKept == bond
NothingUnreffed == {}
BounceWraps == (consec + 1) % ActiveStart
-----------------------------------------------------------------------------
\* adv_work_handler is submitted and submits itself while the object is held.
Spins(q, held) == "adv" \in q /\ held # {}

\* Every step of this module, so that the sensor queue is stuck while
\* adv_work_handler spins.
OnWatchdog ==
  /\ Sticks(Spins(queued', refs'))
  /\ UNCHANGED <<mode, faults>>

\* atomic_set(&is_advertising, ...) in adv_work_handler and in adv_sent_cb.
FlagSet == TRUE
FlagCleared == FALSE

\* What on_disconnected lets go of, and what it leaves of the flag to unpair.
Unreffed == {"app"}
BondLeft == FALSE

\* -ENOMEM: adv_work_handler submits itself again.
Retried(q) == q \union {"adv"}

Ready == mode = "run" /\ ~resuming

\* advertising_start, called with the state it finds: the work of a handler that
\* it cancels, and the one it submits.
AdvertisingStart(q, connected, wait) ==
  IF adv \/ connected
    THEN queued' = q /\ delayed' = wait
    ELSE queued' = (q \ {"timeout"}) \union {"adv"} /\ delayed' = FALSE

-----------------------------------------------------------------------------
(***************************************************************************)
(* The system queue.                                                       *)
(***************************************************************************)
Runs(w) == Ready /\ w \in queued

\* adv_work_handler.  By NeverStartedTwice it never finds the flag set, nor the
\* set enabled, which would be fatal.
AdvStarts ==
  /\ Runs("adv") /\ ~adv /\ ~radio /\ refs = {}
  /\ queued' = queued \ {"adv"} /\ resuming' = TRUE
  /\ radio' = TRUE
  /\ UNCHANGED <<delayed, app, sent, link, refs, there>>
  /\ OnWatchdog

AdvRetries ==
  /\ Runs("adv") /\ ~adv /\ ~radio /\ refs # {}
  /\ queued' = Retried(queued \ {"adv"})
  /\ UNCHANGED <<resuming, delayed, app, ble, there>>
  /\ OnWatchdog

AdvResumes ==
  /\ mode = "run" /\ resuming
  /\ resuming' = FALSE
  /\ adv' = FlagSet
  /\ UNCHANGED <<queued, delayed, conn, bond, consec, failed, ble, there>>
  /\ OnWatchdog

\* adv_timeout_work_handler
TimeoutStops ==
  /\ Runs("timeout")
  /\ queued' = queued \ {"timeout"}
  /\ IF conn \/ adv
       THEN UNCHANGED <<radio, adv>>
       ELSE radio' = FALSE /\ adv' = FALSE
  /\ UNCHANGED <<resuming, delayed, conn, bond, consec, failed, sent, link, refs, there>>
  /\ OnWatchdog

DelayEnds ==
  /\ mode = "run" /\ delayed
  /\ delayed' = FALSE
  /\ queued' = queued \union {"timeout"}
  /\ UNCHANGED <<resuming, app, ble, there>>
  /\ OnWatchdog

\* on_disconnected; the stack drops its own reference when it returns.
OnDisconnected ==
  /\ Runs("gone")
  /\ conn' = FALSE /\ bond' = BondLeft
  /\ link' = "none"
  /\ refs' = refs \ (Unreffed \union {"stack"})
  /\ IF AdvertiseOnDisconnect
       THEN AdvertisingStart(queued \ {"gone"}, FALSE, TRUE)
       ELSE queued' = queued \ {"gone"} /\ delayed' = TRUE
  /\ UNCHANGED <<resuming, adv, consec, failed, radio, sent, there>>
  /\ OnWatchdog

\* What counter_work_handler makes of an object that is still there, or of a new
\* one.  A run that began before a connection may end in it.
StartsAgain(n) == consec >= n /\ ~adv /\ ~conn
Bounced == (consec + 1) % Byte

Bounces(n) ==
  /\ Ready /\ there
  /\ IF StartsAgain(n)
       THEN consec' = 0 /\ AdvertisingStart(queued, conn, delayed)
       ELSE consec' = Bounced /\ UNCHANGED <<queued, delayed>>
  /\ UNCHANGED <<resuming, adv, conn, bond, failed, ble, there>>
  /\ OnWatchdog

\* The first event ever does not reset consec_detect.
Crosses ==
  /\ Ready /\ ~there
  /\ there' \in BOOLEAN
  /\ consec' \in {consec, 0}
  /\ UNCHANGED <<queue, adv, conn, bond, failed, ble>>
  /\ OnWatchdog

Leaves ==
  /\ mode = "run" /\ there
  /\ there' = FALSE
  /\ UNCHANGED <<queue, app, ble>>
  /\ OnWatchdog

(***************************************************************************)
(* The Bluetooth thread.                                                   *)
(***************************************************************************)
Receives == mode = "run" /\ (SlowPeer => ~resuming)

PeerConnects ==
  /\ Receives /\ radio
  /\ radio' = FALSE /\ link' = "coming" /\ refs' = refs \union {"stack"}
  /\ failed' = FALSE
  /\ UNCHANGED <<queue, adv, conn, bond, consec, sent, there>>
  /\ OnWatchdog

OnConnected ==
  /\ Receives /\ link = "coming"
  /\ link' = "up"
  /\ conn' = TRUE /\ refs' = refs \union {"app"}
  /\ adv' = FALSE /\ consec' = 0
  /\ delayed' = FALSE
  /\ queued' = queued \ {"timeout"}
  /\ UNCHANGED <<resuming, bond, failed, radio, sent, there>>
  /\ OnWatchdog

\* Its sensor interrupt cannot be disabled.
OnConnectedFails ==
  /\ Receives /\ link = "coming"
  /\ Fatal
  /\ UNCHANGED <<queue, app, ble, there>>

\* security_changed with an authentication failure.  It asks for a disconnection
\* and ignores the answer: the connection may live on.
SecurityFails ==
  /\ Receives /\ link = "up"
  /\ bond' = TRUE /\ failed' = TRUE
  /\ UNCHANGED <<queue, adv, conn, consec, ble, there>>
  /\ OnWatchdog

\* The connection ends, for that reason or another.
LinkEnds ==
  /\ Receives /\ link = "up"
  /\ link' = "down"
  /\ queued' = queued \union {"gone"}
  /\ UNCHANGED <<resuming, delayed, app, radio, sent, refs, there>>
  /\ OnWatchdog

WindowEnds ==
  /\ Receives /\ radio
  /\ radio' = FALSE /\ sent' = TRUE
  /\ UNCHANGED <<queue, app, link, refs, there>>
  /\ OnWatchdog

\* adv_sent_cb
AdvSent ==
  /\ Receives /\ sent
  /\ sent' = FALSE
  /\ adv' = FlagCleared
  /\ delayed' = (delayed \/ "timeout" \notin queued)
  /\ UNCHANGED <<queued, resuming, conn, bond, consec, failed, radio, link, refs, there>>
  /\ OnWatchdog

(***************************************************************************)
(* The stream thread, bulk_stream_work_handler's use of the connection.    *)
(***************************************************************************)
StreamTakes ==
  /\ mode = "run" /\ ~stuck
  /\ conn /\ "stream" \notin refs
  /\ refs' = refs \union {"stream"}
  /\ UNCHANGED <<queue, app, radio, sent, link, there>>
  /\ OnWatchdog

StreamDrops ==
  /\ mode = "run" /\ ~stuck
  /\ "stream" \in refs
  /\ refs' = refs \ {"stream"}
  /\ UNCHANGED <<queue, app, radio, sent, link, there>>
  /\ OnWatchdog

(***************************************************************************)
(* The watchdog, the end of main, which starts advertising, and a reset.   *)
(***************************************************************************)
Boot ==
  /\ Booted /\ UNCHANGED jam
  /\ AdvertisingStart(queued, conn, delayed)
  /\ UNCHANGED <<resuming, app, ble, there>>

Watch ==
  /\ Heartbeat \/ Feed \/ Tick \/ Panic
  /\ UNCHANGED <<queue, app, ble, there>>

Restart ==
  /\ Reset
  /\ queued' = {} /\ resuming' = FALSE /\ delayed' = FALSE
  /\ adv' = FALSE /\ conn' = FALSE /\ bond' = FALSE /\ consec' = 0 /\ failed' = FALSE
  /\ radio' = FALSE /\ sent' = FALSE /\ link' = "none" /\ refs' = {}
  /\ UNCHANGED there

-----------------------------------------------------------------------------
Init ==
  /\ WatchdogInit
  /\ queued = {} /\ resuming = FALSE /\ delayed = FALSE
  /\ adv = FALSE /\ conn = FALSE /\ bond = FALSE /\ consec = 0 /\ failed = FALSE
  /\ radio = FALSE /\ sent = FALSE /\ link = "none" /\ refs = {}
  /\ there = FALSE

Bouncing == \E n \in {IdleStart, ActiveStart} : Bounces(n)

Next ==
  \/ AdvStarts \/ AdvRetries \/ AdvResumes \/ DelayEnds \/ TimeoutStops \/ OnDisconnected
  \/ Bouncing \/ Crosses \/ Leaves
  \/ PeerConnects \/ OnConnected \/ OnConnectedFails \/ SecurityFails \/ LinkEnds
  \/ WindowEnds \/ AdvSent
  \/ StreamTakes \/ StreamDrops
  \/ Boot \/ Watch \/ Restart

\* Queues and callbacks run, time passes, the stream thread is not blocked for
\* ever, and the sensor goes on measuring an object that stays.
Fairness ==
  /\ WF_vars(AdvStarts) /\ WF_vars(AdvResumes) /\ WF_vars(DelayEnds) /\ WF_vars(TimeoutStops)
  /\ WF_vars(OnDisconnected) /\ WF_vars(Bouncing)
  /\ WF_vars(OnConnected) /\ WF_vars(AdvSent)
  /\ WF_vars(StreamDrops)
  /\ WF_vars(Boot) /\ WF_vars(Watch /\ Tick) /\ WF_vars(Watch /\ Feed)
  /\ WF_vars(Watch /\ Heartbeat) /\ WF_vars(Restart)

Spec == Init /\ [][Next]_vars /\ Fairness

-----------------------------------------------------------------------------
Works == {"adv", "timeout", "gone"}

\* Every variable has its type.
LinkTypeOK ==
  /\ queued \subseteq Works
  /\ {resuming, delayed, adv, conn, bond, failed, there, radio, sent} \subseteq BOOLEAN
  /\ consec \in 0..(Byte - 1)
  /\ link \in {"none", "coming", "up", "down"}
  /\ refs \subseteq {"app", "stack", "stream"}

\* is_advertising is set only while the radio advertises or somebody is about to
\* be told that it has stopped: otherwise nothing would ever clear the flag, and
\* advertising_start would do nothing any more.
FlagTruthful == adv => radio \/ sent \/ link = "coming"

\* When adv_work_handler runs, the flag is clear and the set not enabled, for
\* which bt_le_ext_adv_start would return an error that is fatal.
NeverStartedTwice == Ready /\ "adv" \in queued => ~radio /\ ~adv

\* adv_work_handler only spins when the peer is gone and the stream thread holds
\* the object: never while a connection lives, which it would stop for good.
SpinsOnlyForStream == stuck => link = "none" /\ ~conn /\ refs = {"stream"}

\* on_disconnected unpairs the peer that failed to authenticate, and no other: the
\* flag is up as long as a connection with such a peer lives or goes down, also
\* when the request to end it failed, and never reaches the next connection.
UnpairsTheFailed == bond <=> failed /\ link \in {"up", "down"}

\* With CONFIG_APP_ADVERTISE_ON_DISCONNECT a new window starts after the end of a
\* connection, without a reset, unless the stream thread holds the connection
\* object when on_disconnected has run: adv_work_handler then spins until the
\* watchdog resets the device.
Overtaken == stuck /\ "stream" \in refs
AdvertisesAgain == AdvertiseOnDisconnect => (link = "down" ~> radio \/ Overtaken \/ mode # "run")

\* An object that stays in front of the sensor is how a user asks for a
\* connection: the device then advertises, again and again.
AdvertisesOnRequest == <>[](there /\ mode # "fatal") => []<>(radio \/ link # "none")
=============================================================================
