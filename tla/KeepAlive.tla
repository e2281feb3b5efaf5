------------------------------- MODULE KeepAlive -------------------------------
(***************************************************************************)
(* Keepalive of an established connection: tcp/connect.go, the timer it    *)
(* uses (TcpTimer) and the socket options that change it.  The worker does *)
(* everything but the options, which the application sets under the lock   *)
(* of keepalive and tells the worker about with a notification.            *)
(***************************************************************************)
EXTENDS TcpTimer

CONSTANTS
  IdleTime, Interval, \* keepalive.idle and .interval
  Count               \* keepalive.count

ASSUME KeepAliveAssumption == {IdleTime, Interval} \subseteq Durations /\ Count \in Nat

VARIABLES
  kaEnabled, unacked,
  kaNotified,  \* notifyKeepaliveChanged is posted
  inFlight,    \* sndUna # sndNxt
  kaPc,        \* "idle", "probe": a probe has left; "reset": given up
  unheard,     \* history: probes since the last segment was received
  ignored      \* history: a wake came while the option was off

kaVars == <<timerVars, kaEnabled, unacked, kaNotified, inFlight, kaPc, unheard, ignored>>

KaInit == /\ TimerInit
          /\ kaEnabled = FALSE /\ unacked = 0 /\ kaNotified = FALSE
          /\ inFlight = FALSE /\ kaPc = "idle" /\ unheard = 0
          /\ ignored = FALSE

\* Mistake: the timer runs on while data is in flight.
ResetNeverStops(received, data) ==
  /\ unacked' = IF received THEN 0 ELSE unacked
  /\ IF ~kaEnabled THEN Disable ELSE UNCHANGED timerVars

\* resetKeepaliveTimer, when `data' is in flight.
resetKeepaliveTimer(received, data) ==
  /\ unacked' = IF received THEN 0 ELSE unacked
  /\ IF ~kaEnabled \/ data THEN Disable
     ELSE Enable(IF unacked' > 0 THEN Interval ELSE IdleTime)

\* setsockopt.
SetEnabled(b) == /\ kaPc # "reset"
                 /\ kaEnabled' = b /\ kaNotified' = TRUE
                 /\ UNCHANGED <<timerVars, unacked, inFlight, kaPc, unheard, ignored>>

OptionChanged == /\ kaPc = "idle" /\ kaNotified
                 /\ kaNotified' = FALSE
                 /\ resetKeepaliveTimer(TRUE, inFlight)
                 /\ UNCHANGED <<kaEnabled, inFlight, kaPc, unheard, ignored>>

\* sendData sends something (disableKeepaliveTimer).
SendsData == /\ kaPc = "idle"
             /\ inFlight' = TRUE
             /\ Disable
             /\ UNCHANGED <<kaEnabled, unacked, kaNotified, kaPc, unheard, ignored>>

\* sendData has nothing to send, and nothing is in flight.
SendsNothing == /\ kaPc = "idle" /\ ~inFlight
                /\ resetKeepaliveTimer(FALSE, FALSE)
                /\ UNCHANGED <<kaEnabled, kaNotified, inFlight, kaPc, unheard, ignored>>

\* handleSegments: all that was in flight is acked, or new data is sent.
Hears == /\ kaPc = "idle"
         /\ inFlight' \in BOOLEAN
         /\ resetKeepaliveTimer(TRUE, inFlight')
         /\ unheard' = 0
         /\ UNCHANGED <<kaEnabled, kaNotified, kaPc, ignored>>

\* keepaliveTimerExpired when the option is off: the timer is not looked at.
WakeIgnored ==
  /\ kaPc = "idle" /\ woken /\ woken' = FALSE /\ ~kaEnabled
  /\ ignored' = TRUE
  /\ UNCHANGED <<now, state, target, runtimeTarget, running, firing, reported,
                 kaEnabled, unacked, kaNotified, inFlight, kaPc, unheard>>

\* The timer had not expired.
WakeSpurious ==
  /\ kaPc = "idle" /\ woken /\ woken' = FALSE /\ kaEnabled
  /\ (CheckOrphaned \/ CheckEarly)
  /\ UNCHANGED <<now, firing, kaEnabled, unacked, kaNotified, inFlight, kaPc, unheard, ignored>>

\* It had: one more probe, or the connection is given up.
Probes ==
  /\ kaPc = "idle" /\ woken /\ woken' = FALSE /\ kaEnabled
  /\ CheckExpired
  /\ IF unacked >= Count
     THEN kaPc' = "reset" /\ UNCHANGED <<unacked, unheard>>
     ELSE kaPc' = "probe" /\ unacked' = unacked + 1 /\ unheard' = unheard + 1
  /\ UNCHANGED <<now, firing, kaEnabled, kaNotified, inFlight, ignored>>

\* The lock was given up for the probe.
AfterProbe == /\ kaPc = "probe" /\ kaPc' = "idle"
              /\ resetKeepaliveTimer(FALSE, inFlight)
              /\ UNCHANGED <<kaEnabled, kaNotified, inFlight, unheard, ignored>>

KaRuntime == /\ Runtime
             /\ UNCHANGED <<kaEnabled, unacked, kaNotified, inFlight, kaPc, unheard, ignored>>

KaNext == \/ OptionChanged \/ SendsData \/ SendsNothing \/ Hears
          \/ WakeIgnored \/ WakeSpurious \/ Probes \/ AfterProbe
          \/ KaRuntime \/ \E b \in BOOLEAN : SetEnabled(b)

KaSpec == KaInit /\ [][KaNext]_kaVars

-----------------------------------------------------------------------------
\* While keepalive is on and nothing is in flight, the worker will be woken:
\* a silent peer does not go unnoticed.  The exception is the code's: after a
\* wake that came while the option was off (see the README).
KeepaliveArmed ==
  (kaEnabled /\ ~kaNotified /\ ~inFlight /\ kaPc = "idle" /\ ~ignored)
    => state = "enabled" /\ WakeComes

\* The connection is given up only after Count probes in a row to which
\* nobody answered (connect.go:757).
GivesUpLate == kaPc = "reset" => unheard >= Count

\* Keepalive is sound: neither deaf nor hasty.
KeepaliveIsSound == KeepaliveArmed /\ GivesUpLate
=============================================================================
