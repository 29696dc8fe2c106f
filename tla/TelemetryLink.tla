---------------------------- MODULE TelemetryLink ----------------------------
(***************************************************************************)
(* The telemetry connection: TelemetryNetClient with the loop thread that  *)
(* reads it, the WatchdogTimer thread that closes it after 2 s of silence, *)
(* and the thread that connects it (REMA::connect, REMA::reconnect).       *)
(*                                                                         *)
(* Time goes in ticks.  The threads are prompt: a Tick waits until none of *)
(* them has anything to do, except the one blocked in select().  The RTU   *)
(* and the sockets are external.                                           *)
(***************************************************************************)
EXTENDS Naturals

CONSTANTS WatchdogTicks,     \* the watchdog's timeout (2 s)
          ConnectTicks,      \* the longest select() in connect (5 s)
          MaxReconnects,     \* bound: calls of REMA::reconnect
          RtuMayFallSilent   \* the RTU may stop sending, or hang up

ASSUME TicksPositive ==
  /\ WatchdogTicks \in Nat \ {0}
  /\ ConnectTicks \in Nat \ {0}
ASSUME MaxReconnectsNat == MaxReconnects \in Nat
ASSUME RtuMayFallSilentBoolean == RtuMayFallSilent \in BOOLEAN

VARIABLES
  isConnected,   \* NetClient::is_connected
  sock,          \* the state of socket_
  data,          \* socket_ has received something not yet read
  sending,       \* external: the RTU sends telemetry
  caller,        \* where the connecting thread is
  selecting,     \* ticks it has been in select()
  reconnects,    \* calls of reconnect so far
  started,       \* alreadyStarted
  loop,          \* where the loop thread is
  watchdog,      \* where the watchdog thread is
  resetFlag, pauseFlag,
  waited,        \* ticks since its wait_for began
  unfed          \* history: ticks since the last reset() or resume(), up
                 \* to one more than the timeout

linkVars == <<isConnected, sock, data, sending>>
callerVars == <<caller, selecting, reconnects, started>>
watchdogVars == <<watchdog, resetFlag, pauseFlag, waited>>
vars == <<linkVars, callerVars, loop, watchdogVars, unfed>>

SocketStates == {"none", "connecting", "up", "ended", "shut"}
CallerPcs == {"idle", "closeFlag", "closeSocket", "open", "select",
              "setConnected", "resume", "notify", "start"}
LoopPcs == {"off", "check", "parking", "asleep", "recv", "callback"}
WatchdogPcs == {"off", "wait", "closeFlag", "closeSocket"}

\* rema is a static object, so the watchdog's flags start at zero.  main
\* is about to connect.
Init ==
  /\ isConnected = FALSE /\ sock = "none" /\ data = FALSE /\ sending = TRUE
  /\ caller = "open" /\ selecting = 0 /\ reconnects = 0 /\ started = FALSE
  /\ loop = "off" /\ watchdog = "off"
  /\ resetFlag = FALSE /\ pauseFlag = FALSE
  /\ waited = 0 /\ unfed = 0

\* shutdown() of socket_.
Shut == sock' = IF sock = "none" THEN "none" ELSE "shut"

\* The watchdog's mutex is free: it is inside wait_for or not started.
WatchdogUnlocked == watchdog \in {"off", "wait"}

-----------------------------------------------------------------------------
(* Actions below with one defect each, to try the properties on.           *)

\* resume() does not set resetFlag.
ResumeWithoutReset ==
  /\ caller = "resume"
  /\ WatchdogUnlocked
  /\ pauseFlag' = FALSE
  /\ unfed' = 0
  /\ caller' = "notify"
  /\ UNCHANGED <<linkVars, selecting, reconnects, started, loop, watchdog,
                 resetFlag, waited>>

\* connect() does not resume the watchdog.
ResumeForgotten ==
  /\ caller = "resume"
  /\ unfed' = 0
  /\ caller' = "notify"
  /\ UNCHANGED <<linkVars, selecting, reconnects, started, loop,
                 watchdogVars>>

\* start() does not remember that it has been called.
StartForgotten ==
  /\ caller = "start"
  /\ IF started
     THEN UNCHANGED <<loop, watchdog, waited>>
     ELSE loop' = "check" /\ watchdog' = "wait" /\ waited' = 0
  /\ caller' = "idle"
  /\ UNCHANGED <<linkVars, selecting, reconnects, started, resetFlag,
                 pauseFlag, unfed>>

-----------------------------------------------------------------------------
(* REMA::reconnect and TelemetryNetClient::connect                         *)

Reconnect ==
  /\ caller = "idle"
  /\ reconnects < MaxReconnects
  /\ reconnects' = reconnects + 1
  /\ caller' = "closeFlag"
  /\ UNCHANGED <<linkVars, selecting, started, loop, watchdogVars, unfed>>

CloseFlag ==
  /\ caller = "closeFlag"
  /\ isConnected' = FALSE
  /\ caller' = "closeSocket"
  /\ UNCHANGED <<sock, data, sending, selecting, reconnects, started, loop,
                 watchdogVars, unfed>>

CloseSocket ==
  /\ caller = "closeSocket"
  /\ Shut
  /\ caller' = "open"
  /\ UNCHANGED <<isConnected, data, sending, selecting, reconnects, started,
                 loop, watchdogVars, unfed>>

\* socket_ = socket(...); then ::connect, which does not block.
OpenSocket ==
  /\ caller = "open"
  /\ sock' = "connecting" /\ data' = FALSE
  /\ selecting' = 0
  /\ caller' = "select"
  /\ UNCHANGED <<isConnected, sending, reconnects, started, loop,
                 watchdogVars, unfed>>

\* select() reports the socket: the RTU accepted, or the watchdog shut it
\* down and SO_ERROR has nothing to report.
Established ==
  /\ caller = "select"
  /\ sock' = IF sock = "connecting" THEN "up" ELSE sock
  /\ caller' = "setConnected"
  /\ UNCHANGED <<isConnected, data, sending, selecting, reconnects, started,
                 loop, watchdogVars, unfed>>

\* The RTU refuses, or does not answer until select() times out, or the
\* shut socket has an error to report.
NotEstablished ==
  /\ caller = "select"
  /\ sock' = "shut"
  /\ caller' = "idle"
  /\ UNCHANGED <<isConnected, data, sending, selecting, reconnects, started,
                 loop, watchdogVars, unfed>>

SetConnected ==
  /\ caller = "setConnected"
  /\ isConnected' = TRUE
  /\ caller' = "resume"
  /\ UNCHANGED <<sock, data, sending, selecting, reconnects, started, loop,
                 watchdogVars, unfed>>

Resume ==
  /\ caller = "resume"
  /\ WatchdogUnlocked
  /\ resetFlag' = TRUE /\ pauseFlag' = FALSE
  /\ unfed' = 0
  /\ caller' = "notify"
  /\ UNCHANGED <<linkVars, selecting, reconnects, started, loop, watchdog,
                 waited>>

\* notify_all without the mutex: a loop thread that has found is_connected
\* false and is not yet blocked does not hear it.
Notify ==
  /\ caller = "notify"
  /\ loop' = IF loop = "asleep" THEN "check" ELSE loop
  /\ caller' = "start"
  /\ UNCHANGED <<linkVars, selecting, reconnects, started, watchdogVars,
                 unfed>>

\* TelemetryNetClient::start: both threads, the first time.
Start ==
  /\ caller = "start"
  /\ started' = TRUE
  /\ IF started
     THEN UNCHANGED <<loop, watchdog, waited>>
     ELSE loop' = "check" /\ watchdog' = "wait" /\ waited' = 0
  /\ caller' = "idle"
  /\ UNCHANGED <<linkVars, selecting, reconnects, resetFlag, pauseFlag,
                 unfed>>

-----------------------------------------------------------------------------
(* TelemetryNetClient::loop                                                *)

CheckConnected ==
  /\ loop = "check"
  /\ loop' = IF isConnected THEN "recv" ELSE "parking"
  /\ UNCHANGED <<linkVars, callerVars, watchdogVars, unfed>>

Park ==
  /\ loop = "parking"
  /\ loop' = "asleep"
  /\ UNCHANGED <<linkVars, callerVars, watchdogVars, unfed>>

\* get_response_binary with something to return.
ReceiveData ==
  /\ loop = "recv"
  /\ data
  /\ data' = FALSE
  /\ loop' = "callback"
  /\ UNCHANGED <<isConnected, sock, sending, callerVars, watchdogVars, unfed>>

\* ... with nothing: the socket is at its end or not connected, or
\* is_connected has gone down.
ReceiveNothing ==
  /\ loop = "recv"
  /\ ~data
  /\ sock # "up" \/ ~isConnected
  /\ loop' = "check"
  /\ UNCHANGED <<linkVars, callerVars, watchdogVars, unfed>>

\* onReceiveCb, then disconnect_watchdog.reset().
ResetWatchdog ==
  /\ loop = "callback"
  /\ WatchdogUnlocked
  /\ resetFlag' = TRUE
  /\ unfed' = 0
  /\ loop' = "check"
  /\ UNCHANGED <<linkVars, callerVars, watchdog, pauseFlag, waited>>

-----------------------------------------------------------------------------
(* WatchdogTimer::watchdogLoop, which holds its mutex while it closes.     *)

Feed ==
  /\ watchdog = "wait"
  /\ resetFlag
  /\ resetFlag' = FALSE
  /\ waited' = 0
  /\ UNCHANGED <<linkVars, callerVars, loop, watchdog, pauseFlag, unfed>>

TimedOut == watchdog = "wait" /\ waited = WatchdogTicks /\ ~resetFlag

ExpirePaused ==
  /\ TimedOut
  /\ pauseFlag
  /\ waited' = 0
  /\ UNCHANGED <<linkVars, callerVars, loop, watchdog, resetFlag, pauseFlag,
                 unfed>>

Expire ==
  /\ TimedOut
  /\ ~pauseFlag
  /\ pauseFlag' = TRUE
  /\ watchdog' = "closeFlag"
  /\ UNCHANGED <<linkVars, callerVars, loop, resetFlag, waited, unfed>>

WatchdogClosesFlag ==
  /\ watchdog = "closeFlag"
  /\ isConnected' = FALSE
  /\ watchdog' = "closeSocket"
  /\ UNCHANGED <<sock, data, sending, callerVars, loop, resetFlag, pauseFlag,
                 waited, unfed>>

WatchdogClosesSocket ==
  /\ watchdog = "closeSocket"
  /\ Shut
  /\ watchdog' = "wait"
  /\ waited' = 0
  /\ UNCHANGED <<isConnected, data, sending, callerVars, loop, resetFlag,
                 pauseFlag, unfed>>

-----------------------------------------------------------------------------
(* External: the RTU and time.                                             *)

FallSilent ==
  /\ RtuMayFallSilent
  /\ sending
  /\ sending' = FALSE
  /\ \/ UNCHANGED sock
     \/ sock = "up" /\ sock' = "ended"
  /\ UNCHANGED <<isConnected, data, callerVars, loop, watchdogVars, unfed>>

SendAgain ==
  /\ ~sending
  /\ sending' = TRUE
  /\ UNCHANGED <<isConnected, sock, data, callerVars, loop, watchdogVars,
                 unfed>>

\* No thread has anything to do but wait (or, at the end of a connection
\* that is_connected still calls open, to spin).
AllWait ==
  /\ caller \in {"idle", "select"}
  /\ caller = "select" => sock = "connecting" /\ selecting < ConnectTicks
  /\ \/ loop \in {"off", "asleep"}
     \/ loop \in {"recv", "check"} /\ ~data /\ isConnected
  /\ watchdog \in {"off", "wait"}
  /\ ~(watchdog = "wait" /\ resetFlag) /\ waited < WatchdogTicks

Tick ==
  /\ AllWait
  /\ selecting' = IF caller = "select" THEN selecting + 1 ELSE selecting
  /\ waited' = IF watchdog = "wait" THEN waited + 1 ELSE waited
  /\ unfed' = IF unfed <= WatchdogTicks THEN unfed + 1 ELSE unfed
  /\ data' = (sending /\ sock = "up")
  /\ UNCHANGED <<isConnected, sock, sending, caller, reconnects, started,
                 loop, watchdog, resetFlag, pauseFlag>>

-----------------------------------------------------------------------------
CallerStep ==
  \/ CloseFlag \/ CloseSocket \/ OpenSocket \/ Established \/ NotEstablished
  \/ SetConnected \/ Resume \/ Notify \/ Start
LoopStep == CheckConnected \/ Park \/ ReceiveData \/ ReceiveNothing
              \/ ResetWatchdog
WatchdogStep == Feed \/ ExpirePaused \/ Expire \/ WatchdogClosesFlag
                  \/ WatchdogClosesSocket

Next == \/ Reconnect \/ CallerStep \/ LoopStep \/ WatchdogStep
        \/ FallSilent \/ SendAgain \/ Tick

Spec == Init /\ [][Next]_vars

\* The threads run and time passes.
FairSpec ==
  /\ Spec
  /\ WF_vars(CallerStep) /\ WF_vars(LoopStep) /\ WF_vars(WatchdogStep)
  /\ WF_vars(Tick)

-----------------------------------------------------------------------------
\* The variables have their types.
TypeOK ==
  /\ isConnected \in BOOLEAN /\ sock \in SocketStates
  /\ data \in BOOLEAN /\ sending \in BOOLEAN
  /\ caller \in CallerPcs /\ selecting \in 0 .. ConnectTicks
  /\ reconnects \in 0 .. MaxReconnects /\ started \in BOOLEAN
  /\ loop \in LoopPcs /\ watchdog \in WatchdogPcs
  /\ resetFlag \in BOOLEAN /\ pauseFlag \in BOOLEAN
  /\ waited \in 0 .. WatchdogTicks /\ unfed \in 0 .. WatchdogTicks + 1
  /\ ~started => loop = "off" /\ watchdog = "off"

\* The watchdog closes a connection only after a whole timeout without a
\* reset() or a resume(), however they interleave with its wait
\* (watchdogLoop).
WatchdogIsPatient ==
  watchdog \in {"closeFlag", "closeSocket"} => unfed = WatchdogTicks

\* And it does close it then: beside an open connection, once the watchdog has
\* been resumed for it, there is never more than a timeout without a reset(),
\* whatever the watchdog was doing when the connection was made (it pauses
\* itself when it closes one) and whether or not the loop thread reads.
SilenceHasADeadline ==
  isConnected /\ started /\ caller # "resume" => unfed <= WatchdogTicks

\* A connection that is silent or gone is noticed: is_connected, which the
\* page's reconnect dialog follows, does not stay up unless telemetry comes.
SilenceIsNoticed == isConnected ~> (~isConnected \/ loop = "callback")

\* "NetClient::connect will change is_connected to true if successful"
\* (telemetry_net_client.hpp): so the notification after it finds every
\* waiting loop thread and none goes on sleeping beside an open connection.
ConnectWakesTheLoop ==
  caller = "start" /\ isConnected => loop # "asleep"

=============================================================================
