------------------------------- MODULE Joystick -------------------------------
(***************************************************************************)
(* The joystick dialog of the page (joystick.html) over the socket of      *)
(* WebSocketClient: a button or key held down moves an axis, releasing it  *)
(* sends "SS" (soft stop).  The emergency stop goes by REST, not over the  *)
(* socket.  The operator, the focus and the controller, which moves until  *)
(* it is told otherwise, are external.                                     *)
(***************************************************************************)
EXTENDS WebSocketClient

CONSTANTS Keys,            \* numeric keypad keys bound to a direction
          MaxPresses       \* bound: presses of a button or key

ASSUME KeysFinite == IsFiniteSet(Keys)
ASSUME MaxPressesNat == MaxPresses \in Nat
ASSUME StopAndGo == {"go", "SS"} \subseteq Commands

VARIABLES
  moving,            \* the page has sent a move it has not stopped
  joystickPressed,   \* a mouse button is down on an arrow, says the page
  mouseIsDown,       \* and is down at all, says the page
  keysPressed,       \* the keys the page takes for pressed
  mouseHeld,         \* the operator's mouse button, as it is
  keysHeld,          \* the operator's keys, as they are
  presses,           \* presses so far
  overruled          \* history: the last command sent when an emergency
                     \* stop took the place of a move's "SS"

pageVars == <<moving, joystickPressed, mouseIsDown, keysPressed>>
operatorVars == <<mouseHeld, keysHeld, presses>>
joystickVars == <<vars, pageVars, operatorVars, overruled>>

\* The page has made its client, some time after the dialog was opened: what
\* is pressed by then has moved nothing.
JoystickInit ==
  /\ Init
  /\ moving = FALSE
  /\ mouseHeld \in BOOLEAN /\ mouseIsDown = mouseHeld
  /\ joystickPressed \in BOOLEAN /\ (joystickPressed => mouseIsDown)
  /\ keysHeld \in SUBSET Keys /\ keysPressed = keysHeld
  /\ presses = 0 /\ overruled = 0

\* With a defect, to try the properties on: the "SS" goes out although
\* nothing moves, and not when something does.
StopInverted ==
  /\ moving' = FALSE
  /\ IF ~moving THEN Send("SS") ELSE UNCHANGED vars

\* stop(): nothing to do unless a move was sent; nobody forces it.
Stop ==
  /\ moving' = FALSE
  /\ IF moving THEN Send("SS") ELSE UNCHANGED vars

\* joystick_btn_pressed of an arrow.
PressArrow ==
  /\ moving' = TRUE
  /\ Send("go")

-----------------------------------------------------------------------------
\* emergency_stop, on Ctrl+Space or its button: no "SS", the stop is a
\* REST request.
EmergencyStop ==
  /\ moving' = FALSE
  /\ overruled' = IF moving THEN sent ELSE overruled
  /\ UNCHANGED <<vars, joystickPressed, mouseIsDown, keysPressed, operatorVars>>

PressMouse ==
  /\ ~mouseHeld
  /\ presses < MaxPresses
  /\ mouseHeld' = TRUE
  /\ presses' = presses + 1
  /\ mouseIsDown' = TRUE
  /\ UNCHANGED <<keysPressed, keysHeld, overruled>>

\* mousedown on an arrow.
MouseDown ==
  /\ PressMouse
  /\ joystickPressed' = TRUE
  /\ PressArrow

\* mousedown anywhere else in the document.
MouseDownElsewhere ==
  /\ PressMouse
  /\ UNCHANGED <<vars, moving, joystickPressed>>

\* joystick_btn_released, for the mouse.
MouseReleased ==
  /\ joystickPressed' = FALSE
  /\ IF joystickPressed THEN Stop ELSE UNCHANGED <<vars, moving>>

\* mouseup anywhere in the document.
MouseUp ==
  /\ mouseHeld
  /\ mouseHeld' = FALSE
  /\ mouseIsDown' = FALSE
  /\ MouseReleased
  /\ UNCHANGED <<keysPressed, keysHeld, presses, overruled>>

\* The window loses the focus.
Blur ==
  /\ MouseReleased
  /\ UNCHANGED <<mouseIsDown, keysPressed, operatorVars, overruled>>

\* The timer of 200 ms "for stuck state".
SafetyTimer ==
  /\ IF joystickPressed /\ ~mouseIsDown
     THEN Stop /\ joystickPressed' = FALSE
     ELSE UNCHANGED <<vars, moving, joystickPressed>>
  /\ UNCHANGED <<mouseIsDown, keysPressed, operatorVars, overruled>>

\* keydown; a key taken for pressed is a repetition and is ignored.
KeyDown(k) ==
  /\ k \notin keysHeld
  /\ presses < MaxPresses
  /\ keysHeld' = keysHeld \cup {k}
  /\ presses' = presses + 1
  /\ IF k \in keysPressed
     THEN UNCHANGED <<vars, moving, keysPressed>>
     ELSE PressArrow /\ keysPressed' = keysPressed \cup {k}
  /\ UNCHANGED <<joystickPressed, mouseIsDown, mouseHeld, overruled>>

\* keyup of any key is the release of all.
KeyUp(k) ==
  /\ k \in keysHeld
  /\ keysHeld' = keysHeld \ {k}
  /\ keysPressed' = keysPressed \ {k}
  /\ Stop
  /\ UNCHANGED <<joystickPressed, mouseIsDown, mouseHeld, presses, overruled>>

\* A release that another window or dialog gets.
ReleasedElsewhere ==
  /\ \/ mouseHeld /\ mouseHeld' = FALSE /\ UNCHANGED keysHeld
     \/ \E k \in keysHeld : keysHeld' = keysHeld \ {k} /\ UNCHANGED mouseHeld
  /\ UNCHANGED <<vars, pageVars, presses, overruled>>

OnTheSocket == SocketEvent /\ UNCHANGED <<pageVars, operatorVars, overruled>>

JoystickNext ==
  \/ MouseDown \/ MouseDownElsewhere \/ MouseUp \/ Blur
  \/ EmergencyStop \/ SafetyTimer
  \/ \E k \in Keys : KeyDown(k) \/ KeyUp(k)
  \/ ReleasedElsewhere \/ OnTheSocket

JoystickSpec == JoystickInit /\ [][JoystickNext]_joystickVars

\* The browser runs the socket's events and timers; the operator may rest.
FairJoystick == JoystickSpec /\ Fairness /\ WF_joystickVars(SafetyTimer)

-----------------------------------------------------------------------------
NothingPressed == ~joystickPressed /\ keysPressed = {}
StopBehind(s) ==
  \/ \E i \in DOMAIN wire[s] : wire[s][i].cmd = "SS"
  \/ \E i \in DOMAIN pending : pending[i].cmd = "SS"

\* "catches all releases" (joystick.html): a move that the controller takes
\* when nothing is pressed any more has its stop on the way behind it, over
\* lost connections, unless send() had to drop that stop, or emergency_stop
\* had gone out for it and left a queued move with nothing behind it.
LateMovesAreStopped ==
  [][\A s \in Sockets :
       Receive(s) /\ received'.cmd = "go" /\ NothingPressed
         => \/ StopBehind(s)
            \/ dropped > received'.n \/ overruled >= received'.n]_joystickVars

\* "If no mouse/touch interaction but still pressed, force release" (the
\* safety timer, joystick.html): a press whose button is up is taken back.
UnseenReleasesAreForced ==
  joystickPressed /\ ~mouseHeld ~> ~joystickPressed \/ mouseHeld

=============================================================================
