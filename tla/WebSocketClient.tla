--------------------------- MODULE WebSocketClient ---------------------------
(***************************************************************************)
(* The browser's connection to the joystick server of the controller:      *)
(* class WebSocketClient of websocket_client.js.  An event handler of the  *)
(* page runs to completion, so each action is one handler with everything  *)
(* it calls.  The browser's sockets and the server, which accepts one      *)
(* client at a time (knowledge.txt), are external.                         *)
(***************************************************************************)
EXTENDS Naturals, Sequences, FiniteSets

CONSTANTS Sockets,               \* bound: WebSocket objects at a time
          Commands,              \* what the page sends
          MaxReconnectAttempts,  \* maxReconnectAttempts (1000)
          LinkMayFail            \* an opening or open socket may be lost

ASSUME SocketsFinite == IsFiniteSet(Sockets) /\ Sockets # {}
ASSUME AttemptsNat == MaxReconnectAttempts \in Nat
ASSUME SwitchBoolean == LinkMayFail \in BOOLEAN

VARIABLES
  socket,             \* this.socket
  readyState,         \* readyState of every WebSocket object
  replaced,           \* sockets with connect()'s extra "close" listener
  reconnectTimer,     \* this._reconnectTimer is set
  reconnectAttempts,
  pending,            \* this._pending
  wire,               \* what each socket carries to the server
  sent,               \* history: commands given to send()
  dropped,            \* history: the last command send() dropped
  received            \* the command the server took last

clientVars == <<socket, readyState, replaced, reconnectTimer,
                reconnectAttempts>>
vars == <<clientVars, pending, wire, sent, dropped, received>>

ReadyStates == {"CONNECTING", "OPEN", "CLOSING", "CLOSED"}
Live(s) == readyState[s] \in {"CONNECTING", "OPEN"}

\* A command with, as history, its number in the order of sending.
Messages == [cmd : Commands, n : Nat \ {0}]
NoMessage == [cmd |-> "none", n |-> 0]

\* The constructor has called connect().
Init ==
  /\ socket \in Sockets
  /\ readyState = [s \in Sockets |-> IF s = socket THEN "CONNECTING"
                                                   ELSE "CLOSED"]
  /\ replaced = {}
  /\ reconnectTimer = FALSE /\ reconnectAttempts = 0
  /\ pending = <<>> /\ wire = [s \in Sockets |-> <<>>]
  /\ sent = 0 /\ dropped = 0 /\ received = NoMessage

\* _createSocket, where the objects' states are st: a socket that is CLOSED
\* has no event left to fire, so its name stands for the new one.
CreateSocket(st) ==
  \E s \in Sockets :
    /\ st[s] = "CLOSED"
    /\ socket' = s
    /\ readyState' = [st EXCEPT ![s] = "CONNECTING"]
    /\ replaced' = replaced \ {s}

Connect ==
  \/ /\ Live(socket)
     /\ replaced' = replaced \cup {socket}
     /\ readyState' = [readyState EXCEPT ![socket] = "CLOSING"]
     /\ UNCHANGED socket
  \/ ~Live(socket) /\ CreateSocket(readyState)

\* With a defect, to try the properties on: reconnect() gives up
\* one attempt early.
ReconnectOneLess ==
  IF reconnectTimer \/ reconnectAttempts + 1 >= MaxReconnectAttempts
  THEN UNCHANGED <<reconnectTimer, reconnectAttempts>>
  ELSE /\ reconnectTimer' = TRUE
       /\ reconnectAttempts' = reconnectAttempts + 1

Reconnect ==
  IF reconnectTimer \/ reconnectAttempts >= MaxReconnectAttempts
  THEN UNCHANGED <<reconnectTimer, reconnectAttempts>>
  ELSE /\ reconnectTimer' = TRUE
       /\ reconnectAttempts' = reconnectAttempts + 1

-----------------------------------------------------------------------------
(* Actions below with one defect each, to try the properties on.           *)

\* The timer's callback does not forget the timer.
TimerKept ==
  /\ reconnectTimer
  /\ Connect
  /\ UNCHANGED <<reconnectTimer, reconnectAttempts, pending, wire, sent, dropped,
                 received>>

\* The "open" listener forgets the queue.
OpenedWithoutFlush(s) ==
  /\ readyState[s] = "CONNECTING"
  /\ \A t \in Sockets : readyState[t] # "OPEN"
  /\ readyState' = [readyState EXCEPT ![s] = "OPEN"]
  /\ reconnectAttempts' = 0
  /\ UNCHANGED <<socket, replaced, reconnectTimer, pending, wire, sent, dropped,
                 received>>

\* send() does not number a command that has to wait.
TransferUnnumbered(m) ==
  \/ /\ readyState[socket] = "OPEN"
     /\ wire' = [wire EXCEPT ![socket] = Append(@, m)]
     /\ UNCHANGED <<pending, dropped>>
  \/ /\ readyState[socket] = "CONNECTING"
     /\ pending' = Append(pending, [m EXCEPT !.n = 0])
     /\ UNCHANGED <<wire, dropped>>
  \/ ~Live(socket) /\ dropped' = m.n /\ UNCHANGED <<pending, wire>>

-----------------------------------------------------------------------------
\* "open": the queue goes out before anything sent later.
Opened(s) ==
  /\ readyState[s] = "CONNECTING"
  /\ \A t \in Sockets : readyState[t] # "OPEN"
  /\ readyState' = [readyState EXCEPT ![s] = "OPEN"]
  /\ reconnectAttempts' = 0
  /\ wire' = [wire EXCEPT ![s] = @ \o pending]
  /\ pending' = <<>>
  /\ UNCHANGED <<socket, replaced, reconnectTimer, sent, dropped, received>>

\* "close", of a socket that was closed, refused or lost, with what it
\* carried: the constructor's listener runs first, then connect()'s.
Closed(s) ==
  /\ readyState[s] = "CLOSING" \/ (LinkMayFail /\ Live(s))
  /\ IF socket = s THEN Reconnect
     ELSE UNCHANGED <<reconnectTimer, reconnectAttempts>>
  /\ LET st == [readyState EXCEPT ![s] = "CLOSED"]
     IN IF s \in replaced
        THEN CreateSocket(st)
        ELSE readyState' = st /\ UNCHANGED <<socket, replaced>>
  /\ wire' = [wire EXCEPT ![s] = <<>>]
  /\ UNCHANGED <<pending, sent, dropped, received>>

TimerFires ==
  /\ reconnectTimer
  /\ reconnectTimer' = FALSE
  /\ Connect
  /\ UNCHANGED <<reconnectAttempts, pending, wire, sent, dropped, received>>

\* Sent, queued or, with no socket to wait for, dropped.
Transfer(m) ==
  \/ /\ readyState[socket] = "OPEN"
     /\ wire' = [wire EXCEPT ![socket] = Append(@, m)]
     /\ UNCHANGED <<pending, dropped>>
  \/ /\ readyState[socket] = "CONNECTING"
     /\ pending' = Append(pending, m)
     /\ UNCHANGED <<wire, dropped>>
  \/ ~Live(socket) /\ dropped' = m.n /\ UNCHANGED <<pending, wire>>

Send(c) ==
  /\ sent' = sent + 1
  /\ Transfer([cmd |-> c, n |-> sent + 1])
  /\ UNCHANGED <<clientVars, received>>

\* External: the joystick server takes the next command.
Receive(s) ==
  /\ wire[s] # <<>>
  /\ received' = Head(wire[s])
  /\ wire' = [wire EXCEPT ![s] = Tail(@)]
  /\ UNCHANGED <<clientVars, pending, sent, dropped>>

SocketEvent ==
  \/ \E s \in Sockets : Opened(s) \/ Closed(s) \/ Receive(s)
  \/ TimerFires

Next == SocketEvent \/ \E c \in Commands : Send(c)

Spec == Init /\ [][Next]_vars

\* The browser brings every opening socket to an end, and runs its timers.
Fairness ==
  /\ \A s \in Sockets : WF_vars(readyState[s] # "OPEN"
                                  /\ (Opened(s) \/ Closed(s)))
  /\ WF_vars(TimerFires)

FairSpec == Spec /\ Fairness

-----------------------------------------------------------------------------
\* The variables have their types.
TypeOK ==
  /\ socket \in Sockets
  /\ readyState \in [Sockets -> ReadyStates]
  /\ replaced \subseteq Sockets
  /\ reconnectTimer \in BOOLEAN /\ reconnectAttempts \in Nat
  /\ pending \in Seq(Messages) /\ wire \in [Sockets -> Seq(Messages)]
  /\ sent \in Nat /\ dropped \in Nat /\ received \in Messages \cup {NoMessage}

\* "Server only accepts ONE client at a time" (knowledge.txt): the page
\* never has two sockets open or opening.
OneLiveSocket ==
  \A s, t \in Sockets : Live(s) /\ Live(t) => s = t

\* "When a socket is replaced, its addEventListener close handler must NOT
\* trigger reconnect" (knowledge.txt): no reconnection is scheduled while
\* there is a socket open or opening, which it would then tear down.
NoReconnectWhileLive ==
  reconnectTimer => \A s \in Sockets : ~Live(s)

\* The server gets the page's commands in the order the page sent them and
\* none twice, over however many sockets they travel: what waited for a
\* socket goes out before what is sent later (the "open" listener).
CommandsKeepOrder == [][received' # received => received'.n > received.n]_vars

\* What the order rests on: numbers grow along a queue or a wire, and a
\* wire is ahead of the queue.
Ascending(q) == \A i, j \in DOMAIN q : i < j => q[i].n < q[j].n
QueuesInOrder ==
  /\ Ascending(pending)
  /\ \A i \in DOMAIN pending : received.n < pending[i].n
                                 /\ pending[i].n <= sent
  /\ \A s \in Sockets :
       /\ Ascending(wire[s])
       /\ \A i \in DOMAIN wire[s] : received.n < wire[s][i].n
                                      /\ wire[s][i].n <= sent
       /\ wire[s] # <<>> => readyState[s] = "OPEN" /\ pending = <<>>
  /\ received.n <= sent

\* A client without a connection gets one again or uses up its attempts.
Connected == readyState[socket] = "OPEN"
GivenUp == /\ readyState[socket] = "CLOSED"
           /\ ~reconnectTimer
           /\ reconnectAttempts = MaxReconnectAttempts
Reconnects == ~Connected ~> (Connected \/ GivenUp)

\* What send() queued for a socket that was opening goes out, over however
\* many sockets fail before one opens, unless the attempts run out.
QueuedGoesOut == pending # <<>> ~> (pending = <<>> \/ GivenUp)

\* As CommandLine sees it: the socket in use, what it carries, and behind
\* that what waits for it.
LineState ==
  CASE readyState[socket] = "OPEN" -> "up"
    [] readyState[socket] = "CONNECTING" -> "opening"
    [] OTHER -> IF reconnectTimer THEN "waiting" ELSE "over"

Line == INSTANCE CommandLine
          WITH state <- LineState, tries <- reconnectAttempts,
               queue <- wire[socket] \o pending,
               MaxTries <- MaxReconnectAttempts, Nothing <- NoMessage

\* Over however many sockets, the client is one line: nothing overtakes, is
\* repeated or is left on a socket of the past, only the end of an open
\* socket loses commands already accepted, and a client that is down is
\* waiting for its timer or has used up its attempts (class WebSocketClient).
SocketIsALine == Line!Spec

=============================================================================
