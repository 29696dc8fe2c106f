---------------------------- MODULE Joystick_proofs ----------------------------
(***************************************************************************)
(* The client of WebSocketClient as the page uses it, for any sockets,     *)
(* commands and number of attempts: it has one socket at a time, and the   *)
(* server takes the commands in the order in which they were sent.         *)
(*                                                                         *)
(* The page calls connect() in the constructor and in the timer only.  The *)
(* timer runs while no socket is live, so no live socket is ever replaced  *)
(* and the only way to a second socket is over the end of the first: that  *)
(* is OneSocketInv.  A socket carries something only while it is open, and *)
(* what waits for a socket goes out before the first command that is sent  *)
(* on it: that is QueueInv.                                                *)
(*                                                                         *)
(* Then the joystick dialog over the socket, for any keys: a move that is  *)
(* still on its way when nothing is pressed has its stop behind it.  The   *)
(* page has given the stop to send() after the move (moving is down:       *)
(* PressInv), and what carries commands keeps their order (ClientInv), so  *)
(* the stop is in the same queue, or send() dropped it, or emergency_stop  *)
(* took its place (StopInv).                                               *)
(***************************************************************************)
EXTENDS Joystick, SequenceTheorems, TLAPS

\* The live socket is the current one, and is not replaced.
OneSocketInv ==
  /\ \A s \in Sockets : Live(s) => s = socket
  /\ \A s \in Sockets : readyState[s] # "CLOSING"
  /\ replaced = {}
  /\ NoReconnectWhileLive

\* Nothing waits beside an open socket.
QueueInv == QueuesInOrder /\ (readyState[socket] = "OPEN" => pending = <<>>)

ClientInv == TypeOK /\ OneSocketInv /\ QueueInv

-----------------------------------------------------------------------------
(* Sequences of messages                                                   *)

LEMMA NumbersAreNat == \A m \in Messages : m.n \in Nat
  BY DEF Messages

LEMMA ReceivedIsNat == TypeOK => received.n \in Nat
  BY NumbersAreNat DEF TypeOK, NoMessage

\* A larger number at the end keeps a queue in order (send()).
LEMMA AppendKeepsOrder ==
  ASSUME NEW q \in Seq(Messages), NEW m \in Messages, Ascending(q),
         \A i \in DOMAIN q : q[i].n < m.n
  PROVE  /\ Append(q, m) \in Seq(Messages) /\ Append(q, m) # <<>>
         /\ Ascending(Append(q, m))
         /\ \A i \in DOMAIN Append(q, m) :
              Append(q, m)[i] = m \/ (i \in DOMAIN q /\ Append(q, m)[i] = q[i])
  <1>1. /\ Append(q, m) \in Seq(Messages) /\ Append(q, m) # <<>>
        /\ Len(Append(q, m)) = Len(q) + 1
        /\ \A i \in 1 .. Len(q) : Append(q, m)[i] = q[i]
        /\ Append(q, m)[Len(q) + 1] = m
    BY AppendProperties
  <1>2. DOMAIN q = 1 .. Len(q) /\ DOMAIN Append(q, m) = 1 .. Len(q) + 1
    BY <1>1
  <1>3. Len(q) \in Nat
    OBVIOUS
  <1>4. \A i \in DOMAIN q : q[i].n \in Nat
    BY <1>2, NumbersAreNat, ElementOfSeq
  <1>5. m.n \in Nat
    BY NumbersAreNat
  <1>6. Ascending(Append(q, m))
    BY <1>1, <1>2, <1>3, <1>4, <1>5 DEF Ascending
  <1> QED
    BY <1>1, <1>2, <1>3, <1>6

\* Without its first message a queue is in order, behind that message
\* (the server's taking).
LEMMA TailKeepsOrder ==
  ASSUME NEW q \in Seq(Messages), q # <<>>, Ascending(q)
  PROVE  /\ Head(q) \in Messages /\ Tail(q) \in Seq(Messages)
         /\ Head(q) = q[1] /\ 1 \in DOMAIN q
         /\ Ascending(Tail(q))
         /\ \A i \in DOMAIN Tail(q) :
              /\ i + 1 \in DOMAIN q /\ Tail(q)[i] = q[i + 1]
              /\ Head(q).n < Tail(q)[i].n
  <1>1. /\ Head(q) \in Messages /\ Tail(q) \in Seq(Messages)
        /\ Head(q) = q[1] /\ Len(q) \in Nat \ {0}
        /\ Len(Tail(q)) = Len(q) - 1
        /\ \A i \in 1 .. Len(q) - 1 : Tail(q)[i] = q[i + 1]
    OBVIOUS
  <1>2. DOMAIN q = 1 .. Len(q) /\ DOMAIN Tail(q) = 1 .. Len(q) - 1
    BY <1>1
  <1> QED
    BY <1>1, <1>2 DEF Ascending

-----------------------------------------------------------------------------
LEMMA InitHolds == Init => ClientInv
  <1> SUFFICES ASSUME Init PROVE ClientInv
    OBVIOUS
  <1> USE DEF Init
  <1>1. TypeOK
    <2>1. readyState \in [Sockets -> ReadyStates]
      BY DEF ReadyStates
    <2>2. pending \in Seq(Messages) /\ wire \in [Sockets -> Seq(Messages)]
      OBVIOUS
    <2> QED
      BY <2>1, <2>2 DEF TypeOK
  <1>2. OneSocketInv
    BY DEF OneSocketInv, NoReconnectWhileLive, Live
  <1>3. QueueInv
    BY DEF QueueInv, QueuesInOrder, Ascending, NoMessage
  <1> QED
    BY <1>1, <1>2, <1>3 DEF ClientInv

\* "open"
LEMMA OpenedHolds ==
  ASSUME ClientInv, NEW s \in Sockets, Opened(s)
  PROVE  ClientInv'
  <1> USE DEF ClientInv, Opened
  <1>1. s = socket
    BY DEF OneSocketInv, Live
  <1>2. wire[s] = <<>>
    BY DEF QueueInv, QueuesInOrder
  <1>3. wire' = [wire EXCEPT ![s] = pending]
    BY <1>2 DEF TypeOK
  <1>4. TypeOK'
    BY <1>3 DEF TypeOK, ReadyStates
  <1>5. OneSocketInv'
    BY <1>1 DEF OneSocketInv, NoReconnectWhileLive, Live, TypeOK
  <1>6. \A t \in Sockets \ {s} : wire[t] = <<>>
    BY <1>1 DEF OneSocketInv, QueueInv, QueuesInOrder, Live
  <1>7. QueueInv'
    BY <1>1, <1>3, <1>6 DEF QueueInv, QueuesInOrder, Ascending, TypeOK
  <1> QED
    BY <1>4, <1>5, <1>7

\* "close"
LEMMA ClosedHolds ==
  ASSUME ClientInv, NEW s \in Sockets, Closed(s)
  PROVE  ClientInv'
  <1> USE DEF ClientInv, Closed
  <1>1. Live(s) /\ s = socket /\ ~reconnectTimer
    BY DEF OneSocketInv, NoReconnectWhileLive, Live
  <1>2. /\ readyState' = [readyState EXCEPT ![s] = "CLOSED"]
        /\ UNCHANGED <<socket, replaced>>
    BY DEF OneSocketInv
  <1>3. reconnectTimer' \in BOOLEAN /\ reconnectAttempts' \in Nat
    <2>1. Reconnect /\ reconnectAttempts \in Nat
      BY <1>1 DEF TypeOK
    <2>2. CASE reconnectAttempts >= MaxReconnectAttempts
      <3>1. reconnectTimer' = reconnectTimer /\ reconnectAttempts' = reconnectAttempts
        BY <2>1, <2>2 DEF Reconnect
      <3> QED
        BY <2>1, <3>1 DEF TypeOK
    <2>3. CASE ~(reconnectAttempts >= MaxReconnectAttempts)
      <3>1. reconnectTimer' = TRUE /\ reconnectAttempts' = reconnectAttempts + 1
        BY <1>1, <2>1, <2>3 DEF Reconnect
      <3> QED
        BY <2>1, <3>1
    <2> QED
      BY <2>2, <2>3
  <1>4. TypeOK'
    BY <1>2, <1>3 DEF TypeOK, ReadyStates
  <1>5. OneSocketInv'
    BY <1>1, <1>2 DEF OneSocketInv, NoReconnectWhileLive, Live, TypeOK
  <1>6. \A t \in Sockets : wire'[t] = <<>>
    BY <1>1 DEF OneSocketInv, QueueInv, QueuesInOrder, Live, TypeOK
  <1>7. QueueInv'
    BY <1>1, <1>2, <1>6 DEF QueueInv, QueuesInOrder, Ascending, TypeOK
  <1> QED
    BY <1>4, <1>5, <1>7

\* The timer's callback.
LEMMA TimerHolds ==
  ASSUME ClientInv, TimerFires
  PROVE  ClientInv'
  <1> USE DEF ClientInv, TimerFires
  <1>1. \A s \in Sockets : readyState[s] = "CLOSED"
    BY DEF OneSocketInv, NoReconnectWhileLive, Live, TypeOK, ReadyStates
  <1>2. CreateSocket(readyState)
    BY <1>1 DEF Connect, Live, TypeOK
  <1>3. PICK s \in Sockets : /\ socket' = s
                             /\ readyState' = [readyState EXCEPT ![s] = "CONNECTING"]
                             /\ replaced' = replaced \ {s}
    BY <1>2 DEF CreateSocket
  <1>4. TypeOK'
    BY <1>3 DEF TypeOK, ReadyStates
  <1>5. OneSocketInv'
    BY <1>1, <1>3 DEF OneSocketInv, NoReconnectWhileLive, Live, TypeOK
  <1>6. \A t \in Sockets : wire[t] = <<>>
    BY <1>1 DEF QueueInv, QueuesInOrder
  <1>7. QueueInv'
    BY <1>3, <1>6 DEF QueueInv, QueuesInOrder, Ascending, TypeOK
  <1> QED
    BY <1>4, <1>5, <1>7

\* send()
LEMMA SendHolds ==
  ASSUME ClientInv, NEW c \in Commands, Send(c)
  PROVE  ClientInv'
  <1> DEFINE m == [cmd |-> c, n |-> sent + 1]
  <1> USE DEF ClientInv
  <1>0. /\ m \in Messages /\ m.n = sent + 1 /\ sent \in Nat /\ sent' = sent + 1
        /\ UNCHANGED <<clientVars, received>> /\ Transfer(m)
        /\ received.n \in Nat
    <2>1. sent \in Nat /\ received.n \in Nat
      BY ReceivedIsNat DEF TypeOK
    <2> QED
      BY <2>1 DEF Messages, Send
  <1> HIDE DEF m
  <1>5. received.n < m.n /\ received.n <= sent
    BY <1>0 DEF QueueInv, QueuesInOrder
  <1>1. OneSocketInv'
    BY <1>0 DEF OneSocketInv, NoReconnectWhileLive, Live, clientVars
  <1>2. CASE readyState[socket] = "OPEN" /\ wire' = [wire EXCEPT ![socket] = Append(@, m)]
             /\ UNCHANGED <<pending, dropped>>
    <2>1. pending = <<>> /\ \A t \in Sockets \ {socket} : wire[t] = <<>>
      BY <1>2 DEF QueueInv, QueuesInOrder, OneSocketInv, Live
    <2>2. /\ wire[socket] \in Seq(Messages) /\ Ascending(wire[socket])
          /\ \A i \in DOMAIN wire[socket] :
               /\ wire[socket][i].n \in Nat /\ wire[socket][i].n <= sent
               /\ wire[socket][i].n < m.n /\ received.n < wire[socket][i].n
      <3>1. /\ wire[socket] \in Seq(Messages) /\ Ascending(wire[socket])
            /\ \A i \in DOMAIN wire[socket] :
                 received.n < wire[socket][i].n /\ wire[socket][i].n <= sent
        BY DEF QueueInv, QueuesInOrder, TypeOK
      <3>2. \A i \in DOMAIN wire[socket] : wire[socket][i].n \in Nat
        BY <3>1, NumbersAreNat, ElementOfSeq
      <3> QED
        BY <1>0, <3>1, <3>2
    <2>3. /\ Append(wire[socket], m) \in Seq(Messages)
          /\ Ascending(Append(wire[socket], m))
          /\ \A i \in DOMAIN Append(wire[socket], m) :
               \/ Append(wire[socket], m)[i] = m
               \/ i \in DOMAIN wire[socket]
                  /\ Append(wire[socket], m)[i] = wire[socket][i]
      BY <1>0, <2>2, AppendKeepsOrder
    <2>4. /\ wire' \in [Sockets -> Seq(Messages)]
          /\ wire'[socket] = Append(wire[socket], m)
          /\ \A t \in Sockets \ {socket} : wire'[t] = wire[t]
      BY <1>2, <2>3 DEF TypeOK
    <2>5. TypeOK'
      BY <1>0, <1>2, <2>4 DEF TypeOK, clientVars
    <2>6. \A i \in DOMAIN Append(wire[socket], m) :
             /\ received.n < Append(wire[socket], m)[i].n
             /\ Append(wire[socket], m)[i].n <= sent + 1
      BY <1>0, <1>5, <2>2, <2>3
    <2>7. QueueInv'
      BY <1>0, <1>2, <2>1, <2>3, <2>4, <2>6
      DEF QueueInv, QueuesInOrder, clientVars, Ascending, TypeOK
    <2> QED
      BY <1>1, <2>5, <2>7
  <1>3. CASE readyState[socket] = "CONNECTING" /\ pending' = Append(pending, m)
             /\ UNCHANGED <<wire, dropped>>
    <2>1. \A t \in Sockets : wire[t] = <<>>
      BY <1>3 DEF QueueInv, QueuesInOrder, OneSocketInv, Live
    <2>2. /\ pending \in Seq(Messages) /\ Ascending(pending)
          /\ \A i \in DOMAIN pending :
               /\ pending[i].n \in Nat /\ pending[i].n <= sent
               /\ pending[i].n < m.n /\ received.n < pending[i].n
      <3>1. /\ pending \in Seq(Messages) /\ Ascending(pending)
            /\ \A i \in DOMAIN pending :
                 received.n < pending[i].n /\ pending[i].n <= sent
        BY DEF QueueInv, QueuesInOrder, TypeOK
      <3>2. \A i \in DOMAIN pending : pending[i].n \in Nat
        BY <3>1, NumbersAreNat, ElementOfSeq
      <3> QED
        BY <1>0, <3>1, <3>2
    <2>3. /\ Append(pending, m) \in Seq(Messages)
          /\ Ascending(Append(pending, m))
          /\ \A i \in DOMAIN Append(pending, m) :
               \/ Append(pending, m)[i] = m
               \/ i \in DOMAIN pending /\ Append(pending, m)[i] = pending[i]
      BY <1>0, <2>2, AppendKeepsOrder
    <2>4. TypeOK'
      BY <1>0, <1>3, <2>3 DEF TypeOK, clientVars
    <2>5. \A i \in DOMAIN Append(pending, m) :
             /\ received.n < Append(pending, m)[i].n
             /\ Append(pending, m)[i].n <= sent + 1
      BY <1>0, <1>5, <2>2, <2>3
    <2>6. QueueInv'
      BY <1>0, <1>3, <2>1, <2>3, <2>5
      DEF QueueInv, QueuesInOrder, clientVars, Ascending, TypeOK
    <2> QED
      BY <1>1, <2>4, <2>6
  <1>4. CASE ~Live(socket) /\ dropped' = m.n /\ UNCHANGED <<pending, wire>>
    <2>1. TypeOK'
      BY <1>0, <1>4 DEF TypeOK, clientVars
    <2>2. /\ \A i \in DOMAIN pending : pending[i].n \in Nat
          /\ \A s \in Sockets : \A i \in DOMAIN wire[s] : wire[s][i].n \in Nat
      BY NumbersAreNat, ElementOfSeq DEF TypeOK
    <2>3. QueueInv'
      BY <1>0, <1>4, <2>2 DEF QueueInv, QueuesInOrder, clientVars, Ascending
    <2> QED
      BY <1>1, <2>1, <2>3
  <1> QED
    BY <1>0, <1>2, <1>3, <1>4 DEF Transfer

\* The server takes a command.
LEMMA ReceiveHolds ==
  ASSUME ClientInv, NEW s \in Sockets, Receive(s)
  PROVE  ClientInv' /\ received'.n > received.n
  <1> USE DEF ClientInv, Receive
  <1>1. OneSocketInv'
    BY DEF OneSocketInv, NoReconnectWhileLive, Live, clientVars
  <1>2. /\ wire[s] \in Seq(Messages) /\ wire[s] # <<>> /\ Ascending(wire[s])
        /\ \A i \in DOMAIN wire[s] : received.n < wire[s][i].n /\ wire[s][i].n <= sent
        /\ readyState[s] = "OPEN" /\ pending = <<>>
    BY DEF QueueInv, QueuesInOrder, TypeOK
  <1>3. \A t \in Sockets \ {s} : wire[t] = <<>>
    BY <1>2 DEF QueueInv, QueuesInOrder, OneSocketInv, Live
  <1>4. /\ Head(wire[s]) \in Messages /\ Tail(wire[s]) \in Seq(Messages)
        /\ Head(wire[s]) = wire[s][1] /\ 1 \in DOMAIN wire[s]
        /\ Ascending(Tail(wire[s]))
        /\ \A i \in DOMAIN Tail(wire[s]) :
             /\ i + 1 \in DOMAIN wire[s] /\ Tail(wire[s])[i] = wire[s][i + 1]
             /\ Head(wire[s]).n < Tail(wire[s])[i].n
    BY <1>2, TailKeepsOrder
  <1>5. /\ wire' \in [Sockets -> Seq(Messages)]
        /\ wire'[s] = Tail(wire[s])
        /\ \A t \in Sockets \ {s} : wire'[t] = wire[t]
    BY <1>4 DEF TypeOK
  <1>6. TypeOK'
    BY <1>4, <1>5 DEF TypeOK, clientVars
  <1>7. QueueInv'
    BY <1>2, <1>3, <1>4, <1>5 DEF QueueInv, QueuesInOrder, clientVars, Ascending
  <1>8. received'.n > received.n
    BY <1>2, <1>4 DEF TypeOK, Messages, NoMessage
  <1> QED
    BY <1>1, <1>6, <1>7, <1>8

\* Every step keeps the invariant and the order.
LEMMA NextHolds ==
  ASSUME ClientInv, [Next]_vars
  PROVE  ClientInv' /\ (received' # received => received'.n > received.n)
  <1>1. ASSUME NEW s \in Sockets, Opened(s)
        PROVE  ClientInv' /\ received' = received
    BY <1>1, OpenedHolds DEF Opened
  <1>2. ASSUME NEW s \in Sockets, Closed(s)
        PROVE  ClientInv' /\ received' = received
    BY <1>2, ClosedHolds DEF Closed
  <1>3. ASSUME NEW s \in Sockets, Receive(s)
        PROVE  ClientInv' /\ received'.n > received.n
    BY <1>3, ReceiveHolds
  <1>4. ASSUME TimerFires
        PROVE  ClientInv' /\ received' = received
    BY <1>4, TimerHolds DEF TimerFires
  <1>5. ASSUME NEW c \in Commands, Send(c)
        PROVE  ClientInv' /\ received' = received
    BY <1>5, SendHolds DEF Send
  <1>6. ASSUME UNCHANGED vars
        PROVE  ClientInv' /\ received' = received
    BY <1>6 DEF vars, clientVars, ClientInv, TypeOK, OneSocketInv, QueueInv,
                QueuesInOrder, NoReconnectWhileLive, Live, Ascending
  <1> QED
    BY <1>1, <1>2, <1>3, <1>4, <1>5, <1>6 DEF Next, SocketEvent

LEMMA ClientInvariant == Spec => []ClientInv
  <1>1. ClientInv /\ [Next]_vars => ClientInv'
    BY NextHolds
  <1> QED
    BY InitHolds, <1>1, PTL DEF Spec

-----------------------------------------------------------------------------
\* The variables of the client keep their types.
THEOREM ClientTypeCorrect == Spec => []TypeOK
  <1>1. ClientInv => TypeOK
    BY DEF ClientInv
  <1> QED
    BY ClientInvariant, <1>1, PTL

\* The page never has two sockets open or opening, which the server of the
\* controller would refuse.
THEOREM OneSocketAtATime == Spec => []OneLiveSocket
  <1>1. ClientInv => OneLiveSocket
    BY DEF ClientInv, OneSocketInv, OneLiveSocket
  <1> QED
    BY ClientInvariant, <1>1, PTL

\* No reconnection is scheduled beside a live socket.
THEOREM ReconnectsFromRest == Spec => []NoReconnectWhileLive
  <1>1. ClientInv => NoReconnectWhileLive
    BY DEF ClientInv, OneSocketInv
  <1> QED
    BY ClientInvariant, <1>1, PTL

\* Queue and wires are in the order of sending, over any number of sockets.
THEOREM QueuesAreInOrder == Spec => []QueuesInOrder
  <1>1. ClientInv => QueuesInOrder
    BY DEF ClientInv, QueueInv
  <1> QED
    BY ClientInvariant, <1>1, PTL

\* The server takes the commands in the order in which the page sent them,
\* and none twice.
THEOREM OrderIsKept == Spec => CommandsKeepOrder
  <1>1. ClientInv /\ [Next]_vars
          => [received' # received => received'.n > received.n]_vars
    BY NextHolds
  <1> QED
    BY ClientInvariant, <1>1, PTL DEF Spec, CommandsKeepOrder

-----------------------------------------------------------------------------
(* One line                                                                *)

\* What the line carries is on the socket in use while that is open, and is
\* the queue before that and after.
LineParts ==
  /\ readyState[socket] = "OPEN" => /\ LineState = "up" /\ pending = <<>>
                                    /\ wire[socket] \o pending = wire[socket]
  /\ readyState[socket] # "OPEN" => /\ wire[socket] = <<>>
                                    /\ wire[socket] \o pending = pending
  /\ readyState[socket] = "CONNECTING" => LineState = "opening"
  /\ readyState[socket] = "CLOSED"
       => LineState = IF reconnectTimer THEN "waiting" ELSE "over"
  /\ readyState[socket] \in {"CONNECTING", "OPEN", "CLOSED"}

LEMMA NothingToCarry ==
  ASSUME NEW q \in Seq(Messages)
  PROVE  q \o <<>> = q /\ <<>> \o q = q
  BY ConcatEmptySeq

LEMMA LinePartsHold ==
  ASSUME ClientInv
  PROVE  LineParts
  <1>1. /\ socket \in Sockets /\ pending \in Seq(Messages)
        /\ wire[socket] \in Seq(Messages)
        /\ readyState[socket] \in {"CONNECTING", "OPEN", "CLOSED"}
    BY DEF ClientInv, TypeOK, OneSocketInv, ReadyStates
  <1>2. /\ readyState[socket] = "OPEN" => pending = <<>>
        /\ readyState[socket] # "OPEN" => wire[socket] = <<>>
    BY <1>1 DEF ClientInv, QueueInv, QueuesInOrder
  <1>3. /\ pending = <<>> => wire[socket] \o pending = wire[socket]
        /\ wire[socket] = <<>> => wire[socket] \o pending = pending
    BY <1>1, NothingToCarry
  <1> QED
    BY <1>1, <1>2, <1>3 DEF LineParts, LineState

LEMMA LinePartsHoldNext ==
  ASSUME ClientInv'
  PROVE  LineParts'
  <1>1. /\ socket' \in Sockets /\ pending' \in Seq(Messages)
        /\ wire'[socket'] \in Seq(Messages)
        /\ readyState'[socket'] \in {"CONNECTING", "OPEN", "CLOSED"}
    BY DEF ClientInv, TypeOK, OneSocketInv, ReadyStates
  <1>2. /\ readyState'[socket'] = "OPEN" => pending' = <<>>
        /\ readyState'[socket'] # "OPEN" => wire'[socket'] = <<>>
    BY <1>1 DEF ClientInv, QueueInv, QueuesInOrder
  <1>3. /\ pending' = <<>> => wire'[socket'] \o pending' = wire'[socket']
        /\ wire'[socket'] = <<>> => wire'[socket'] \o pending' = pending'
    BY <1>1, NothingToCarry
  <1> QED
    BY <1>1, <1>2, <1>3 DEF LineParts, LineState

LEMMA InitIsALine == Init => Line!Init
  <1> SUFFICES ASSUME Init PROVE Line!Init
    OBVIOUS
  <1>1. LineParts
    BY InitHolds, LinePartsHold
  <1> QED
    BY <1>1 DEF LineParts, Init, Line!Init

\* Each of the client's steps is the line's step of the same name.
LEMMA StepIsALine ==
  ASSUME ClientInv, [Next]_vars
  PROVE  [Line!Next]_(Line!vars)
  <1>1. ClientInv' /\ LineParts /\ LineParts'
    BY NextHolds, LinePartsHold, LinePartsHoldNext
  <1>2. /\ socket \in Sockets /\ readyState \in [Sockets -> ReadyStates]
        /\ wire \in [Sockets -> Seq(Messages)]
    BY DEF ClientInv, TypeOK
  <1>3. ASSUME NEW s \in Sockets, Opened(s)
        PROVE  Line!Open
    <2>1. s = socket
      BY <1>3 DEF Opened, ClientInv, OneSocketInv, Live
    <2>2. /\ readyState[socket] = "CONNECTING" /\ readyState'[socket'] = "OPEN"
          /\ wire'[socket'] = wire[socket] \o pending
      BY <1>2, <1>3, <2>1 DEF Opened
    <2>3. LineState = "opening" /\ LineState' = "up"
          /\ wire'[socket'] \o pending' = wire[socket] \o pending
      BY <1>1, <2>2 DEF LineParts
    <2> QED
      BY <1>3, <2>3 DEF Opened, Line!Open
  <1>4. ASSUME NEW s \in Sockets, Closed(s)
        PROVE  Line!Break
    <2>1. /\ s = socket /\ ~reconnectTimer /\ Live(s)
          /\ readyState' = [readyState EXCEPT ![s] = "CLOSED"]
          /\ socket' = socket /\ Reconnect
      BY <1>4 DEF Closed, ClientInv, OneSocketInv, NoReconnectWhileLive, Live
    <2>2. /\ readyState'[socket'] = "CLOSED" /\ wire'[socket'] = <<>>
          /\ UNCHANGED <<pending, sent, received>>
          /\ readyState[socket] \in {"CONNECTING", "OPEN"}
      BY <1>2, <1>4, <2>1 DEF Closed, Live
    <2>3. /\ LineState = IF readyState[socket] = "OPEN" THEN "up" ELSE "opening"
          /\ LineState' = IF reconnectTimer' THEN "waiting" ELSE "over"
          /\ wire'[socket'] \o pending'
               = IF readyState[socket] = "OPEN" THEN <<>>
                                                ELSE wire[socket] \o pending
      BY <1>1, <2>2 DEF LineParts
    <2>4. IF reconnectAttempts < MaxReconnectAttempts
          THEN reconnectTimer' = TRUE /\ reconnectAttempts' = reconnectAttempts + 1
          ELSE reconnectTimer' = FALSE /\ UNCHANGED reconnectAttempts
      <3>1. reconnectAttempts \in Nat /\ reconnectTimer = FALSE
        BY <2>1 DEF ClientInv, TypeOK
      <3> QED
        BY <2>1, <3>1, AttemptsNat DEF Reconnect
    <2>5. IF reconnectAttempts < MaxReconnectAttempts
          THEN LineState' = "waiting" /\ reconnectAttempts' = reconnectAttempts + 1
          ELSE LineState' = "over" /\ UNCHANGED reconnectAttempts
      BY <2>3, <2>4
    <2> QED
      BY <2>2, <2>3, <2>5 DEF Line!Break
  <1>5. CASE TimerFires
    <2>1. reconnectTimer /\ readyState[socket] = "CLOSED"
      BY <1>2, <1>5 DEF TimerFires, ClientInv, OneSocketInv,
         NoReconnectWhileLive, Live, ReadyStates
    <2>2. readyState'[socket'] = "CONNECTING"
      BY <1>2, <1>5, <2>1 DEF TimerFires, Connect, CreateSocket, Live
    <2>3. /\ LineState = "waiting" /\ LineState' = "opening"
          /\ wire'[socket'] \o pending' = wire[socket] \o pending
      BY <1>1, <1>5, <2>1, <2>2 DEF LineParts, TimerFires
    <2>4. Line!Retry
      BY <1>5, <2>3 DEF TimerFires, Line!Retry
    <2> QED
      BY <2>4 DEF Line!Next
  <1>6. ASSUME NEW c \in Commands, Send(c)
        PROVE  Line!Send(c)
    <2> DEFINE m == [cmd |-> c, n |-> sent + 1]
    <2>1. /\ sent' = sent + 1 /\ Transfer(m)
          /\ UNCHANGED <<socket, readyState, reconnectTimer, reconnectAttempts,
                         received>>
      BY <1>6 DEF Send, clientVars
    <2> HIDE DEF m
    <2>2. LineState' = LineState
      BY <2>1 DEF LineState
    <2>3. wire'[socket'] \o pending'
            = IF LineState \in {"opening", "up"}
              THEN Append(wire[socket] \o pending, m) ELSE wire[socket] \o pending
      <3>1. CASE readyState[socket] = "OPEN"
                   /\ wire' = [wire EXCEPT ![socket] = Append(@, m)]
        <4>1. readyState'[socket'] = "OPEN" /\ wire'[socket'] = Append(wire[socket], m)
          BY <1>2, <2>1, <3>1
        <4> QED
          BY <1>1, <3>1, <4>1 DEF LineParts
      <3>2. CASE readyState[socket] = "CONNECTING"
                   /\ pending' = Append(pending, m)
        <4>1. readyState'[socket'] = "CONNECTING"
          BY <2>1, <3>2
        <4> QED
          BY <1>1, <3>2, <4>1 DEF LineParts
      <3>3. CASE ~Live(socket) /\ UNCHANGED <<pending, wire>>
        <4>1. readyState[socket] = "CLOSED"
          BY <1>1, <3>3 DEF LineParts, Live
        <4>2. LineState \in {"waiting", "over"}
          BY <1>1, <4>1 DEF LineParts
        <4>3. LineState \notin {"opening", "up"}
          BY <4>2
        <4> QED
          BY <2>1, <3>3, <4>3
      <3> QED
        BY <2>1, <3>1, <3>2, <3>3 DEF Transfer
    <2> QED
      BY <2>1, <2>2, <2>3 DEF m, Line!Send
  <1>7. ASSUME NEW s \in Sockets, Receive(s)
        PROVE  Line!Receive
    <2>1. readyState[s] = "OPEN" /\ wire[s] # <<>>
      BY <1>7 DEF Receive, ClientInv, QueueInv, QueuesInOrder
    <2>2. s = socket
      BY <2>1 DEF ClientInv, OneSocketInv, Live
    <2>3. /\ readyState'[socket'] = "OPEN" /\ wire'[socket'] = Tail(wire[socket])
          /\ received' = Head(wire[socket])
          /\ UNCHANGED <<reconnectAttempts, sent>>
      BY <1>2, <1>7, <2>1, <2>2 DEF Receive, clientVars
    <2>4. /\ wire[socket] \o pending = wire[socket] /\ LineState = "up"
          /\ wire'[socket'] \o pending' = Tail(wire[socket]) /\ LineState' = "up"
      BY <1>1, <2>1, <2>2, <2>3 DEF LineParts
    <2> QED
      BY <2>1, <2>2, <2>3, <2>4 DEF Line!Receive
  <1>8. CASE UNCHANGED vars
    BY <1>8 DEF vars, clientVars, LineState, Line!vars
  <1> QED
    BY <1>3, <1>4, <1>5, <1>6, <1>7, <1>8
       DEF Next, SocketEvent, Line!Next

\* The client of any number of sockets is one line that keeps the order, loses
\* only what an open socket carried at its end, and is tried again until its
\* attempts run out (class WebSocketClient).
THEOREM SocketImplementsLine == Spec => SocketIsALine
  <1>1. ClientInv /\ [Next]_vars => [Line!Next]_(Line!vars)
    BY StepIsALine
  <1> QED
    BY InitIsALine, ClientInvariant, <1>1, PTL
       DEF Spec, SocketIsALine, Line!Spec

-----------------------------------------------------------------------------
(* The dialog                                                              *)

\* What the page takes for pressed.
PressInv == moving => ~NothingPressed

\* Every move in the queue has a stop behind it, or the stop was dropped, or
\* an emergency stop was made instead.
Stopped(q) ==
  \A i \in DOMAIN q :
    q[i].cmd = "go" => \/ \E j \in DOMAIN q : i < j /\ q[j].cmd = "SS"
                       \/ dropped > q[i].n \/ overruled >= q[i].n

StopInv ==
  ~moving => Stopped(pending) /\ \A s \in Sockets : Stopped(wire[s])

\* The two marks are numbers of commands sent.
MarksInv == dropped <= sent /\ overruled \in Nat /\ overruled <= sent

JoystickInv == ClientInv /\ MarksInv /\ PressInv /\ StopInv

-----------------------------------------------------------------------------
(* Queues                                                                  *)

LEMMA NothingToStop == Stopped(<<>>)
  BY DEF Stopped

\* A stop at the end is behind everything.
LEMMA StopAtTheEnd ==
  ASSUME NEW q \in Seq(Messages), NEW m \in Messages, m.cmd = "SS"
  PROVE  \A i \in DOMAIN Append(q, m) :
           Append(q, m)[i].cmd = "go"
             => \E j \in DOMAIN Append(q, m) : i < j /\ Append(q, m)[j].cmd = "SS"
  <1>1. /\ Len(q) \in Nat /\ Append(q, m) \in Seq(Messages)
        /\ Len(Append(q, m)) = Len(q) + 1 /\ Append(q, m)[Len(q) + 1] = m
    BY AppendProperties, LenProperties
  <1>2. DOMAIN Append(q, m) = 1 .. Len(q) + 1
    BY <1>1, LenProperties
  <1> SUFFICES ASSUME NEW i \in 1 .. Len(q) + 1, Append(q, m)[i].cmd = "go"
               PROVE  \E j \in 1 .. Len(q) + 1 : i < j /\ Append(q, m)[j].cmd = "SS"
    BY <1>2
  <1>3. i # Len(q) + 1
    BY <1>1
  <1>4. i < Len(q) + 1 /\ Len(q) + 1 \in 1 .. Len(q) + 1
    BY <1>1, <1>3
  <1> QED
    BY <1>1, <1>4

\* The rest of a queue is stopped as the whole was.
LEMMA TailIsStopped ==
  ASSUME NEW q \in Seq(Messages), q # <<>>, Stopped(q)
  PROVE  Stopped(Tail(q))
  <1>1. /\ Len(q) \in Nat \ {0} /\ Tail(q) \in Seq(Messages)
        /\ Len(Tail(q)) = Len(q) - 1
        /\ \A i \in 1 .. Len(q) - 1 : Tail(q)[i] = q[i + 1]
    OBVIOUS
  <1>2. DOMAIN q = 1 .. Len(q) /\ DOMAIN Tail(q) = 1 .. Len(q) - 1
    BY <1>1, LenProperties
  <1> SUFFICES ASSUME NEW i \in 1 .. Len(q) - 1, Tail(q)[i].cmd = "go"
               PROVE  \/ \E j \in 1 .. Len(q) - 1 : i < j /\ Tail(q)[j].cmd = "SS"
                      \/ dropped > Tail(q)[i].n \/ overruled >= Tail(q)[i].n
    BY <1>2 DEF Stopped
  <1>3. i + 1 \in DOMAIN q /\ q[i + 1] = Tail(q)[i]
    BY <1>1, <1>2
  <1>4. \/ \E j \in DOMAIN q : i + 1 < j /\ q[j].cmd = "SS"
        \/ dropped > q[i + 1].n \/ overruled >= q[i + 1].n
    BY <1>3 DEF Stopped
  <1>5. ASSUME NEW j \in DOMAIN q, i + 1 < j, q[j].cmd = "SS"
        PROVE  \E k \in 1 .. Len(q) - 1 : i < k /\ Tail(q)[k].cmd = "SS"
    <2>1. j - 1 \in 1 .. Len(q) - 1 /\ i < j - 1 /\ (j - 1) + 1 = j
      BY <1>1, <1>2, <1>5
    <2> QED
      BY <1>1, <1>5, <2>1
  <1> QED
    BY <1>3, <1>4, <1>5

-----------------------------------------------------------------------------
(* The page                                                                *)

\* What moves the page's variables, emergency_stop aside: a handler sends a
\* move, or stops, or leaves the socket alone.
Handlers ==
  \/ MouseDown \/ MouseDownElsewhere \/ MouseUp \/ Blur \/ SafetyTimer
  \/ (\E k \in Keys : KeyDown(k) \/ KeyUp(k)) \/ ReleasedElsewhere

LEMMA PageSteps ==
  ASSUME Handlers
  PROVE  /\ PressArrow \/ Stop \/ UNCHANGED <<vars, moving>>
         /\ overruled' = overruled
  BY DEF Handlers, PressMouse, MouseDown, MouseDownElsewhere, MouseUp, Blur,
     MouseReleased, SafetyTimer, KeyDown, KeyUp, ReleasedElsewhere, pageVars

LEMMA NextByKind ==
  ASSUME [JoystickNext]_joystickVars
  PROVE  Handlers \/ EmergencyStop \/ OnTheSocket \/ UNCHANGED joystickVars
  BY DEF JoystickNext, Handlers

LEMMA PressKept ==
  ASSUME PressInv, [JoystickNext]_joystickVars
  PROVE  PressInv'
  <1> USE DEF PressInv, NothingPressed
  <1>1. CASE MouseDown
    BY <1>1 DEF MouseDown
  <1>2. CASE MouseDownElsewhere
    BY <1>2 DEF MouseDownElsewhere, PressMouse
  <1>3. CASE MouseUp
    BY <1>3 DEF MouseUp, MouseReleased, Stop
  <1>4. CASE Blur
    BY <1>4 DEF Blur, MouseReleased, Stop
  <1>5. CASE SafetyTimer
    BY <1>5 DEF SafetyTimer, Stop
  <1>6. CASE EmergencyStop
    BY <1>6 DEF EmergencyStop
  <1>7. ASSUME NEW k \in Keys, KeyDown(k)
        PROVE  PressInv'
    BY <1>7 DEF KeyDown, PressArrow
  <1>8. ASSUME NEW k \in Keys, KeyUp(k)
        PROVE  PressInv'
    BY <1>8 DEF KeyUp, Stop
  <1>9. CASE ReleasedElsewhere \/ OnTheSocket \/ UNCHANGED joystickVars
    BY <1>9 DEF ReleasedElsewhere, OnTheSocket, joystickVars, pageVars
  <1> QED
    BY <1>1, <1>2, <1>3, <1>4, <1>5, <1>6, <1>7, <1>8, <1>9 DEF JoystickNext

\* Every step is one of the client.
LEMMA ClientSteps ==
  ASSUME [JoystickNext]_joystickVars
  PROVE  [Next]_vars
  <1>1. CASE Handlers
    <2>1. (\E c \in Commands : Send(c)) \/ UNCHANGED vars
      BY <1>1, PageSteps, StopAndGo DEF PressArrow, Stop
    <2> QED
      BY <2>1 DEF Next
  <1>2. CASE OnTheSocket
    BY <1>2 DEF OnTheSocket, Next
  <1>3. CASE EmergencyStop \/ UNCHANGED joystickVars
    BY <1>3 DEF EmergencyStop, joystickVars
  <1> QED
    BY <1>1, <1>2, <1>3, NextByKind

-----------------------------------------------------------------------------
(* Stops                                                                   *)

\* send() of a stop leaves no move without one.
LEMMA StopSent ==
  ASSUME ClientInv, dropped <= sent, Send("SS"), UNCHANGED overruled
  PROVE  Stopped(pending)' /\ \A s \in Sockets : Stopped(wire[s])'
  <1> DEFINE m == [cmd |-> "SS", n |-> sent + 1]
  <1>1. /\ m \in Messages /\ m.cmd = "SS" /\ m.n = sent + 1 /\ sent \in Nat
        /\ Transfer(m)
    BY StopAndGo DEF Send, Messages, ClientInv, TypeOK
  <1> HIDE DEF m
  <1>2. /\ pending \in Seq(Messages) /\ wire \in [Sockets -> Seq(Messages)]
        /\ socket \in Sockets
    BY DEF ClientInv, TypeOK
  <1>3. CASE readyState[socket] = "OPEN" /\ wire' = [wire EXCEPT ![socket] = Append(@, m)]
             /\ UNCHANGED <<pending, dropped>>
    <2>1. pending = <<>> /\ \A t \in Sockets \ {socket} : wire[t] = <<>>
      BY <1>3 DEF ClientInv, QueueInv, QueuesInOrder, OneSocketInv, Live
    <2>2. wire'[socket] = Append(wire[socket], m)
          /\ \A t \in Sockets \ {socket} : wire'[t] = <<>>
      BY <1>2, <1>3, <2>1
    <2>3. ASSUME NEW s \in Sockets, s = socket
          PROVE  Stopped(wire[s])'
      BY <1>1, <1>2, <2>2, <2>3, StopAtTheEnd DEF Stopped
    <2>4. ASSUME NEW s \in Sockets, s # socket
          PROVE  Stopped(wire[s])'
      BY <2>2, <2>4 DEF Stopped
    <2>5. Stopped(pending)'
      BY <1>3, <2>1 DEF Stopped
    <2> QED
      BY <2>3, <2>4, <2>5
  <1>4. CASE readyState[socket] = "CONNECTING" /\ pending' = Append(pending, m)
             /\ UNCHANGED <<wire, dropped>>
    <2>1. \A t \in Sockets : wire'[t] = <<>>
      BY <1>4 DEF ClientInv, QueueInv, QueuesInOrder, OneSocketInv, Live
    <2>2. Stopped(pending)'
      BY <1>1, <1>2, <1>4, StopAtTheEnd DEF Stopped
    <2> QED
      BY <2>1, <2>2 DEF Stopped
  <1>5. CASE ~Live(socket) /\ dropped' = m.n /\ UNCHANGED <<pending, wire>>
    <2>1. /\ \A i \in DOMAIN pending : pending[i].n \in Nat /\ pending[i].n <= sent
          /\ \A s \in Sockets : \A i \in DOMAIN wire[s] :
               wire[s][i].n \in Nat /\ wire[s][i].n <= sent
      BY <1>2, NumbersAreNat, ElementOfSeq DEF ClientInv, QueueInv, QueuesInOrder
    <2>2. /\ \A i \in DOMAIN pending : dropped' > pending[i].n
          /\ \A s \in Sockets : \A i \in DOMAIN wire[s] : dropped' > wire[s][i].n
      BY <1>1, <1>5, <2>1
    <2> QED
      BY <1>5, <2>2 DEF Stopped
  <1> QED
    BY <1>1, <1>3, <1>4, <1>5 DEF Transfer

\* The socket's events.
LEMMA SocketKeepsStops ==
  ASSUME ClientInv, StopInv, SocketEvent, UNCHANGED <<moving, overruled>>
  PROVE  StopInv'
  <1> SUFFICES ASSUME ~moving, Stopped(pending), \A s \in Sockets : Stopped(wire[s])
               PROVE  Stopped(pending)' /\ \A s \in Sockets : Stopped(wire[s])'
    BY DEF StopInv
  <1>0. pending \in Seq(Messages) /\ wire \in [Sockets -> Seq(Messages)]
    BY DEF ClientInv, TypeOK
  <1>1. ASSUME NEW s \in Sockets, Opened(s)
        PROVE  Stopped(pending)' /\ \A t \in Sockets : Stopped(wire[t])'
    <2>1. wire[s] = <<>>
      BY <1>1 DEF Opened, ClientInv, QueueInv, QueuesInOrder
    <2>2. /\ wire'[s] = pending /\ pending' = <<>> /\ dropped' = dropped
          /\ \A t \in Sockets \ {s} : wire'[t] = wire[t]
      BY <1>0, <1>1, <2>1 DEF Opened
    <2> QED
      BY <2>2 DEF Stopped
  <1>2. ASSUME NEW s \in Sockets, Closed(s)
        PROVE  Stopped(pending)' /\ \A t \in Sockets : Stopped(wire[t])'
    <2>1. /\ wire'[s] = <<>> /\ UNCHANGED <<pending, dropped>>
          /\ \A t \in Sockets \ {s} : wire'[t] = wire[t]
      BY <1>0, <1>2 DEF Closed
    <2> QED
      BY <2>1 DEF Stopped
  <1>3. ASSUME NEW s \in Sockets, Receive(s)
        PROVE  Stopped(pending)' /\ \A t \in Sockets : Stopped(wire[t])'
    <2>1. /\ wire'[s] = Tail(wire[s]) /\ UNCHANGED <<pending, dropped>>
          /\ \A t \in Sockets \ {s} : wire'[t] = wire[t]
      BY <1>0, <1>3 DEF Receive
    <2>2. Stopped(Tail(wire[s]))
      BY <1>0, <1>3, TailIsStopped DEF Receive
    <2>3. Stopped(pending)' /\ Stopped(wire[s])'
      BY <2>1, <2>2 DEF Stopped
    <2>4. ASSUME NEW t \in Sockets \ {s}
          PROVE  Stopped(wire[t])'
      BY <2>1 DEF Stopped
    <2> QED
      BY <2>3, <2>4
  <1>4. CASE TimerFires
    BY <1>4 DEF TimerFires, Stopped
  <1> QED
    BY <1>1, <1>2, <1>3, <1>4 DEF SocketEvent

\* An emergency stop takes the place of the stop of every move on its way.
LEMMA EmergencyOverrules ==
  ASSUME ClientInv, MarksInv, StopInv, EmergencyStop
  PROVE  StopInv'
  <1>1. CASE moving
    <2>1. overruled' = sent /\ sent \in Nat /\ UNCHANGED vars
      BY <1>1 DEF EmergencyStop, ClientInv, TypeOK
    <2>2. /\ \A i \in DOMAIN pending : pending[i].n \in Nat /\ pending[i].n <= sent
          /\ \A s \in Sockets : \A i \in DOMAIN wire[s] :
               wire[s][i].n \in Nat /\ wire[s][i].n <= sent
      BY NumbersAreNat, ElementOfSeq DEF ClientInv, QueueInv, QueuesInOrder, TypeOK
    <2> QED
      BY <2>1, <2>2 DEF StopInv, Stopped, vars
  <1>2. CASE ~moving
    BY <1>2 DEF EmergencyStop, StopInv, Stopped, vars
  <1> QED
    BY <1>1, <1>2

LEMMA StopsKept ==
  ASSUME JoystickInv, [JoystickNext]_joystickVars
  PROVE  StopInv'
  <1>1. ClientInv /\ MarksInv /\ dropped <= sent /\ StopInv
    BY DEF JoystickInv, MarksInv
  <1>2. CASE Handlers
    <2>1. overruled' = overruled
      BY <1>2, PageSteps
    <2>2. CASE PressArrow
      BY <2>2 DEF PressArrow, StopInv
    <2>3. CASE UNCHANGED <<vars, moving>>
      BY <1>1, <2>1, <2>3 DEF StopInv, Stopped, vars
    <2>4. CASE Stop
      <3>1. moving' = FALSE /\ (Send("SS") \/ (~moving /\ UNCHANGED vars))
        BY <2>4 DEF Stop
      <3>2. CASE Send("SS")
        BY <1>1, <2>1, <3>2, StopSent DEF StopInv
      <3>3. CASE ~moving /\ UNCHANGED vars
        BY <1>1, <2>1, <3>3 DEF StopInv, Stopped, vars
      <3> QED
        BY <3>1, <3>2, <3>3
    <2> QED
      BY <1>2, <2>2, <2>3, <2>4, PageSteps
  <1>3. CASE EmergencyStop
    BY <1>1, <1>3, EmergencyOverrules
  <1>4. CASE OnTheSocket
    BY <1>1, <1>4, SocketKeepsStops DEF OnTheSocket, pageVars
  <1>5. CASE UNCHANGED joystickVars
    BY <1>1, <1>5 DEF joystickVars, pageVars, StopInv, Stopped, vars
  <1> QED
    BY <1>2, <1>3, <1>4, <1>5, NextByKind

LEMMA MarksKept ==
  ASSUME TypeOK, MarksInv, [JoystickNext]_joystickVars
  PROVE  MarksInv'
  <1> USE DEF MarksInv
  <1>1. sent \in Nat /\ dropped \in Nat
    BY DEF TypeOK
  <1>2. sent' \in Nat /\ sent' >= sent /\ dropped' <= sent'
    <2>1. [Next]_vars
      BY ClientSteps
    <2>2. ASSUME NEW c \in Commands, Send(c)
          PROVE  sent' = sent + 1 /\ dropped' \in {dropped, sent + 1}
      BY <2>2 DEF Send, Transfer
    <2>3. CASE SocketEvent \/ UNCHANGED vars
      <3>1. UNCHANGED <<sent, dropped>>
        BY <2>3 DEF SocketEvent, Opened, Closed, Receive, TimerFires, vars
      <3> QED
        BY <1>1, <3>1
    <2> QED
      BY <1>1, <2>1, <2>2, <2>3 DEF Next
  <1>3. overruled' = overruled \/ overruled' = sent
    BY NextByKind, PageSteps DEF EmergencyStop, OnTheSocket, joystickVars
  <1> QED
    BY <1>1, <1>2, <1>3

LEMMA JoystickInvariant == JoystickSpec => []JoystickInv
  <1>1. ASSUME JoystickInit
        PROVE  JoystickInv
    <2>1. ClientInv /\ MarksInv
      BY <1>1, InitHolds DEF JoystickInit, Init, MarksInv
    <2>2. PressInv
      BY <1>1 DEF JoystickInit, PressInv
    <2>3. StopInv
      BY <1>1 DEF JoystickInit, Init, StopInv, Stopped
    <2> QED
      BY <2>1, <2>2, <2>3 DEF JoystickInv
  <1>2. ASSUME JoystickInv, [JoystickNext]_joystickVars
        PROVE  JoystickInv'
    <2>1. [Next]_vars
      BY <1>2, ClientSteps
    <2>2. ClientInv' /\ MarksInv'
      BY <1>2, <2>1, NextHolds, MarksKept DEF JoystickInv, ClientInv
    <2> QED
      BY <1>2, <2>2, PressKept, StopsKept DEF JoystickInv
  <1> QED
    BY <1>1, <1>2, PTL DEF JoystickSpec

-----------------------------------------------------------------------------
\* A move that the controller takes when the page sees nothing pressed has its
\* stop behind it, on the socket or waiting for one, unless send() dropped
\* that stop or an emergency stop was made after the move was given to
\* send(): over any number of lost connections and of releases.
THEOREM StopsFollowMoves == JoystickSpec => LateMovesAreStopped
  <1>1. ASSUME JoystickInv, NEW s \in Sockets,
               Receive(s), received'.cmd = "go", NothingPressed
        PROVE  StopBehind(s) \/ dropped > received'.n \/ overruled >= received'.n
    <2>1. Stopped(wire[s])
      BY <1>1 DEF JoystickInv, PressInv, StopInv
    <2>2. wire[s] \in Seq(Messages) /\ wire[s] # <<>>
      BY <1>1 DEF JoystickInv, ClientInv, TypeOK, Receive
    <2>3. received' = wire[s][1] /\ 1 \in DOMAIN wire[s]
      BY <1>1, <2>2 DEF Receive
    <2> QED
      BY <1>1, <2>1, <2>3 DEF Stopped, StopBehind
  <1>2. JoystickInv
          => [\A s \in Sockets :
                Receive(s) /\ received'.cmd = "go" /\ NothingPressed
                  => \/ StopBehind(s)
                     \/ dropped > received'.n \/ overruled >= received'.n]_joystickVars
    BY <1>1
  <1> QED
    BY <1>2, JoystickInvariant, PTL DEF LateMovesAreStopped

\* The client under the dialog is such a line: its moves and stops travel on one line
\* (joystick.html sends over one WebSocketClient).
COROLLARY DialogHasALine == JoystickSpec => SocketIsALine
  <1>1. JoystickInit => Init
    BY DEF JoystickInit
  <1>2. [JoystickNext]_joystickVars => [Next]_vars
    BY ClientSteps
  <1> QED
    BY <1>1, <1>2, SocketImplementsLine, PTL DEF JoystickSpec, Spec

=============================================================================
