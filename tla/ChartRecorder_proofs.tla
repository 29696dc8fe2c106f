------------------------- MODULE ChartRecorder_proofs -------------------------
(***************************************************************************)
(* Charts keep to their own movement, for any threads, directions and      *)
(* bounds.  Messages are run in the order of their sending, so the chart   *)
(* that is open when a point is recorded is the one whose init was the     *)
(* last before it: in the queue, at work, or done (QueueInv).  What is in  *)
(* memory then belongs to the open chart (PointsInv), and goes to its file *)
(* when it is put away.  Every change of the coordinates is recorded once: *)
(* its number is at a place, at work or in the queue, in this order        *)
(* (OnceInv).                                                              *)
(***************************************************************************)
EXTENDS ChartRecorder, SequenceTheorems, TLAPS

\* The chart that messages sent from here on find open, if any is, when m is
\* at work: the one whose init that is, or the current one.
Opens(m, now, c) ==
  IF m # None /\ m.kind = "init" THEN m.of = c ELSE now # 0 => now = c

\* Messages k .. l of q begin no chart.
NoInit(q, k, l) == \A j \in k .. l : q[j].kind # "init"

\* The last init before the k-th message of q is that of chart c.
Expects(q, m, now, k, c) ==
  /\ \A i \in 1 .. k - 1 :
       q[i].kind = "init" /\ NoInit(q, i + 1, k - 1) => q[i].of = c
  /\ NoInit(q, 1, k - 1) => Opens(m, now, c)

\* Every point is for the chart before it, and so is what comes next.
InOrder(q, m, now, last) ==
  /\ \A k \in 1 .. Len(q) : q[k].kind = "insert" => Expects(q, m, now, k, q[k].of)
  /\ Expects(q, m, now, Len(q) + 1, last)
  /\ m # None /\ m.kind = "insert" => Opens(m, now, m.of)

QueueInv == InOrder(mq, msg, current, inits)

PointsInv ==
  \A i \in DOMAIN points :
    points[i].loose \/ (current # 0 /\ points[i].of = current)

Own(chart) ==
  \A k \in DOMAIN chart.points :
    chart.points[k].of = chart.of \/ chart.points[k].loose
BookInv == \A i \in DOMAIN book : Own(book[i])

-----------------------------------------------------------------------------
(* Types                                                                   *)

LEMMA PushTypes ==
  ASSUME mq \in Seq(Message), notifying \subseteq Senders,
         NEW s \in Senders, NEW m \in Message, Push(s, m)
  PROVE  mq' \in Seq(Message) /\ notifying' \subseteq Senders
  BY DEF Push

LEMMA PutAwayTypes ==
  ASSUME TypeOK, PutAway
  PROVE  /\ points' \in Seq(PointType)
         /\ book' \in Seq([of : Nat, points : Seq(PointType)])
  <1>1. CASE current = 0
    BY <1>1 DEF PutAway, TypeOK
  <1>2. CASE current # 0
    <2>1. /\ points' = <<>>
          /\ book' = Append(book, [of |-> current, points |-> points])
      BY <1>2 DEF PutAway
    <2>2. [of |-> current, points |-> points]
            \in [of : Nat, points : Seq(PointType)]
      BY DEF TypeOK
    <2>3. book \in Seq([of : Nat, points : Seq(PointType)])
      BY DEF TypeOK
    <2> QED
      BY <2>1, <2>2, <2>3, AppendProperties, EmptySeq
  <1> QED
    BY <1>1, <1>2

LEMMA MessageTypes ==
  ASSUME TypeOK
  PROVE  /\ InsertMsg \in Message
         /\ \A i \in Nat : InitMsg(i) \in Message
         /\ None \notin Message
  BY NoneIsNoMessage DEF TypeOK, InsertMsg, InitMsg, Message

LEMMA InitType == Init => TypeOK
  <1> SUFFICES ASSUME Init PROVE TypeOK
    OBVIOUS
  <1>1. ui \in UiType /\ old \in UiType
    BY DEF Init, UiType
  <1>2. mq \in Seq(Message) /\ points \in Seq(PointType)
        /\ book \in Seq([of : Nat, points : Seq(PointType)])
    BY EmptySeq DEF Init
  <1>3. ~ui.raw /\ old = ui /\ behind = {} /\ taken \in Seq(Nat) /\ Len(taken) <= 2
    BY EmptySeq DEF Init
  <1>4. /\ frames \in 0 .. MaxFrames /\ moved \in 0 .. frames
        /\ inits \in Nat /\ current \in Nat /\ requests \in 0 .. MaxRequests
    BY BoundsNat DEF Init
  <1> QED
    BY <1>1, <1>2, <1>3, <1>4 DEF Init, TypeOK

\* The telemetry thread.
LEMMA UpdateType ==
  ASSUME TypeOK, Update
  PROVE  TypeOK'
  <1> USE BoundsNat
  <1>1. CASE Frame
    <2>1. PICK joystick \in SUBSET Directions, other \in {0, 1} :
            /\ ui' = [coords |-> ui.coords + other, raw |-> TRUE,
                      joystick |-> joystick]
            /\ moved' = moved + other
            /\ behind' = IF other = 1 THEN Axes ELSE {}
      BY <1>1 DEF Frame
    <2>2. /\ ui' \in UiType /\ ui'.raw
          /\ behind' \subseteq Axes /\ (behind' # {} => ui'.coords # 0)
      BY <2>1 DEF TypeOK, UiType
    <2>3. frames' \in 0 .. MaxFrames /\ moved' \in 0 .. frames'
      BY <1>1, <2>1 DEF Frame, TypeOK
    <2> QED
      BY <1>1, <2>2, <2>3 DEF Frame, chartVars, TypeOK
  <1>2. CASE Convert
    <2>1. ui' \in UiType /\ ~ui'.raw
      BY <1>2 DEF Convert, TypeOK, UiType
    <2> QED
      BY <1>2, <2>1 DEF Convert, chartVars, TypeOK
  <1>3. ASSUME NEW d \in Directions, ChartJoystick(d)
        PROVE  TypeOK'
    <2>1. inits' \in Nat
      BY <1>3 DEF ChartJoystick, TypeOK
    <2>2. mq' \in Seq(Message) /\ notifying' \subseteq Senders
      BY <1>3, <2>1, PushTypes, MessageTypes DEF ChartJoystick, TypeOK, Senders
    <2>3. old' \in UiType
      BY <1>3 DEF ChartJoystick, TypeOK, UiType
    <2> QED
      BY <1>3, <2>1, <2>2, <2>3 DEF ChartJoystick, chartVars, TypeOK
  <1>4. CASE ChartCoords
    <2>1. mq' \in Seq(Message) /\ notifying' \subseteq Senders
      BY <1>4, PushTypes, MessageTypes DEF ChartCoords, TypeOK, Senders
    <2> QED
      BY <1>4, <2>1 DEF ChartCoords, chartVars, TypeOK
  <1>5. ASSUME NEW a \in Axes, CopyAxis(a)
        PROVE  TypeOK'
    BY <1>5 DEF CopyAxis, chartVars, TypeOK
  <1> QED
    BY <1>1, <1>2, <1>3, <1>4, <1>5 DEF Update

\* What stands on an axis.
LEMMA CoordType ==
  ASSUME TypeOK, NEW a
  PROVE  Coord(a) \in Nat /\ Coord(a) <= ui.coords
  BY DEF TypeOK, UiType, Coord

\* The thread of the active object.
LEMMA RunType ==
  ASSUME TypeOK, Run \/ WakeAnyway
  PROVE  TypeOK'
  <1>1. CASE Sleep \/ WakeAnyway
    BY <1>1 DEF Sleep, WakeAnyway, telemetryVars, chartVars, TypeOK
  <1>2. CASE Take
    <2>1. msg' \in Message /\ mq' \in Seq(Message)
      BY <1>2, HeadTailProperties DEF Take, TypeOK
    <2> QED
      BY <1>2, <2>1 DEF Take, telemetryVars, chartVars, TypeOK
  <1>3. CASE RunInit
    <2>1. current' \in Nat
      <3>1. msg \in Message
        BY <1>3 DEF RunInit, TypeOK
      <3>2. msg.of \in Nat
        BY <3>1 DEF Message
      <3> QED
        BY <1>3, <3>2 DEF RunInit
    <2>2. overlapped' \in BOOLEAN /\ msg' = None
      BY <1>3 DEF RunInit, TypeOK
    <2>3. PutAway
      BY <1>3 DEF RunInit
    <2> QED
      BY <1>3, <2>1, <2>2, <2>3, PutAwayTypes DEF RunInit, telemetryVars, TypeOK
  <1>4. CASE RunInsert
    <2>1. msg \in Message
      BY <1>4 DEF RunInsert, TypeOK
    <2>2. Append(taken, Coord(3)) \in Seq(Nat)
      BY CoordType, AppendProperties DEF TypeOK
    <2>3. Point \in PointType
      BY <2>1, <2>2 DEF Point, PointType, Message, TypeOK
    <2>4. points' \in Seq(PointType)
      BY <1>4, <2>3, AppendProperties DEF RunInsert, TypeOK
    <2>5. taken' \in Seq(Nat) /\ Len(taken') <= 2
      BY <1>4, EmptySeq DEF RunInsert
    <2> QED
      BY <1>4, <2>4, <2>5 DEF RunInsert, telemetryVars, TypeOK
  <1>5. CASE PushAxis
    <2>1. taken' \in Seq(Nat) /\ Len(taken') <= 2
      BY <1>5, CoordType, AppendProperties DEF PushAxis, TypeOK
    <2> QED
      BY <1>5, <2>1 DEF PushAxis, telemetryVars, TypeOK
  <1> QED
    BY <1>1, <1>2, <1>3, <1>4, <1>5 DEF Run

\* The other threads.
LEMMA HandlerType ==
  ASSUME TypeOK, NEW h \in Handlers,
         \/ ChartRequest(h) \/ LoadFromDisk(h) \/ LastChart(h)
         \/ \E use \in Uses : ReadChart(h, use)
  PROVE  TypeOK'
  <1>1. Accept(h) => requests' \in 0 .. MaxRequests
    BY BoundsNat DEF Accept, TypeOK
  <1>2. CASE ChartRequest(h)
    <2>1. inits' \in Nat /\ h \in Senders
      BY <1>2 DEF ChartRequest, TypeOK, Senders
    <2>2. mq' \in Seq(Message) /\ notifying' \subseteq Senders
      BY <1>2, <2>1, PushTypes, MessageTypes DEF ChartRequest, TypeOK
    <2> QED
      BY <1>1, <1>2, <2>1, <2>2 DEF ChartRequest, telemetryVars, chartVars, TypeOK
  <1>3. ASSUME NEW use \in Uses, ReadChart(h, use)
        PROVE  TypeOK'
    BY <1>1, <1>3 DEF ReadChart, telemetryVars, chartVars, TypeOK
  <1>4. CASE LoadFromDisk(h)
    BY <1>4, PutAwayTypes DEF LoadFromDisk, telemetryVars, TypeOK
  <1>5. CASE LastChart(h)
    BY <1>5 DEF LastChart, telemetryVars, chartVars, TypeOK
  <1> QED
    BY <1>2, <1>3, <1>4, <1>5

LEMMA NextType ==
  ASSUME TypeOK, [Next]_vars
  PROVE  TypeOK'
  <1>1. ASSUME NEW s \in Senders, Notify(s)
        PROVE  TypeOK'
    BY <1>1 DEF Notify, telemetryVars, chartVars, TypeOK
  <1>2. CASE UNCHANGED vars
    BY <1>2 DEF vars, telemetryVars, chartVars, TypeOK
  <1> QED
    BY <1>1, <1>2, UpdateType, RunType, HandlerType DEF Next

\* The variables of the chart, its messages and its threads have their types,
\* with any number of threads and directions; a frame that is over has its
\* coordinates converted and remembered (update_telemetry).
THEOREM ChartTypeCorrect == Spec => []TypeOK
  BY InitType, NextType, PTL DEF Spec

-----------------------------------------------------------------------------
(* The queue                                                               *)

LEMMA AppendMessage ==
  ASSUME NEW q \in Seq(Message), NEW m \in Message
  PROVE  /\ Len(q) \in Nat /\ Len(Append(q, m)) = Len(q) + 1
         /\ \A i \in 1 .. Len(q) : Append(q, m)[i] = q[i]
         /\ Append(q, m)[Len(q) + 1] = m
  BY AppendProperties, LenProperties

LEMMA ExpectsNext ==
  ASSUME NEW q, NEW w, NEW now, NEW c, NEW n \in Nat,
         \A i \in 1 .. n : q[i].kind = "init" /\ NoInit(q, i + 1, n) => q[i].of = c,
         NoInit(q, 1, n) => Opens(w, now, c)
  PROVE  Expects(q, w, now, n + 1, c)
  <1>1. (n + 1) - 1 = n
    OBVIOUS
  <1>2. NoInit(q, 1, (n + 1) - 1) => Opens(w, now, c)
    BY <1>1
  <1>3. \A i \in 1 .. (n + 1) - 1 :
          q[i].kind = "init" /\ NoInit(q, i + 1, (n + 1) - 1) => q[i].of = c
    BY <1>1
  <1> QED
    BY <1>2, <1>3, Zenon DEF Expects

\* A message behind the others changes nothing for them.
LEMMA AppendExpects ==
  ASSUME NEW q \in Seq(Message), NEW m \in Message, NEW w, NEW now, NEW c,
         NEW k \in 1 .. Len(q) + 1, Expects(q, w, now, k, c)
  PROVE  Expects(Append(q, m), w, now, k, c)
  <1> DEFINE a == Append(q, m)
  <1>1. Len(q) \in Nat /\ \A i \in 1 .. Len(q) : a[i] = q[i]
    BY AppendMessage
  <1> HIDE DEF a
  <1>2. ASSUME NEW i \in 1 .. k, NoInit(a, i, k - 1)
        PROVE  NoInit(q, i, k - 1)
    BY <1>1, <1>2 DEF NoInit
  <1>3. ASSUME NEW i \in 1 .. k - 1, a[i].kind = "init", NoInit(a, i + 1, k - 1)
        PROVE  a[i].of = c
    <2>1. a[i] = q[i] /\ i + 1 \in 1 .. k
      BY <1>1
    <2> QED
      BY <1>2, <1>3, <2>1 DEF Expects
  <1>4. NoInit(a, 1, k - 1) => Opens(w, now, c)
    BY <1>1, <1>2 DEF Expects
  <1>5. Expects(a, w, now, k, c)
    BY <1>3, <1>4 DEF Expects
  <1> QED
    BY <1>5 DEF a

\* Behind a point the same chart is expected as before it.
LEMMA SendInsert ==
  ASSUME NEW q \in Seq(Message), NEW w, NEW now, NEW last \in Nat,
         NEW m \in Message, m.kind = "insert", m.of = last,
         InOrder(q, w, now, last)
  PROVE  InOrder(Append(q, m), w, now, last)
  <1> DEFINE a == Append(q, m)
             n == Len(q) + 1
  <1>1. /\ n \in Nat \ {0} /\ Len(a) = n /\ a[n] = m
        /\ \A i \in 1 .. n - 1 : a[i] = q[i]
    BY AppendMessage
  <1>2. Expects(a, w, now, n, last)
    BY <1>1, AppendExpects DEF InOrder
  <1>3. ASSUME NEW k \in 1 .. n, a[k].kind = "insert"
        PROVE  Expects(a, w, now, k, a[k].of)
    <2>1. CASE k = n
      BY <1>1, <1>2, <2>1
    <2>2. CASE k # n
      <3>1. k \in 1 .. Len(q) /\ k \in 1 .. Len(q) + 1 /\ a[k] = q[k]
        BY <1>1, <2>2
      <3>2. Expects(q, w, now, k, q[k].of)
        BY <1>3, <3>1 DEF InOrder
      <3> QED
        BY <3>1, <3>2, AppendExpects
    <2> QED
      BY <2>1, <2>2
  <1> HIDE DEF a, n
  <1>4. ASSUME NEW i \in 1 .. n + 1, NoInit(a, i, n)
        PROVE  NoInit(a, i, n - 1)
    BY <1>1, <1>4 DEF NoInit
  <1>5. ASSUME NEW i \in 1 .. n, a[i].kind = "init", NoInit(a, i + 1, n)
        PROVE  a[i].of = last
    <2>1. i \in 1 .. n - 1 /\ i + 1 \in 1 .. n + 1
      BY <1>1, <1>5
    <2> QED
      BY <1>2, <1>4, <1>5, <2>1 DEF Expects
  <1>6. NoInit(a, 1, n) => Opens(w, now, last)
    BY <1>1, <1>2, <1>4 DEF Expects
  <1>7. Expects(a, w, now, n + 1, last)
    BY <1>1, <1>5, <1>6, ExpectsNext
  <1>8. InOrder(a, w, now, last)
    BY <1>1, <1>3, <1>7 DEF InOrder
  <1> QED
    BY <1>8 DEF a

\* Behind an init its own chart is expected.
LEMMA SendInit ==
  ASSUME NEW q \in Seq(Message), NEW w, NEW now, NEW last,
         NEW m \in Message, m.kind = "init", InOrder(q, w, now, last)
  PROVE  InOrder(Append(q, m), w, now, m.of)
  <1> DEFINE a == Append(q, m)
             n == Len(q) + 1
  <1>1. /\ n \in Nat \ {0} /\ Len(a) = n /\ a[n] = m
        /\ \A i \in 1 .. n - 1 : a[i] = q[i]
    BY AppendMessage
  <1>2. ASSUME NEW k \in 1 .. n, a[k].kind = "insert"
        PROVE  Expects(a, w, now, k, a[k].of)
    <2>1. k \in 1 .. Len(q) /\ k \in 1 .. Len(q) + 1 /\ a[k] = q[k]
      BY <1>1, <1>2
    <2>2. Expects(q, w, now, k, q[k].of)
      BY <1>2, <2>1 DEF InOrder
    <2> QED
      BY <2>1, <2>2, AppendExpects
  <1> HIDE DEF a, n
  <1>3. \A i \in 1 .. n : NoInit(a, i, n) => FALSE
    BY <1>1 DEF NoInit
  <1>4. Expects(a, w, now, n + 1, m.of)
    <2>1. ASSUME NEW i \in 1 .. n, NoInit(a, i + 1, n)
          PROVE  a[i].of = m.of
      <3>1. i = n
        BY <1>1, <1>3, <2>1
      <3> QED
        BY <1>1, <3>1
    <2>2. ~NoInit(a, 1, n) /\ n \in Nat
      BY <1>1, <1>3
    <2> QED
      BY <2>1, <2>2, ExpectsNext
  <1>5. InOrder(a, w, now, m.of)
    BY <1>1, <1>2, <1>4 DEF InOrder
  <1> QED
    BY <1>5 DEF a

\* The first message goes to work: what it opens or finds open, the others
\* expect.
LEMMA TakeExpects ==
  ASSUME NEW q \in Seq(Message), q # <<>>, NEW now,
         q[1].kind = "insert" => Expects(q, None, now, 1, q[1].of),
         NEW k \in 1 .. Len(q), NEW c, Expects(q, None, now, k + 1, c)
  PROVE  Expects(Tail(q), Head(q), now, k, c)
  <1>1. /\ Len(q) \in Nat \ {0} /\ Head(q) = q[1] /\ q[1] \in Message
        /\ \A i \in 1 .. Len(q) - 1 : Tail(q)[i] = q[i + 1]
    BY EmptySeq, HeadTailProperties, ElementOfSeq
  <1>2. q[1] # None
    BY <1>1, NoneIsNoMessage DEF Message
  <1>3. ASSUME NEW i \in 1 .. k, NoInit(Tail(q), i, k - 1)
        PROVE  NoInit(q, i + 1, k)
    <2> SUFFICES ASSUME NEW j \in i + 1 .. k
                 PROVE  q[j].kind # "init"
      BY DEF NoInit
    <2>1. j - 1 \in i .. k - 1 /\ j - 1 \in 1 .. Len(q) - 1 /\ j - 1 + 1 = j
      BY <1>1
    <2> QED
      BY <1>1, <1>3, <2>1 DEF NoInit
  <1>4. ASSUME NEW i \in 1 .. k - 1, Tail(q)[i].kind = "init",
               NoInit(Tail(q), i + 1, k - 1)
        PROVE  Tail(q)[i].of = c
    <2>1. /\ i \in 1 .. Len(q) - 1 /\ i + 1 \in 1 .. k
          /\ i + 1 \in 1 .. k + 1 - 1 /\ k + 1 - 1 = k
      BY <1>1
    <2>2. NoInit(q, i + 1 + 1, k)
      BY <1>3, <1>4, <2>1
    <2> QED
      BY <1>1, <1>4, <2>1, <2>2 DEF Expects
  <1>5. ASSUME NoInit(Tail(q), 1, k - 1)
        PROVE  Opens(Head(q), now, c)
    <2>1. NoInit(q, 2, k)
      BY <1>1, <1>3, <1>5
    <2>2. k + 1 - 1 = k /\ 1 \in 1 .. k
      BY <1>1
    <2>3. CASE q[1].kind = "init"
      <3>1. q[1].of = c
        BY <2>1, <2>2, <2>3 DEF Expects
      <3> QED
        BY <1>1, <1>2, <2>3, <3>1 DEF Opens
    <2>4. CASE q[1].kind # "init"
      <3>1. NoInit(q, 1, k)
        <4> SUFFICES ASSUME NEW j \in 1 .. k
                     PROVE  q[j].kind # "init"
          BY DEF NoInit
        <4>1. j = 1 \/ j \in 2 .. k
          BY <1>1
        <4> QED
          BY <2>1, <2>4, <4>1 DEF NoInit
      <3>2. Opens(None, now, c)
        BY <2>2, <3>1 DEF Expects
      <3> QED
        BY <1>1, <2>4, <3>2 DEF Opens
    <2> QED
      BY <2>3, <2>4
  <1> QED
    BY <1>4, <1>5 DEF Expects

LEMMA TakeKeepsOrder ==
  ASSUME NEW q \in Seq(Message), q # <<>>, NEW now, NEW last,
         InOrder(q, None, now, last)
  PROVE  InOrder(Tail(q), Head(q), now, last)
  <1>1. /\ Len(q) \in Nat \ {0} /\ Len(Tail(q)) = Len(q) - 1
        /\ Head(q) = q[1] /\ 1 \in 1 .. Len(q)
        /\ \A i \in 1 .. Len(q) - 1 : Tail(q)[i] = q[i + 1]
    BY EmptySeq, HeadTailProperties
  <1>2. q[1].kind = "insert" => Expects(q, None, now, 1, q[1].of)
    BY <1>1 DEF InOrder
  <1>3. ASSUME NEW k \in 1 .. Len(q) - 1, Tail(q)[k].kind = "insert"
        PROVE  Expects(Tail(q), Head(q), now, k, Tail(q)[k].of)
    <2>1. k \in 1 .. Len(q) /\ k + 1 \in 1 .. Len(q) /\ Tail(q)[k] = q[k + 1]
      BY <1>1
    <2>2. Expects(q, None, now, k + 1, q[k + 1].of)
      BY <1>3, <2>1 DEF InOrder
    <2> QED
      BY <1>2, <2>1, <2>2, TakeExpects
  <1>4. Expects(Tail(q), Head(q), now, Len(q), last)
    BY <1>1, <1>2, TakeExpects DEF InOrder
  <1>5. ASSUME q[1].kind = "insert"
        PROVE  Opens(q[1], now, q[1].of)
    <2>1. NoInit(q, 1, 1 - 1)
      BY DEF NoInit
    <2>2. Opens(None, now, q[1].of)
      BY <1>2, <1>5, <2>1 DEF Expects
    <2> QED
      BY <1>5, <2>2 DEF Opens
  <1>6. Len(q) - 1 + 1 = Len(q)
    BY <1>1
  <1> QED
    BY <1>1, <1>3, <1>4, <1>5, <1>6 DEF InOrder

\* A message that is done, or a chart put away, leaves what was open, or
\* nothing.
LEMMA LaterKeepsOrder ==
  ASSUME NEW q \in Seq(Message), NEW w, NEW now, NEW last, NEW v, NEW then,
         InOrder(q, w, now, last),
         \A c : Opens(w, now, c) => Opens(v, then, c),
         v = None \/ v = w
  PROVE  InOrder(q, v, then, last)
  <1>1. \A k, c : Expects(q, w, now, k, c) => Expects(q, v, then, k, c)
    BY DEF Expects
  <1> QED
    BY <1>1 DEF InOrder

-----------------------------------------------------------------------------
(* The recorder                                                            *)

MixInv == TypeOK /\ QueueInv /\ PointsInv /\ BookInv

\* The messages the threads send.
LEMMA SendKeepsOrder ==
  ASSUME TypeOK, QueueInv, NEW s, UNCHANGED <<msg, current>>,
         \/ Push(s, InsertMsg) /\ UNCHANGED inits
         \/ inits' = inits + 1 /\ Push(s, InitMsg(inits'))
  PROVE  QueueInv'
  <1>1. mq \in Seq(Message) /\ inits \in Nat /\ inits' \in Nat
    BY DEF TypeOK
  <1>2. CASE Push(s, InsertMsg) /\ UNCHANGED inits
    <2>1. /\ InsertMsg \in Message
          /\ InsertMsg.kind = "insert" /\ InsertMsg.of = inits
      BY MessageTypes DEF InsertMsg
    <2>2. InOrder(Append(mq, InsertMsg), msg, current, inits)
      BY <1>1, <2>1, SendInsert DEF QueueInv
    <2> QED
      BY <1>2, <2>2 DEF Push, QueueInv
  <1>3. CASE inits' = inits + 1 /\ Push(s, InitMsg(inits'))
    <2>1. /\ InitMsg(inits') \in Message
          /\ InitMsg(inits').kind = "init" /\ InitMsg(inits').of = inits'
      BY <1>1, MessageTypes DEF InitMsg
    <2>2. InOrder(Append(mq, InitMsg(inits')), msg, current, inits')
      BY <1>1, <2>1, SendInit DEF QueueInv
    <2> QED
      BY <1>3, <2>2 DEF Push, QueueInv
  <1> QED
    BY <1>2, <1>3

\* A chart that is put away takes its own points with it.
LEMMA PutAwayKeeps ==
  ASSUME TypeOK, PointsInv, BookInv, PutAway
  PROVE  BookInv' /\ \A i \in DOMAIN points' : points'[i].loose
  <1>1. CASE current = 0
    BY <1>1 DEF PutAway, PointsInv, BookInv
  <1>2. CASE current # 0
    <2> DEFINE chart == [of |-> current, points |-> points]
    <2>1. points' = <<>> /\ book' = Append(book, chart)
      BY <1>2 DEF PutAway
    <2>2. Own(chart)
      BY DEF Own, PointsInv
    <2>3. /\ book \in Seq([of : Nat, points : Seq(PointType)])
          /\ chart \in [of : Nat, points : Seq(PointType)]
      BY DEF TypeOK
    <2> HIDE DEF chart
    <2>4. /\ Len(book) \in Nat /\ DOMAIN book = 1 .. Len(book)
          /\ DOMAIN book' = 1 .. Len(book) + 1
          /\ \A i \in 1 .. Len(book) : book'[i] = book[i]
          /\ book'[Len(book) + 1] = chart
      BY <2>1, <2>3, AppendProperties, LenProperties
    <2>5. ASSUME NEW i \in 1 .. Len(book) + 1
          PROVE  Own(book'[i])
      <3>1. CASE i \in 1 .. Len(book)
        BY <2>4, <3>1 DEF BookInv
      <3>2. CASE i = Len(book) + 1
        BY <2>2, <2>4, <3>2
      <3> QED
        BY <2>4, <3>1, <3>2
    <2>6. DOMAIN points' = {}
      BY <2>1
    <2> QED
      BY <2>4, <2>5, <2>6 DEF BookInv, Own
  <1> QED
    BY <1>1, <1>2

LEMMA MixInit == Init => MixInv
  <1> SUFFICES ASSUME Init PROVE MixInv
    OBVIOUS
  <1>1. Len(mq) = 0 /\ DOMAIN points = {} /\ DOMAIN book = {}
    BY EmptySeq DEF Init
  <1>2. QueueInv
    BY <1>1 DEF Init, QueueInv, InOrder, Expects, NoInit, Opens
  <1> QED
    BY <1>1, <1>2, InitType DEF MixInv, PointsInv, BookInv

\* The telemetry thread and the requests.
LEMMA SendersKeep ==
  ASSUME MixInv,
         \/ Update \/ PushAxis
         \/ \E h \in Handlers :
              ChartRequest(h) \/ LastChart(h) \/ \E use \in Uses : ReadChart(h, use)
         \/ WakeAnyway \/ \E s \in Senders : Notify(s)
  PROVE  (QueueInv /\ PointsInv /\ BookInv)'
  <1> USE DEF MixInv
  <1>1. UNCHANGED <<msg, current, points, book>>
    BY DEF Update, Frame, CopyAxis, Convert, ChartJoystick, ChartCoords, PushAxis,
       ChartRequest, ReadChart, LastChart, WakeAnyway, Notify, chartVars
  <1>2. PointsInv' /\ BookInv'
    BY <1>1 DEF PointsInv, BookInv, Own
  <1>3. \/ UNCHANGED <<mq, inits>>
        \/ \E s \in Senders : \/ Push(s, InsertMsg) /\ UNCHANGED inits
                              \/ inits' = inits + 1 /\ Push(s, InitMsg(inits'))
    BY DEF Update, Frame, CopyAxis, Convert, ChartJoystick, ChartCoords, PushAxis,
       ChartRequest, ReadChart, LastChart, WakeAnyway, Notify, Senders
  <1>4. QueueInv'
    BY <1>1, <1>3, SendKeepsOrder DEF QueueInv
  <1> QED
    BY <1>2, <1>4

\* The active object's thread, and a chart put away beside it.
LEMMA RecordersKeep ==
  ASSUME MixInv, Run \/ \E h \in Handlers : LoadFromDisk(h)
  PROVE  (QueueInv /\ PointsInv /\ BookInv)'
  <1> USE DEF MixInv
  <1>1. CASE Sleep
    BY <1>1 DEF Sleep, chartVars, QueueInv, PointsInv, BookInv, Own
  <1>2. CASE Take
    <2>1. InOrder(Tail(mq), Head(mq), current, inits)
      BY <1>2, TakeKeepsOrder DEF Take, QueueInv, TypeOK
    <2> QED
      BY <1>2, <2>1 DEF Take, chartVars, QueueInv, PointsInv, BookInv, Own
  <1>3. CASE RunInit
    <2>1. /\ msg # None /\ msg.kind = "init" /\ msg' = None
          /\ current' \in {0, msg.of} /\ UNCHANGED <<mq, inits>> /\ PutAway
      BY <1>3 DEF RunInit
    <2>2. \A c : Opens(msg, current, c) => Opens(msg', current', c)
      BY <2>1 DEF Opens
    <2>3. QueueInv'
      BY <2>1, <2>2, LaterKeepsOrder DEF QueueInv, TypeOK
    <2> QED
      BY <2>1, <2>3, PutAwayKeeps DEF PointsInv
  <1>4. CASE RunInsert
    <2>1. /\ msg # None /\ msg.kind = "insert" /\ msg' = None
          /\ points' = Append(points, Point) /\ UNCHANGED <<mq, inits, current, book>>
      BY <1>4 DEF RunInsert
    <2>2. \A c : Opens(msg, current, c) => Opens(msg', current', c)
      BY <2>1 DEF Opens
    <2>3. QueueInv'
      BY <2>1, <2>2, LaterKeepsOrder DEF QueueInv, TypeOK
    <2>4. Point.loose \/ (current # 0 /\ Point.of = current)
      BY <2>1 DEF QueueInv, InOrder, Opens, Point
    <2>5. /\ DOMAIN points = 1 .. Len(points) /\ Len(points) \in Nat
          /\ DOMAIN points' = 1 .. Len(points) + 1
          /\ \A i \in 1 .. Len(points) : points'[i] = points[i]
          /\ points'[Len(points) + 1] = Point
      <3>1. points \in Seq(PointType) /\ points' \in Seq(PointType)
        BY <1>4, RunType DEF Run, TypeOK
      <3> QED
        BY <2>1, <3>1, LenProperties
    <2>6. PointsInv'
      BY <2>1, <2>4, <2>5 DEF PointsInv
    <2> QED
      BY <2>1, <2>3, <2>6 DEF BookInv, Own
  <1>5. ASSUME NEW h \in Handlers, LoadFromDisk(h)
        PROVE  (QueueInv /\ PointsInv /\ BookInv)'
    <2>1. current' = 0 /\ UNCHANGED <<mq, msg, inits>> /\ PutAway
      BY <1>5 DEF LoadFromDisk
    <2>2. \A c : Opens(msg, current, c) => Opens(msg', current', c)
      BY <2>1 DEF Opens
    <2>3. QueueInv'
      BY <2>1, <2>2, LaterKeepsOrder DEF QueueInv, TypeOK
    <2> QED
      BY <2>1, <2>3, PutAwayKeeps DEF PointsInv
  <1> QED
    BY <1>1, <1>2, <1>3, <1>4, <1>5, SendersKeep DEF Run

LEMMA MixStep ==
  ASSUME MixInv, [Next]_vars
  PROVE  MixInv'
  <1>1. TypeOK'
    BY NextType DEF MixInv
  <1>2. CASE UNCHANGED vars
    BY <1>1, <1>2 DEF MixInv, vars, chartVars, QueueInv, PointsInv, BookInv, Own
  <1> QED
    BY <1>1, <1>2, SendersKeep, RecordersKeep DEF Next, MixInv

\* A chart that was put away holds points of its own movement only, but for
\* those that were recorded while no chart was open: whichever threads send,
\* however late their messages are run, and whoever reads charts meanwhile,
\* until two threads are in the chart's data at once.
THEOREM ChartsKeepTheirPoints == Spec => []ChartsDoNotMix
  <1>1. MixInv => ChartsDoNotMix
    BY DEF MixInv, BookInv, Own, ChartsDoNotMix
  <1> QED
    BY MixInit, MixStep, <1>1, PTL DEF Spec

-----------------------------------------------------------------------------
(* Every change is recorded once                                           *)

\* The changes whose points have been sent are those up to old_telemetry's.
CountInv ==
  /\ ui.coords = moved
  /\ old.coords <= moved /\ moved <= old.coords + 1
  /\ behind # {} => old.coords < moved

\* The points are in the order of their changes.
OrderInv ==
  /\ \A p, q \in Places : Before(p, q) =>
       /\ PointAt(p).no < PointAt(q).no
       /\ \A a \in Axes : PointAt(p).coords[a] <= PointAt(q).coords[a]
  /\ \A p \in Places :
       /\ \A a \in Axes : PointAt(p).coords[a] \in PointAt(p).no .. Coord(a)
       /\ PointAt(p).no \in 1 .. old.coords

\* The message at work, and those in the queue, are to record later ones.
Works == msg # None /\ msg.kind = "insert"

\* What it has pushed is no older than its change, and no older than what
\* stands there.
TakenInv ==
  /\ ~Works => Len(taken) = 0
  /\ \A a \in 1 .. Len(taken) :
       /\ taken[a] \in msg.no .. Coord(a)
       /\ \A p \in Places : PointAt(p).coords[a] <= taken[a]
Sends(i) == mq[i].kind = "insert"
AheadInv ==
  /\ Works => /\ msg.no \in 1 .. old.coords
              /\ \A p \in Places : PointAt(p).no < msg.no
  /\ \A i \in 1 .. Len(mq) : Sends(i) =>
       /\ mq[i].no \in 1 .. old.coords
       /\ Works => msg.no < mq[i].no
       /\ \A p \in Places : PointAt(p).no < mq[i].no
       /\ \A k \in 1 .. i - 1 : Sends(k) => mq[k].no < mq[i].no

\* No change is left out.
AllInv ==
  \A n \in 1 .. old.coords :
    \/ \E p \in Places : PointAt(p).no = n
    \/ Works /\ msg.no = n
    \/ \E i \in 1 .. Len(mq) : Sends(i) /\ mq[i].no = n

Counted == CountInv /\ OrderInv /\ TakenInv /\ AheadInv /\ AllInv
OnceInv == TypeOK /\ Counted

\* What the types say of the numbers.
LEMMA NumberTypes ==
  ASSUME TypeOK
  PROVE  /\ ui.coords \in Nat /\ old.coords \in Nat /\ moved \in Nat
         /\ Len(mq) \in Nat /\ \A i \in 1 .. Len(mq) : mq[i] \in Message
         /\ Len(book) \in Nat /\ DOMAIN book = 1 .. Len(book)
         /\ Len(points) \in Nat /\ DOMAIN points = 1 .. Len(points)
         /\ \A p \in Places : PointAt(p).no \in Nat
  <1>1. ui.coords \in Nat /\ old.coords \in Nat /\ moved \in Nat
    BY BoundsNat DEF TypeOK, UiType
  <1>2. /\ Len(mq) \in Nat /\ \A i \in 1 .. Len(mq) : mq[i] \in Message
        /\ Len(book) \in Nat /\ DOMAIN book = 1 .. Len(book)
        /\ Len(points) \in Nat /\ DOMAIN points = 1 .. Len(points)
    BY ElementOfSeq, LenProperties DEF TypeOK
  <1>3. ASSUME NEW c, NEW k \in DOMAIN Chart(c)
        PROVE  Chart(c)[k] \in PointType
    <2>1. Chart(c) \in Seq(PointType)
      <3>1. CASE c \in DOMAIN book
        <4>1. book[c] \in [of : Nat, points : Seq(PointType)]
          BY <3>1, <1>2, ElementOfSeq DEF TypeOK
        <4> QED
          BY <3>1, <4>1 DEF Chart
      <3>2. CASE c \notin DOMAIN book
        BY <3>2 DEF Chart, TypeOK
      <3> QED
        BY <3>1, <3>2
    <2> QED
      BY <1>3, <2>1, ElementOfSeq, LenProperties
  <1>4. ASSUME NEW p \in Places
        PROVE  PointAt(p) \in PointType
    BY <1>3, <1>4 DEF Places, PointAt
  <1> QED
    BY <1>1, <1>2, <1>4 DEF PointType

LEMMA AxisTypes ==
  ASSUME TypeOK
  PROVE  /\ Axes = 1 .. 3 /\ \A a \in Axes : Coord(a) \in Nat
         /\ Len(taken) \in {0, 1, 2}
         /\ \A a \in 1 .. Len(taken) : a \in Axes /\ taken[a] \in Nat
  <1>1. taken \in Seq(Nat) /\ Len(taken) \in Nat /\ Len(taken) <= 2
    BY LenProperties DEF TypeOK
  <1>2. \A a \in 1 .. Len(taken) : taken[a] \in Nat
    BY <1>1, ElementOfSeq
  <1>3. PICK n : n = Len(taken)
    OBVIOUS
  <1>4. n \in {0, 1, 2} /\ \A a \in 1 .. n : a \in 1 .. 3
    BY <1>1, <1>3
  <1>5. \A a \in Axes : Coord(a) \in Nat
    BY CoordType
  <1> QED
    BY <1>2, <1>3, <1>4, <1>5 DEF Axes

LEMMA Appended ==
  ASSUME NEW S, NEW s \in Seq(S), NEW z \in S, NEW n, n = Len(s) + 1
  PROVE  /\ \A a \in 1 .. Len(s) : Append(s, z)[a] = s[a]
         /\ Append(s, z)[n] = z
  BY AppendProperties, LenProperties

LEMMA ThirdAxis ==
  ASSUME NEW s \in Seq(Nat), NEW z \in Nat
  PROVE  Len(s) = 2 =>
           Append(s, z)[3] = z /\ \A a \in 1 .. 2 : Append(s, z)[a] = s[a]
  <1>1. PICK n \in Nat : n = Len(s) + 1
    BY LenProperties
  <1>2. /\ \A a \in 1 .. Len(s) : Append(s, z)[a] = s[a]
        /\ Append(s, z)[n] = z
    BY <1>1, Appended
  <1>3. Len(s) = 2 => n = 3
    BY <1>1
  <1> QED
    BY <1>2, <1>3

\* What nobody copies stays where it is.
LEMMA CoordStays ==
  ASSUME UNCHANGED <<ui, behind>>, NEW a
  PROVE  Coord(a)' = Coord(a)
  BY DEF Coord

LEMMA PlaceShape ==
  ASSUME TypeOK, NEW p
  PROVE  p \in Places <=>
           \E c \in 1 .. Len(book) + 1 : \E k \in DOMAIN Chart(c) : p = <<c, k>>
  BY DEF Places

\* A chart that is put away keeps its points where they are.
LEMMA PutAwayPlaces ==
  ASSUME TypeOK, PutAway
  PROVE  Places' = Places /\ \A p \in Places : PointAt(p)' = PointAt(p)
  <1>1. CASE current = 0
    BY <1>1 DEF PutAway, Places, PointAt, Chart
  <1>2. CASE current # 0
    <2> DEFINE chart == [of |-> current, points |-> points]
    <2>0. PICK n : n = Len(book)
      OBVIOUS
    <2>1. points' = <<>> /\ book' = Append(book, chart)
      BY <1>2 DEF PutAway
    <2>2. /\ book \in Seq([of : Nat, points : Seq(PointType)])
          /\ chart \in [of : Nat, points : Seq(PointType)]
      BY DEF TypeOK
    <2>3. /\ n \in Nat /\ DOMAIN book = 1 .. n
          /\ Len(book') = n + 1 /\ DOMAIN book' = 1 .. n + 1
          /\ \A i \in 1 .. n : book'[i] = book[i]
          /\ book'[n + 1] = chart
      BY <2>0, <2>1, <2>2, AppendProperties, LenProperties
    <2>4. \A c \in 1 .. n + 1 : Chart(c)' = Chart(c)
      BY <2>3 DEF Chart
    <2>5. DOMAIN Chart(n + 2)' = {}
      BY <2>1, <2>3 DEF Chart
    <2>6. Places' = UNION {{<<c, k>> : k \in DOMAIN Chart(c)'} : c \in 1 .. n + 2}
      BY <2>3 DEF Places
    <2>7. Places = UNION {{<<c, k>> : k \in DOMAIN Chart(c)} : c \in 1 .. n + 1}
      BY <2>0 DEF Places
    <2> HIDE DEF chart
    <2>8. ASSUME NEW p
          PROVE  p \in Places' <=> p \in Places
      <3>1. p \in Places' <=>
              \E c \in 1 .. n + 2 : \E k \in DOMAIN Chart(c)' : p = <<c, k>>
        BY <2>6
      <3>2. p \in Places <=>
              \E c \in 1 .. n + 1 : \E k \in DOMAIN Chart(c) : p = <<c, k>>
        BY <2>7
      <3>3. \A c : c \in 1 .. n + 2 <=> c \in 1 .. n + 1 \/ c = n + 2
        BY <2>3
      <3> QED
        BY <2>4, <2>5, <3>1, <3>2, <3>3
    <2>9. \A p \in Places : p[1] \in 1 .. n + 1
      BY <2>7
    <2> QED
      BY <2>4, <2>8, <2>9 DEF PointAt
  <1> QED
    BY <1>1, <1>2

\* A point that is recorded stands behind all others.
LEMMA InsertPlaces ==
  ASSUME TypeOK, RunInsert
  PROVE  \E new :
           /\ Places' = Places \cup {new}
           /\ \A p \in Places : PointAt(p)' = PointAt(p)
           /\ PointAt(new)' = Point
           /\ ~Before(new, new)
           /\ \A p \in Places : Before(p, new) /\ ~Before(new, p)
  <1>0. PICK n, m : n = Len(book) /\ m = Len(points)
    OBVIOUS
  <1>1. points' = Append(points, Point) /\ UNCHANGED book
    BY DEF RunInsert
  <1>2. points \in Seq(PointType) /\ points' \in Seq(PointType)
    BY RunType DEF Run, TypeOK
  <1>3. /\ n \in Nat /\ DOMAIN book = 1 .. n
        /\ m \in Nat /\ DOMAIN points = 1 .. m /\ DOMAIN points' = 1 .. m + 1
        /\ \A k \in 1 .. m : points'[k] = points[k]
        /\ points'[m + 1] = Point
    <2>1. /\ m \in Nat /\ DOMAIN points = 1 .. m /\ DOMAIN points' = 1 .. m + 1
          /\ \A k \in 1 .. m : points'[k] = points[k]
          /\ points'[m + 1] = Point
      BY <1>0, <1>1, <1>2, LenProperties
    <2> QED
      BY <1>0, <2>1, LenProperties DEF TypeOK
  <1>4. \A c \in 1 .. n : Chart(c)' = Chart(c)
    BY <1>1, <1>3 DEF Chart
  <1>5. Chart(n + 1) = points /\ Chart(n + 1)' = points'
    BY <1>1, <1>3 DEF Chart
  <1>6. Places' = UNION {{<<c, k>> : k \in DOMAIN Chart(c)'} : c \in 1 .. n + 1}
    BY <1>0, <1>1 DEF Places
  <1>7. Places = UNION {{<<c, k>> : k \in DOMAIN Chart(c)} : c \in 1 .. n + 1}
    BY <1>0 DEF Places
  <1>8. ASSUME NEW p
        PROVE  p \in Places' <=> p \in Places \cup {<<n + 1, m + 1>>}
    <2>1. p \in Places' <=>
            \E c \in 1 .. n + 1 : \E k \in DOMAIN Chart(c)' : p = <<c, k>>
      BY <1>6
    <2>2. p \in Places <=>
            \E c \in 1 .. n + 1 : \E k \in DOMAIN Chart(c) : p = <<c, k>>
      BY <1>7
    <2>3. \A c : c \in 1 .. n + 1 <=> c \in 1 .. n \/ c = n + 1
      BY <1>3
    <2>4. \A k : k \in 1 .. m + 1 <=> k \in 1 .. m \/ k = m + 1
      BY <1>3
    <2> QED
      BY <1>3, <1>4, <1>5, <2>1, <2>2, <2>3, <2>4
  <1>9. ASSUME NEW p \in Places
        PROVE  /\ PointAt(p)' = PointAt(p)
               /\ Before(p, <<n + 1, m + 1>>) /\ ~Before(<<n + 1, m + 1>>, p)
    <2>1. PICK c \in 1 .. n + 1 : \E k \in DOMAIN Chart(c) : p = <<c, k>>
      BY <1>7
    <2>2. PICK k \in DOMAIN Chart(c) : p = <<c, k>>
      BY <2>1
    <2>3. CASE c \in 1 .. n
      BY <1>3, <1>4, <2>2, <2>3 DEF PointAt, Before
    <2>4. CASE c = n + 1
      <3>1. k \in 1 .. m
        BY <1>3, <1>5, <2>4
      <3> QED
        BY <1>3, <1>5, <2>2, <2>4, <3>1 DEF PointAt, Before
    <2> QED
      BY <1>3, <2>3, <2>4
  <1>10. PointAt(<<n + 1, m + 1>>)' = Point
    BY <1>3, <1>5 DEF PointAt
  <1>11. ~Before(<<n + 1, m + 1>>, <<n + 1, m + 1>>)
    BY <1>3 DEF Before
  <1>12. Places' = Places \cup {<<n + 1, m + 1>>}
    BY <1>8
  <1> QED
    BY <1>9, <1>10, <1>11, <1>12

\* While a change has not been sent, what stands on an axis is not older than
\* the last that has.
LEMMA OldCoord ==
  ASSUME TypeOK, CountInv, NEW a \in Axes
  PROVE  old.coords <= Coord(a)
  BY NumberTypes DEF CountInv, Coord

\* Messages that begin charts, and messages that are taken or woken for,
\* record nothing and leave nothing out.
LEMMA SendInitOnce ==
  ASSUME OnceInv, NEW s, NEW i \in Nat, Push(s, InitMsg(i)),
         UNCHANGED <<msg, book, points, taken, ui, behind, moved>>,
         UNCHANGED old.coords
  PROVE  Counted'
  <1>1. /\ Len(mq) \in Nat /\ Len(mq') = Len(mq) + 1
        /\ \A k \in 1 .. Len(mq) : mq'[k] = mq[k]
        /\ mq'[Len(mq) + 1].kind = "init"
    BY AppendMessage, MessageTypes DEF OnceInv, TypeOK, Push, InitMsg
  <1>2. Places' = Places /\ \A p \in Places : PointAt(p)' = PointAt(p)
    BY DEF Places, PointAt, Chart
  <1>3. \A k \in 1 .. Len(mq') : Sends(k)' => k \in 1 .. Len(mq) /\ Sends(k)
    BY <1>1 DEF Sends
  <1>4. CountInv' /\ OrderInv' /\ TakenInv'
    BY <1>2, CoordStays DEF OnceInv, Counted, CountInv, OrderInv, TakenInv, Works
  <1>5. AheadInv'
    BY <1>1, <1>2, <1>3 DEF OnceInv, Counted, AheadInv, Works, Sends
  <1>6. AllInv'
    BY <1>1, <1>2 DEF OnceInv, Counted, AllInv, Works, Sends
  <1> QED
    BY <1>4, <1>5, <1>6 DEF Counted

\* A change is sent to be recorded.
LEMMA SendInsertOnce ==
  ASSUME OnceInv, ChartCoords
  PROVE  Counted'
  <1> USE NumberTypes DEF OnceInv, Counted
  <1>1. /\ UNCHANGED <<msg, book, points, taken, ui, behind, moved>>
        /\ old'.coords = ui.coords /\ old.coords <= old'.coords /\ behind = {}
    BY DEF ChartCoords, chartVars, CountInv, TypeOK
  <1>2. Places' = Places /\ \A p \in Places : PointAt(p)' = PointAt(p)
    BY <1>1 DEF Places, PointAt, Chart
  <1>3. CountInv'
    BY <1>1 DEF CountInv
  <1>4. OrderInv' /\ TakenInv'
    BY <1>1, <1>2, CoordStays DEF OrderInv, TakenInv, Works
  <1>5. CASE ui.coords = old.coords
    <2>1. UNCHANGED mq
      BY <1>5 DEF ChartCoords
    <2> QED
      BY <1>1, <1>2, <1>3, <1>4, <1>5, <2>1 DEF AheadInv, AllInv, Works, Sends
  <1>6. CASE ui.coords # old.coords
    <2>0. PICK l : l = Len(mq) + 1
      OBVIOUS
    <2>1. Push(Telemetry, InsertMsg) /\ moved = old.coords + 1
      BY <1>6 DEF ChartCoords, CountInv
    <2>2. /\ l \in Nat \ {0} /\ Len(mq') = l /\ Len(mq) = l - 1
          /\ \A k \in 1 .. l - 1 : mq'[k] = mq[k]
          /\ mq'[l].kind = "insert" /\ mq'[l].no = old.coords + 1
      <3>1. mq' = Append(mq, InsertMsg) /\ InsertMsg \in Message
        BY <2>1, MessageTypes DEF Push
      <3>2. InsertMsg.kind = "insert" /\ InsertMsg.no = old.coords + 1
        BY <2>1 DEF InsertMsg
      <3> QED
        BY <2>0, <3>1, <3>2, AppendMessage DEF TypeOK
    <2>3. old'.coords = old.coords + 1
      BY <1>1, <2>1 DEF CountInv
    <2>5. ASSUME NEW i \in 1 .. l, Sends(i)'
          PROVE  /\ mq'[i].no \in 1 .. old'.coords
                 /\ Works => msg.no < mq'[i].no
                 /\ \A p \in Places : PointAt(p).no < mq'[i].no
                 /\ \A k \in 1 .. i - 1 : Sends(k)' => mq'[k].no < mq'[i].no
      <3>1. CASE i = l
        <4>1. /\ mq'[i].no = old.coords + 1 /\ old.coords \in Nat
              /\ \A k \in 1 .. i - 1 : k \in 1 .. Len(mq) /\ mq'[k] = mq[k]
          BY <2>2, <3>1
        <4>2. \A k \in 1 .. i - 1 : Sends(k)' => mq'[k].no \in 1 .. old.coords
          BY <4>1 DEF AheadInv, Sends
        <4>3. Works => msg.no \in 1 .. old.coords
          BY DEF AheadInv
        <4>4. \A p \in Places : PointAt(p).no \in 1 .. old.coords
          BY DEF OrderInv
        <4> QED
          BY <2>3, <4>1, <4>2, <4>3, <4>4
      <3>2. CASE i # l
        <4>1. i \in 1 .. Len(mq) /\ mq'[i] = mq[i] /\ Sends(i)
              /\ \A k \in 1 .. i - 1 : mq'[k] = mq[k]
          BY <2>2, <2>5, <3>2 DEF Sends
        <4>2. \A k \in 1 .. i - 1 : Sends(k)' => Sends(k)
          BY <4>1 DEF Sends
        <4>3. mq[i].no \in 1 .. old'.coords
          BY <2>3, <4>1 DEF AheadInv
        <4> QED
          BY <4>1, <4>2, <4>3 DEF AheadInv
      <3> QED
        BY <3>1, <3>2
    <2>6. AheadInv'
      BY <1>1, <1>2, <2>2, <2>5 DEF AheadInv, Works, Sends
    <2>7. AllInv'
      <3> SUFFICES ASSUME NEW c \in 1 .. old'.coords
                   PROVE  \/ \E p \in Places : PointAt(p).no = c
                          \/ Works /\ msg.no = c
                          \/ \E i \in 1 .. l : Sends(i)' /\ mq'[i].no = c
        BY <1>1, <1>2, <2>2 DEF AllInv, Works, Sends
      <3>1. CASE c = old.coords + 1
        BY <2>2, <3>1 DEF Sends
      <3>2. CASE c \in 1 .. old.coords
        <4>1. \A i \in 1 .. Len(mq) : i \in 1 .. l /\ mq'[i] = mq[i]
          BY <2>2
        <4> QED
          BY <3>2, <4>1 DEF AllInv, Sends
      <3> QED
        BY <2>3, <3>1, <3>2
    <2> QED
      BY <1>3, <1>4, <2>6, <2>7
  <1> QED
    BY <1>5, <1>6

LEMMA TakeOnce ==
  ASSUME OnceInv, Take
  PROVE  Counted'
  <1> USE NumberTypes DEF OnceInv, Counted
  <1>1. /\ msg = None /\ ~Works /\ mq # <<>>
        /\ UNCHANGED <<book, points, taken, ui, behind, moved, old>>
    BY DEF Take, Works, telemetryVars, chartVars
  <1>2. Places' = Places /\ \A p \in Places : PointAt(p)' = PointAt(p)
    BY <1>1 DEF Places, PointAt, Chart
  <1>3. /\ Len(mq) \in Nat \ {0} /\ Len(mq') = Len(mq) - 1 /\ msg' = mq[1]
        /\ msg' # None
        /\ \A i \in 1 .. Len(mq) - 1 : mq'[i] = mq[i + 1]
    <2>1. /\ Len(mq) \in Nat \ {0} /\ Len(mq') = Len(mq) - 1 /\ msg' = mq[1]
          /\ \A i \in 1 .. Len(mq) - 1 : mq'[i] = mq[i + 1]
      BY <1>1, EmptySeq, HeadTailProperties DEF Take, TypeOK
    <2>2. mq[1] \in Message
      BY <2>1
    <2> QED
      BY <2>1, <2>2, MessageTypes
  <1>4. CountInv' /\ OrderInv' /\ TakenInv'
    BY <1>1, <1>2, CoordStays DEF CountInv, OrderInv, TakenInv
  <1>5. Works' <=> Sends(1)
    BY <1>3 DEF Works, Sends
  <1>6. AheadInv'
    <2>1. Works' => msg'.no \in 1 .. old.coords
                    /\ \A p \in Places : PointAt(p).no < msg'.no
      BY <1>3, <1>5 DEF AheadInv
    <2>2. ASSUME NEW i \in 1 .. Len(mq) - 1, Sends(i)'
          PROVE  /\ mq'[i].no \in 1 .. old.coords
                 /\ Works' => msg'.no < mq'[i].no
                 /\ \A p \in Places : PointAt(p).no < mq'[i].no
                 /\ \A k \in 1 .. i - 1 : Sends(k)' => mq'[k].no < mq'[i].no
      <3>1. i + 1 \in 1 .. Len(mq) /\ Sends(i + 1) /\ mq'[i] = mq[i + 1]
        BY <1>3, <2>2 DEF Sends
      <3>2. ASSUME NEW k \in 1 .. i - 1, Sends(k)'
            PROVE  mq'[k].no < mq'[i].no
        <4>1. /\ k + 1 \in 1 .. i + 1 - 1 /\ mq'[k] = mq[k + 1]
          BY <1>3, <3>2
        <4>2. Sends(k + 1)
          BY <3>2, <4>1 DEF Sends
        <4> QED
          BY <3>1, <4>1, <4>2 DEF AheadInv
      <3>3. 1 \in 1 .. i + 1 - 1
        OBVIOUS
      <3> QED
        BY <1>3, <1>5, <3>1, <3>2, <3>3 DEF AheadInv
    <2> QED
      BY <1>1, <1>2, <1>3, <2>1, <2>2 DEF AheadInv
  <1>7. AllInv'
    <2>0. /\ old'.coords = old.coords
          /\ \A p \in Places : p \in Places' /\ PointAt(p)'.no = PointAt(p).no
          /\ \A i : i \in 1 .. Len(mq') <=> i \in 1 .. Len(mq) - 1
      BY <1>1, <1>2, <1>3
    <2> SUFFICES ASSUME NEW c \in 1 .. old'.coords
                 PROVE  \/ \E p \in Places' : PointAt(p)'.no = c
                        \/ Works' /\ msg'.no = c
                        \/ \E i \in 1 .. Len(mq') : Sends(i)' /\ mq'[i].no = c
      BY Zenon DEF AllInv
    <2>1. CASE \E p \in Places : PointAt(p).no = c
      BY <2>0, <2>1
    <2>2. CASE \E i \in 1 .. Len(mq) : Sends(i) /\ mq[i].no = c
      <3>1. PICK i \in 1 .. Len(mq) : Sends(i) /\ mq[i].no = c
        BY <2>2
      <3>2. CASE i = 1
        BY <1>3, <1>5, <3>1, <3>2
      <3>3. CASE i # 1
        <4>1. i - 1 \in 1 .. Len(mq) - 1 /\ mq'[i - 1] = mq[i - 1 + 1]
              /\ i - 1 + 1 = i
          BY <1>3, <3>3
        <4> QED
          BY <2>0, <3>1, <4>1 DEF Sends
      <3> QED
        BY <3>2, <3>3
    <2> QED
      BY <1>1, <2>0, <2>1, <2>2 DEF AllInv
  <1> QED
    BY <1>4, <1>6, <1>7

\* The point of the message at work is recorded behind the others.
LEMMA InsertOnce ==
  ASSUME OnceInv, RunInsert
  PROVE  Counted'
  <1> USE NumberTypes DEF OnceInv, Counted
  <1>1. /\ Works /\ msg' = None /\ ~Works'
        /\ UNCHANGED <<mq, ui, behind, moved, old>>
        /\ Len(taken) = 2 /\ taken' = <<>>
    BY DEF RunInsert, Works, telemetryVars
  <1>2. PICK new : /\ Places' = Places \cup {new}
                   /\ \A p \in Places : PointAt(p)' = PointAt(p)
                   /\ PointAt(new)' = Point
                   /\ ~Before(new, new)
                   /\ \A p \in Places : Before(p, new) /\ ~Before(new, p)
    BY InsertPlaces
  <1>3. msg.no \in 1 .. old.coords /\ \A p \in Places : PointAt(p).no < msg.no
    BY <1>1 DEF AheadInv
  <1>4. /\ Point.no = msg.no
        /\ \A a \in Axes : /\ Point.coords[a] \in msg.no .. Coord(a)
                           /\ \A p \in Places : PointAt(p).coords[a] <= Point.coords[a]
    <2>1. Point.no = msg.no /\ Point.coords = Append(taken, Coord(3))
      BY DEF Point
    <2>2. taken \in Seq(Nat) /\ 3 \in Axes /\ Coord(3) \in Nat
      BY AxisTypes DEF TypeOK
    <2>3. Point.coords[3] = Coord(3) /\ \A a \in 1 .. 2 : Point.coords[a] = taken[a]
      BY <1>1, <2>1, <2>2, ThirdAxis
    <2>4. ASSUME NEW a \in Axes
          PROVE  /\ Point.coords[a] \in msg.no .. Coord(a)
                 /\ \A p \in Places : PointAt(p).coords[a] <= Point.coords[a]
      <3>1. CASE a \in 1 .. 2
        BY <1>1, <2>3, <3>1 DEF TakenInv
      <3>2. CASE a = 3
        <4>1. \A p \in Places : PointAt(p).coords[3] <= Coord(3)
          BY <2>2 DEF OrderInv
        <4>2. msg.no <= Coord(3)
          BY <1>3, <2>2, OldCoord
        <4> QED
          BY <1>3, <2>2, <2>3, <3>2, <4>1, <4>2
      <3> QED
        BY <2>4, <3>1, <3>2, AxisTypes
    <2> QED
      BY <2>1, <2>4
  <1>5. CountInv'
    BY <1>1 DEF CountInv
  <1>6. OrderInv'
    <2>1. ASSUME NEW p \in Places', NEW q \in Places', Before(p, q)
          PROVE  /\ PointAt(p)'.no < PointAt(q)'.no
                 /\ \A a \in Axes : PointAt(p)'.coords[a] <= PointAt(q)'.coords[a]
      <3>1. CASE p \in Places /\ q \in Places
        BY <1>2, <2>1, <3>1 DEF OrderInv
      <3>2. CASE p \in Places /\ q = new
        BY <1>2, <1>4, <1>3, <3>2 DEF OrderInv
      <3>3. CASE p = new
        BY <1>2, <2>1, <3>3
      <3> QED
        BY <1>2, <3>1, <3>2, <3>3
    <2>2. ASSUME NEW p \in Places'
          PROVE  /\ \A a \in Axes : PointAt(p)'.coords[a]
                                     \in PointAt(p)'.no .. Coord(a)
                 /\ PointAt(p)'.no \in 1 .. old.coords
      <3>1. CASE p \in Places
        BY <1>2, <3>1 DEF OrderInv
      <3>2. CASE p = new
        BY <1>2, <1>4, <1>3, <3>2 DEF CountInv
      <3> QED
        BY <1>2, <3>1, <3>2
    <2> QED
      BY <1>1, <2>1, <2>2, CoordStays DEF OrderInv, Before
  <1>7. AheadInv'
    <2>1. ASSUME NEW i \in 1 .. Len(mq), Sends(i), NEW p \in Places'
          PROVE  PointAt(p)'.no < mq[i].no
      <3>1. CASE p \in Places
        BY <1>2, <2>1, <3>1 DEF AheadInv
      <3>2. CASE p = new
        BY <1>1, <1>2, <1>4, <2>1, <3>2 DEF AheadInv
      <3> QED
        BY <1>2, <3>1, <3>2
    <2> QED
      BY <1>1, <2>1 DEF AheadInv, Sends
  <1>8. AllInv'
    <2>1. new \in Places' /\ PointAt(new)'.no = msg.no
      BY <1>2, <1>4
    <2>2. ASSUME NEW p \in Places
          PROVE  p \in Places' /\ PointAt(p)' = PointAt(p)
      BY <1>2
    <2> QED
      BY <1>1, <2>1, <2>2 DEF AllInv, Sends
  <1>9. TakenInv'
    BY <1>1, EmptySeq DEF TakenInv
  <1> QED
    BY <1>5, <1>6, <1>7, <1>8, <1>9

\* An axis is pushed.
LEMMA PushOnce ==
  ASSUME OnceInv, PushAxis
  PROVE  Counted'
  <1> USE NumberTypes DEF OnceInv, Counted
  <1>1. /\ Works /\ Works' /\ UNCHANGED <<mq, msg, ui, behind, moved, old, book, points>>
        /\ Len(taken) < 2 /\ taken' = Append(taken, Coord(Len(taken) + 1))
    BY DEF PushAxis, Works, telemetryVars
  <1>2. Places' = Places /\ \A p \in Places : PointAt(p)' = PointAt(p)
    BY <1>1 DEF Places, PointAt, Chart
  <1>3. CountInv' /\ OrderInv' /\ AheadInv' /\ AllInv'
    <2>1. CountInv' /\ OrderInv'
      BY <1>1, <1>2, CoordStays DEF CountInv, OrderInv
    <2> QED
      BY <1>1, <1>2, <2>1 DEF AheadInv, AllInv, Sends
  <1>4. PICK n \in Nat : n = Len(taken) + 1
    BY AxisTypes
  <1>5. /\ n \in Axes /\ Len(taken') = n /\ taken'[n] = Coord(n)
        /\ \A a \in 1 .. n - 1 : taken'[a] = taken[a]
    BY <1>1, <1>4, AxisTypes, AppendProperties DEF TypeOK
  <1>6. msg.no <= Coord(n) /\ \A p \in Places : PointAt(p).coords[n] <= Coord(n)
    <2>1. msg.no \in 1 .. old.coords
      BY <1>1 DEF AheadInv
    <2> QED
      BY <1>5, <2>1, OldCoord, AxisTypes DEF OrderInv
  <1>7. ASSUME NEW a \in 1 .. n
        PROVE  /\ taken'[a] \in msg.no .. Coord(a)
               /\ \A p \in Places : PointAt(p).coords[a] <= taken'[a]
    <2>1. CASE a = n
      <3>1. msg.no \in Nat
        BY <1>1 DEF AheadInv
      <3> QED
        BY <1>5, <1>6, <2>1, <3>1, AxisTypes
    <2>2. CASE a \in 1 .. n - 1
      BY <1>4, <1>5, <2>2 DEF TakenInv
    <2> QED
      BY <2>1, <2>2
  <1>8. TakenInv'
    BY <1>1, <1>2, <1>5, <1>7, CoordStays DEF TakenInv
  <1> QED
    BY <1>3, <1>8

\* Nothing is recorded, sent or taken.
LEMMA ElseOnce ==
  ASSUME OnceInv, UNCHANGED <<mq, moved, ui, behind, old, taken>>,
         \/ UNCHANGED <<msg, book, points>>
         \/ RunInit \/ \E h \in Handlers : LoadFromDisk(h)
  PROVE  Counted'
  <1> USE DEF OnceInv, Counted
  <1>1. Places' = Places /\ \A p \in Places : PointAt(p)' = PointAt(p)
    <2>1. CASE UNCHANGED <<msg, book, points>>
      BY <2>1 DEF Places, PointAt, Chart
    <2> QED
      BY <2>1, PutAwayPlaces DEF RunInit, LoadFromDisk
  <1>2. (Works' <=> Works) /\ (Works => UNCHANGED msg)
    BY DEF RunInit, LoadFromDisk, Works
  <1> QED
    BY <1>1, <1>2, CoordStays DEF CountInv, OrderInv, TakenInv, AheadInv, AllInv, Sends

\* The telemetry: a frame is begun when the one before is remembered.
LEMMA FrameOnce ==
  ASSUME OnceInv, Frame \/ Convert \/ \E a \in Axes : CopyAxis(a)
  PROVE  Counted'
  <1> USE NumberTypes DEF OnceInv, Counted
  <1>1. UNCHANGED <<old, mq, msg, book, points, taken>>
    BY DEF Frame, Convert, CopyAxis, chartVars
  <1>2. Places' = Places /\ \A p \in Places : PointAt(p)' = PointAt(p)
    BY <1>1 DEF Places, PointAt, Chart
  <1>3. CountInv'
    BY DEF Frame, Convert, CopyAxis, CountInv, TypeOK, UiType
  <1>4. ASSUME NEW a \in Axes
        PROVE  /\ Coord(a) \in Nat /\ Coord(a)' \in Nat
               /\ Coord(a) <= Coord(a)'
    <2>0. Coord(a) \in Nat
      BY AxisTypes
    <2>1. CASE Frame
      <3>1. PICK joystick \in SUBSET Directions, other \in {0, 1} :
              /\ ui' = [coords |-> ui.coords + other, raw |-> TRUE,
                        joystick |-> joystick]
              /\ behind' = IF other = 1 THEN Axes ELSE {}
        BY <2>1 DEF Frame
      <3>2. behind = {}
        BY <2>1 DEF Frame, TypeOK
      <3> QED
        BY <2>0, <3>1, <3>2 DEF Coord
    <2>2. CASE Convert
      BY <2>0, <2>2 DEF Convert, Coord, TypeOK, UiType
    <2>3. ASSUME NEW b \in Axes, CopyAxis(b)
          PROVE  Coord(a) <= Coord(a)' /\ Coord(a)' \in Nat
      BY <2>0, <2>3 DEF CopyAxis, Coord, TypeOK
    <2> QED
      BY <2>0, <2>1, <2>2, <2>3
  <1>5. OrderInv'
    <2>1. ASSUME NEW p \in Places, NEW a \in Axes
          PROVE  PointAt(p)'.coords[a] \in PointAt(p)'.no .. Coord(a)'
      <3>1. PointAt(p).coords[a] \in PointAt(p).no .. Coord(a)
        BY <2>1 DEF OrderInv
      <3> QED
        BY <1>2, <1>4, <2>1, <3>1
    <2> QED
      BY <1>1, <1>2, <2>1 DEF OrderInv, Before
  <1>6. TakenInv'
    <2>1. ASSUME NEW a \in 1 .. Len(taken)
          PROVE  taken[a] \in msg.no .. Coord(a)'
      <3>1. a \in Axes /\ taken[a] \in msg.no .. Coord(a)
        BY AxisTypes DEF TakenInv
      <3>2. msg.no \in 1 .. old.coords
        BY <2>1, AxisTypes DEF TakenInv, AheadInv
      <3> QED
        BY <1>4, <3>1, <3>2
    <2> QED
      BY <1>1, <1>2, <2>1 DEF TakenInv, Works
  <1>7. AheadInv' /\ AllInv'
    BY <1>1, <1>2 DEF AheadInv, AllInv, Works, Sends
  <1> QED
    BY <1>3, <1>5, <1>6, <1>7

LEMMA OnceInit == Init => OnceInv
  <1> SUFFICES ASSUME Init PROVE OnceInv
    OBVIOUS
  <1>1. Len(mq) = 0 /\ DOMAIN points = {} /\ DOMAIN book = {} /\ Len(book) = 0
    BY EmptySeq DEF Init
  <1>2. Places = {}
    BY <1>1 DEF Places, Chart
  <1>3. CountInv /\ old.coords = 0
    BY DEF Init, CountInv
  <1>4. TakenInv
    BY EmptySeq DEF Init, TakenInv
  <1> QED
    BY <1>1, <1>2, <1>3, <1>4, InitType
       DEF Init, OnceInv, Counted, OrderInv, AheadInv, AllInv, Works

LEMMA OnceStep ==
  ASSUME OnceInv, [Next]_vars
  PROVE  OnceInv'
  <1> USE DEF OnceInv, Counted
  <1>1. TypeOK'
    BY NextType
  <1>2. ASSUME NEW d \in Directions, ChartJoystick(d)
        PROVE  Counted'
    <2>1. inits' \in Nat /\ Push(Telemetry, InitMsg(inits'))
      BY <1>1, <1>2 DEF ChartJoystick, TypeOK
    <2>2. old'.coords = old.coords
      BY <1>2 DEF ChartJoystick, TypeOK, UiType
    <2> QED
      BY <1>2, <2>1, <2>2, SendInitOnce DEF ChartJoystick, chartVars
  <1>3. ASSUME NEW h \in Handlers, ChartRequest(h)
        PROVE  Counted'
    <2>1. inits' \in Nat /\ Push(h, InitMsg(inits'))
      BY <1>1, <1>3 DEF ChartRequest, TypeOK
    <2> QED
      BY <1>3, <2>1, SendInitOnce DEF ChartRequest, telemetryVars, chartVars
  <1>4. CASE \/ Frame \/ Convert \/ ChartCoords \/ Take \/ PushAxis \/ RunInsert
             \/ \E a \in Axes : CopyAxis(a)
    BY <1>1, <1>4, FrameOnce, SendInsertOnce, TakeOnce, PushOnce, InsertOnce
  <1>5. CASE \/ Sleep \/ WakeAnyway \/ UNCHANGED vars
             \/ \E s \in Senders : Notify(s)
             \/ \E h \in Handlers : LastChart(h) \/ \E use \in Uses : ReadChart(h, use)
    <2>1. UNCHANGED <<mq, moved, ui, behind, old, taken, msg, book, points>>
      BY <1>5 DEF Sleep, WakeAnyway, vars, Notify, ReadChart, LastChart,
         telemetryVars, chartVars
    <2> QED
      BY <1>1, <2>1, ElseOnce
  <1>6. CASE RunInit \/ \E h \in Handlers : LoadFromDisk(h)
    <2>1. UNCHANGED <<mq, moved, ui, behind, old, taken>>
      BY <1>6 DEF RunInit, LoadFromDisk, telemetryVars
    <2> QED
      BY <1>1, <1>6, <2>1, ElseOnce
  <1> QED
    BY <1>1, <1>2, <1>3, <1>4, <1>5, <1>6 DEF Next, Update, Run

\* Every change of the coordinates is recorded once and in order, however the
\* charts are begun and put away meanwhile, until two threads are in the
\* chart's data at once.
THEOREM MovesAreRecordedOnce == Spec => []EveryMoveIsRecordedOnce
  <1>1. ASSUME OnceInv, AtRest
        PROVE  {PointAt(p).no : p \in Places} = 1 .. moved
    <2>1. Len(mq) = 0 /\ ~Works /\ old.coords = moved
      BY <1>1, EmptySeq DEF AtRest, Works, OnceInv, Counted, TypeOK, CountInv
    <2>2. \A p \in Places : PointAt(p).no \in 1 .. moved
      BY <1>1, <2>1 DEF OnceInv, Counted, OrderInv
    <2>3. \A n \in 1 .. moved : \E p \in Places : PointAt(p).no = n
      BY <1>1, <2>1 DEF OnceInv, Counted, AllInv
    <2> QED
      BY <2>2, <2>3
  <1>2. ASSUME OnceInv
        PROVE  EveryMoveIsRecordedOnce
    <2>1. ASSUME NEW p \in Places, NEW a \in Axes
          PROVE  PointAt(p).coords[a] \in PointAt(p).no .. ui.coords
      <3>1. PointAt(p).coords[a] \in PointAt(p).no .. Coord(a)
        BY <1>2 DEF OnceInv, Counted, OrderInv
      <3> QED
        BY <1>2, <3>1, NumberTypes, CoordType DEF OnceInv
    <2> QED
      BY <1>1, <1>2, <2>1 DEF OnceInv, Counted, OrderInv, EveryMoveIsRecordedOnce
  <1> QED
    BY OnceInit, OnceStep, <1>2, PTL DEF Spec

-----------------------------------------------------------------------------
\* No wakeup is lost, with any number of senders between push_back and
\* notify_one and whenever the wait ends by itself: whoever fills the queue
\* becomes a notifier, and the first of them to notify ends the wait.
THEOREM WakeupsAreNotLost == Spec => []NoMessageSleeps
  <1>1. Init => NoMessageSleeps
    BY DEF Init, NoMessageSleeps
  <1>2. ASSUME NoMessageSleeps, [Next]_vars
        PROVE  NoMessageSleeps'
    <2> USE DEF NoMessageSleeps
    <2>1. CASE \/ \E d \in Directions : ChartJoystick(d)
               \/ \E h \in Handlers : ChartRequest(h)
      <3>1. \E s, m : Push(s, m)
        BY <2>1 DEF ChartJoystick, ChartRequest
      <3> QED
        BY <3>1 DEF Push
    <2>2. CASE ChartCoords
      <3>1. (\E s, m : Push(s, m)) \/ UNCHANGED <<mq, notifying>>
        BY <2>2 DEF ChartCoords
      <3>2. asleep' = asleep
        BY <2>2 DEF ChartCoords
      <3>3. CASE \E s, m : Push(s, m)
        BY <3>3 DEF Push
      <3>4. CASE UNCHANGED <<mq, notifying>>
        BY <1>2, <3>2, <3>4
      <3> QED
        BY <3>1, <3>3, <3>4
    <2>3. CASE Sleep \/ WakeAnyway \/ Take \/ \E s \in Senders : Notify(s)
      BY <2>3 DEF Sleep, WakeAnyway, Take, Notify
    <2>4. CASE \/ Frame \/ (\E a \in Axes : CopyAxis(a)) \/ Convert
               \/ RunInit \/ PushAxis \/ RunInsert \/ UNCHANGED vars
               \/ \E h \in Handlers : \/ LoadFromDisk(h) \/ LastChart(h)
                                      \/ \E use \in Uses : ReadChart(h, use)
      <3>1. UNCHANGED <<mq, asleep, notifying>>
        BY <2>4 DEF Frame, CopyAxis, Convert, RunInit, PushAxis, RunInsert, vars,
           ReadChart, LoadFromDisk, LastChart
      <3> QED
        BY <1>2, <3>1
    <2> QED
      BY <1>2, <2>1, <2>2, <2>3, <2>4 DEF Next, Update, Run
  <1> QED
    BY <1>1, <1>2, PTL DEF Spec

=============================================================================
