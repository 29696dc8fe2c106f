---------------------------- MODULE ChartRecorder ----------------------------
(***************************************************************************)
(* chart (chart.cpp) and the active object that does its work              *)
(* (active.hpp).  The telemetry thread and the request handlers send it    *)
(* messages: init, which puts the current chart away and begins another,   *)
(* and insertData, which records the coordinates.  The object's thread     *)
(* runs them one at a time.  A page that opens a chart puts the current    *)
(* one away in its own handler's thread, beside the queue.                 *)
(*                                                                         *)
(* insertData captures a reference to ui_telemetry.coords: what is         *)
(* recorded is what stands there when the message is run, x, then y, then  *)
(* z, each perhaps of another frame.  update_telemetry copies a frame axis *)
(* by axis, and leaves the machine's raw coordinates there until it has    *)
(* converted them.                                                         *)
(*                                                                         *)
(* Coordinates are numbered in the order in which they come; of a file the *)
(* model keeps the chart that was written to it.                           *)
(***************************************************************************)
EXTENDS Naturals, SequencesExt

CONSTANTS Handlers,      \* threads of the pool that serve requests
          Directions,    \* of the joystick: X and Y together, and Z
          None,
          MaxFrames,     \* bound: telemetry frames
          MaxRequests    \* bound: requests

ASSUME BoundsNat == MaxFrames \in Nat /\ MaxRequests \in Nat
ASSUME NoneIsNoMessage == None \notin [kind : {"init", "insert"}, of : Nat, no : Nat]

VARIABLES
  ui, old,       \* ui_telemetry and old_telemetry: coords and joystick_movement
  behind,        \* the axes of ui.coords that this frame has not reached yet
  frame,         \* the telemetry thread: "idle", or where in update_telemetry
  frames,        \* telemetry frames so far
  moved,         \* history: the frames that brought other coordinates
  mq, asleep,    \* the active object's queue, and its thread in cv.wait
  msg,           \* the message it runs
  notifying,     \* the senders between push_back and notify_one
  current,       \* the chart that chart_file_stream is open for, or 0
  taken,         \* what the insertData at work has pushed so far
  points,        \* timestamps and coords_x, y, z
  book,          \* the charts written to files
  inits,         \* history: init messages so far; the last begins the
                 \* chart of the movement that goes on
  reader,        \* handlers inside load_from_disk or make_chart_data
  requests,
  overlapped     \* history: two threads were in the chart's data at once

telemetryVars == <<ui, old, behind, frame, frames, moved>>
chartVars == <<current, taken, points, book>>
vars == <<telemetryVars, mq, asleep, msg, notifying, chartVars, inits, reader,
          requests, overlapped>>

Telemetry == "telemetry"  \* the thread that runs update_telemetry
Senders == Handlers \cup {Telemetry}
\* An init is of the chart it begins, a point of the last one begun; as
\* history, a point has the number of the change it is sent for.
InitMsg(i) == [kind |-> "init", of |-> i, no |-> 0]
InsertMsg == [kind |-> "insert", of |-> inits, no |-> moved]

Init ==
  /\ ui = [coords |-> 0, raw |-> FALSE, joystick |-> {}] /\ old = ui /\ behind = {}
  /\ frame = "idle" /\ frames = 0 /\ moved = 0
  /\ mq = <<>> /\ asleep = FALSE /\ msg = None /\ notifying = {}
  /\ current = 0 /\ taken = <<>> /\ points = <<>> /\ book = <<>>
  /\ inits = 0 /\ reader = {} /\ requests = 0 /\ overlapped = FALSE

\* send: push_back under the mutex; notify_one follows.
Push(s, m) == mq' = Append(mq, m) /\ notifying' = notifying \cup {s}

\* What stands on an axis of ui.coords, and the point when z is read.
Axes == 1 .. 3
Coord(a) == IF a \in behind THEN ui.coords - 1 ELSE ui.coords
Point == [coords |-> Append(taken, Coord(3)), of |-> msg.of,
          loose |-> current = 0, no |-> msg.no]

-----------------------------------------------------------------------------
(* Actions below with one defect each, to try the properties on.           *)

\* close_curent leaves the points in memory.
PutAwayKeepsPoints ==
  IF current = 0 THEN UNCHANGED <<points, book>>
  ELSE book' = Append(book, [of |-> current, points |-> points]) /\ UNCHANGED points

\* The last message that was sent is run first.
TakeLast ==
  /\ msg = None /\ ~asleep /\ mq # <<>>
  /\ msg' = mq[Len(mq)] /\ mq' = SubSeq(mq, 1, Len(mq) - 1)
  /\ UNCHANGED <<telemetryVars, asleep, notifying, chartVars, inits, reader,
                 requests, overlapped>>

\* cv.wait without its predicate.
SleepUnchecked ==
  /\ msg = None /\ ~asleep
  /\ asleep' = TRUE
  /\ UNCHANGED <<telemetryVars, mq, msg, notifying, chartVars, inits, reader,
                 requests, overlapped>>

\* old_telemetry is only taken from frames that are recorded.
ChartCoordsForgets ==
  /\ frame = "chart" /\ Telemetry \notin notifying
  /\ ui.joystick \subseteq old.joystick
  /\ IF ui.coords # old.coords THEN Push(Telemetry, InsertMsg) /\ old' = ui
     ELSE UNCHANGED <<mq, notifying, old>>
  /\ frame' = "idle"
  /\ UNCHANGED <<ui, behind, frames, moved, asleep, msg, chartVars, inits, reader,
                 requests, overlapped>>

-----------------------------------------------------------------------------
\* update_telemetry: ui_telemetry becomes the machine's, axis by axis.
Frame ==
  /\ frame = "idle" /\ Telemetry \notin notifying
  /\ frames < MaxFrames /\ frames' = frames + 1
  /\ \E joystick \in SUBSET Directions, other \in {0, 1} :
       /\ ui' = [coords |-> ui.coords + other, raw |-> TRUE, joystick |-> joystick]
       /\ moved' = moved + other
       /\ behind' = IF other = 1 THEN Axes ELSE {}
  /\ frame' = "raw"
  /\ UNCHANGED <<old, mq, asleep, msg, notifying, chartVars, inits, reader,
                 requests, overlapped>>

CopyAxis(a) ==
  /\ frame = "raw" /\ a \in behind
  /\ behind' = behind \ {a}
  /\ UNCHANGED <<ui, old, frame, frames, moved, mq, asleep, msg, notifying,
                 chartVars, inits, reader, requests, overlapped>>

\* from_rema_to_ui
Convert ==
  /\ frame = "raw" /\ behind = {}
  /\ ui' = [ui EXCEPT !.raw = FALSE]
  /\ frame' = "chart"
  /\ UNCHANGED <<old, behind, frames, moved, mq, asleep, msg, notifying, chartVars, inits,
                 reader, requests, overlapped>>

\* The joystick begins to move the machine: a chart of that movement.
ChartJoystick(d) ==
  /\ frame = "chart" /\ Telemetry \notin notifying
  /\ d \in ui.joystick \ old.joystick
  /\ inits' = inits + 1 /\ Push(Telemetry, InitMsg(inits'))
  /\ old' = [old EXCEPT !.joystick = @ \cup {d}]
  /\ UNCHANGED <<ui, behind, frame, frames, moved, asleep, msg, chartVars, reader,
                 requests, overlapped>>

\* Other coordinates are recorded; old_telemetry = ui_telemetry.
ChartCoords ==
  /\ frame = "chart" /\ Telemetry \notin notifying
  /\ ui.joystick \subseteq old.joystick
  /\ IF ui.coords # old.coords THEN Push(Telemetry, InsertMsg)
     ELSE UNCHANGED <<mq, notifying>>
  /\ old' = ui /\ frame' = "idle"
  /\ UNCHANGED <<ui, behind, frames, moved, asleep, msg, chartVars, inits, reader,
                 requests, overlapped>>

Notify(s) ==
  /\ s \in notifying
  /\ notifying' = notifying \ {s} /\ asleep' = FALSE
  /\ UNCHANGED <<telemetryVars, mq, msg, chartVars, inits, reader, requests,
                 overlapped>>

-----------------------------------------------------------------------------
\* close_curent
PutAway ==
  IF current = 0 THEN UNCHANGED <<points, book>>
  ELSE book' = Append(book, [of |-> current, points |-> points]) /\ points' = <<>>

\* Active::run: the wait, with its predicate; it may also wake by itself.
Sleep ==
  /\ msg = None /\ ~asleep /\ mq = <<>>
  /\ asleep' = TRUE
  /\ UNCHANGED <<telemetryVars, mq, msg, notifying, chartVars, inits, reader,
                 requests, overlapped>>

WakeAnyway ==
  /\ asleep /\ asleep' = FALSE
  /\ UNCHANGED <<telemetryVars, mq, msg, notifying, chartVars, inits, reader,
                 requests, overlapped>>

Take ==
  /\ msg = None /\ ~asleep /\ mq # <<>>
  /\ msg' = Head(mq) /\ mq' = Tail(mq)
  /\ UNCHANGED <<telemetryVars, asleep, notifying, chartVars, inits, reader,
                 requests, overlapped>>

\* The message of init; the file may not open.
RunInit ==
  /\ msg # None /\ msg.kind = "init"
  /\ PutAway /\ current' \in {0, msg.of}
  /\ msg' = None
  /\ overlapped' = (overlapped \/ reader # {})
  /\ UNCHANGED <<telemetryVars, mq, asleep, notifying, taken, inits, reader,
                 requests>>

\* The message of insertData: x and y, and
PushAxis ==
  /\ msg # None /\ msg.kind = "insert" /\ Len(taken) < 2
  /\ taken' = Append(taken, Coord(Len(taken) + 1))
  /\ overlapped' = (overlapped \/ reader # {})
  /\ UNCHANGED <<telemetryVars, mq, asleep, msg, notifying, current, points, book,
                 inits, reader, requests>>

\* z: the point is whole.
RunInsert ==
  /\ msg # None /\ msg.kind = "insert" /\ Len(taken) = 2
  /\ points' = Append(points, Point) /\ taken' = <<>>
  /\ msg' = None
  /\ overlapped' = (overlapped \/ reader # {})
  /\ UNCHANGED <<telemetryVars, mq, asleep, notifying, current, book, inits, reader,
                 requests>>

-----------------------------------------------------------------------------
Uses == {"load", "last"}
Accept(h) ==
  /\ h \notin notifying /\ \A use \in Uses : <<h, use>> \notin reader
  /\ requests < MaxRequests /\ requests' = requests + 1

\* A request for a movement begins its chart.
ChartRequest(h) ==
  /\ Accept(h)
  /\ inits' = inits + 1 /\ Push(h, InitMsg(inits'))
  /\ UNCHANGED <<telemetryVars, asleep, msg, chartVars, reader, overlapped>>

\* get_chart: the handler enters the chart's data, to put the current chart
\* away or to read the last one, which two may do at once;
ReadChart(h, use) ==
  /\ Accept(h)
  /\ reader' = reader \cup {<<h, use>>}
  /\ overlapped' = \/ overlapped \/ msg # None
                    \/ \E r \in reader : "load" \in {use, r[2]}
  /\ UNCHANGED <<telemetryVars, mq, asleep, msg, notifying, chartVars, inits>>

\* and leaves it: load_from_disk has put the current chart away,
LoadFromDisk(h) ==
  /\ <<h, "load">> \in reader /\ reader' = reader \ {<<h, "load">>}
  /\ PutAway /\ current' = 0
  /\ overlapped' = (overlapped \/ msg # None)
  /\ UNCHANGED <<telemetryVars, mq, asleep, msg, notifying, taken, inits, requests>>

\* "last" has read it.
LastChart(h) ==
  /\ <<h, "last">> \in reader /\ reader' = reader \ {<<h, "last">>}
  /\ overlapped' = (overlapped \/ msg # None)
  /\ UNCHANGED <<telemetryVars, mq, asleep, msg, notifying, chartVars, inits, requests>>

Update ==
  \/ Frame \/ (\E a \in Axes : CopyAxis(a)) \/ Convert
  \/ (\E d \in Directions : ChartJoystick(d)) \/ ChartCoords
Run == Sleep \/ Take \/ RunInit \/ PushAxis \/ RunInsert

\* What two threads in the data at once do to it is undefined: nothing is
\* claimed of what follows.
Next == ~overlapped /\
  (\/ Update \/ Run \/ WakeAnyway
   \/ \E s \in Senders : Notify(s)
   \/ \E h \in Handlers :
        \/ ChartRequest(h) \/ LoadFromDisk(h) \/ LastChart(h)
        \/ \E use \in Uses : ReadChart(h, use))

Spec == Init /\ [][Next]_vars

\* The threads run.
FairSpec ==
  /\ Spec
  /\ WF_vars(~overlapped /\ Run)
  /\ \A s \in Senders : WF_vars(~overlapped /\ Notify(s))

-----------------------------------------------------------------------------
Message == [kind : {"init", "insert"}, of : Nat, no : Nat]
PointType == [coords : Seq(Nat), of : Nat, loose : BOOLEAN, no : Nat]
UiType == [coords : Nat, raw : BOOLEAN, joystick : SUBSET Directions]

\* The variables have their types; a frame that is over has its coordinates
\* copied, converted and remembered, and what is pushed is of a message.
TypeOK ==
  /\ ui \in UiType /\ old \in UiType
  /\ frame \in {"idle", "raw", "chart"}
  /\ frame # "raw" => ~ui.raw /\ behind = {}
  /\ frame = "idle" => old = ui
  /\ behind \subseteq Axes /\ (behind # {} => ui.coords # 0)
  /\ frames \in 0 .. MaxFrames /\ moved \in 0 .. frames
  /\ mq \in Seq(Message) /\ msg \in Message \cup {None}
  /\ asleep \in BOOLEAN /\ notifying \subseteq Senders
  /\ inits \in Nat /\ current \in Nat
  /\ taken \in Seq(Nat) /\ Len(taken) <= 2
  /\ points \in Seq(PointType)
  /\ book \in Seq([of : Nat, points : Seq(PointType)])
  /\ reader \subseteq Handlers \X Uses /\ requests \in 0 .. MaxRequests
  /\ overlapped \in BOOLEAN

\* Where points are: in the charts written to files, and behind them in
\* memory.
Chart(c) == IF c \in DOMAIN book THEN book[c].points ELSE points
Places == UNION {{<<c, k>> : k \in DOMAIN Chart(c)} : c \in 1 .. Len(book) + 1}
PointAt(p) == Chart(p[1])[p[2]]
Before(p, q) == p[1] < q[1] \/ (p[1] = q[1] /\ p[2] < q[2])

AtRest == frame = "idle" /\ mq = <<>> /\ msg = None

\* A chart holds the points of its own movement, those sent after its init
\* and before the next, unless they were recorded while no chart was open:
\* those go to the chart that is begun next (init, close_curent).
ChartsDoNotMix ==
  ~overlapped =>
    \A i \in DOMAIN book : \A k \in DOMAIN book[i].points :
      LET p == book[i].points[k] IN p.of = book[i].of \/ p.loose

\* Every change of the coordinates leaves one point, in the order in which
\* they came, none lost or written twice when charts are put away.  Its axes
\* may be of different frames, but none is of a place the machine had left
\* before the change, and no axis goes back from a point to the next; the
\* last point is where the machine rests (though it may be there in the
\* machine's raw coordinates).
EveryMoveIsRecordedOnce ==
  ~overlapped =>
    /\ \A p, q \in Places : Before(p, q) =>
         /\ PointAt(p).no < PointAt(q).no
         /\ \A a \in Axes : PointAt(p).coords[a] <= PointAt(q).coords[a]
    /\ \A p \in Places, a \in Axes :
         PointAt(p).coords[a] \in PointAt(p).no .. ui.coords
    /\ AtRest => {PointAt(p).no : p \in Places} = 1 .. moved

\* No wakeup is lost: while the active object's thread waits on an empty
\* queue that has been filled, a sender has its notify_one still to do, with
\* any number of senders between push_back and notify_one (Active::send lets
\* the mutex go before it notifies).
NoMessageSleeps == asleep /\ mq # <<>> => notifying # {}

\* The active object's thread takes what is sent to it: no message stays
\* behind a wait (Active::run).
MessagesAreServed == mq # <<>> ~> msg # None \/ overlapped

=============================================================================
