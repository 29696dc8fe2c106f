----------------------------- MODULE EventStream -----------------------------
(***************************************************************************)
(* event_stream_handler (main.cpp) and the pages it speaks to.  Every      *)
(* 100 ms a tick on one of the pool's threads makes one message of the     *)
(* state of the RTU's connections and saves current_session when it has    *)
(* changed, and sends the message to the event streams that pages have     *)
(* open.  Without a stream it does nothing, and saves nothing.             *)
(*                                                                         *)
(* A page shows its "Connection Lost" dialog at SHOW_CONNECT, which comes  *)
(* with every tick, and closes it at HIDE_CONNECT, which comes once.  Its  *)
(* browser opens a broken stream again by itself.                          *)
(***************************************************************************)
EXTENDS SessionStore, Sequences

CONSTANTS Pages,
          MaxInFlight    \* bound: messages on a stream

ASSUME MaxInFlightPositive == MaxInFlight \in Nat \ {0}

VARIABLES
  linked,      \* command_client.is_connected and telemetry_client.is_connected
  hide_sent,
  sse_sessions,            \* the pages whose open stream is in the vector:
                           \* those that listen
  closed_left,             \* it holds closed streams as well
  res,                     \* the tick's message
  stream,                  \* what is on its way to every page
  reconnect_dialog_shown,  \* of every page
  broken                   \* history: the page's stream broke while the
                           \* dialog was shown

streamVars == <<linked, hide_sent, sse_sessions, closed_left, res>>
pageVars == <<stream, reconnect_dialog_shown, broken>>
vars == <<storeVars, streamVars, pageVars>>

Messages == [show : BOOLEAN, hide : BOOLEAN]
NoRes == [show |-> FALSE, hide |-> FALSE]

Init ==
  /\ StoreInit
  /\ linked \in BOOLEAN
  /\ hide_sent = FALSE
  /\ sse_sessions = {} /\ closed_left = FALSE
  /\ res = NoRes
  /\ stream = [p \in Pages |-> <<>>]
  /\ reconnect_dialog_shown = [p \in Pages |-> FALSE]
  /\ broken = [p \in Pages |-> FALSE]

-----------------------------------------------------------------------------
(* Actions below with one defect each, to try the properties on.           *)

\* hide_sent is not taken down while the connection is lost.
TickHidesOnce(w) ==
  /\ job[w] = Free /\ \A v \in Workers : job[v].pc \notin TickPcs
  /\ sse_sessions # {} \/ closed_left
  /\ \A p \in sse_sessions : Len(stream[p]) < MaxInFlight
  /\ res' = [show |-> ~linked, hide |-> linked /\ ~hide_sent]
  /\ hide_sent' = (linked \/ hide_sent)
  /\ GoTo(w, IF is_loaded /\ is_changed THEN "tickOpen" ELSE "tickSend")
  /\ UNCHANGED <<memory, file, requests, linked, sse_sessions, closed_left, pageVars>>

-----------------------------------------------------------------------------
\* event_stream_handler up to the saving; the next tick is scheduled when
\* this one is over.
Tick(w) ==
  /\ job[w] = Free /\ \A v \in Workers : job[v].pc \notin TickPcs
  /\ sse_sessions # {} \/ closed_left
  /\ \A p \in sse_sessions : Len(stream[p]) < MaxInFlight
  /\ res' = [show |-> ~linked, hide |-> linked /\ ~hide_sent]
  /\ hide_sent' = linked
  /\ GoTo(w, IF is_loaded /\ is_changed THEN "tickOpen" ELSE "tickSend")
  /\ UNCHANGED <<memory, file, requests, linked, sse_sessions, closed_left, pageVars>>

\* After save_to_disk: is_changed = false, and "Session Saved".
TickDone(w) ==
  /\ At(w, "tickDone")
  /\ is_changed' = FALSE
  /\ GoTo(w, "tickSend")
  /\ UNCHANGED <<name, data, is_loaded, file, streamVars, pageVars>>

\* Closed streams are erased, those that are known to be; the others get the
\* message.
TickSend(w) ==
  /\ At(w, "tickSend")
  /\ closed_left' \in {FALSE, closed_left}
  /\ stream' = [p \in Pages |-> IF p \in sse_sessions THEN Append(stream[p], res)
                                ELSE stream[p]]
  /\ res' = NoRes
  /\ Return(w)
  /\ UNCHANGED <<memory, file, linked, hide_sent, sse_sessions,
                 reconnect_dialog_shown, broken>>

-----------------------------------------------------------------------------
\* register_event_source_handler: a page is opened, or its browser asks for
\* its broken stream again.
Register(w, p) ==
  /\ job[w] = Free /\ p \notin sse_sessions
  /\ sse_sessions' = sse_sessions \cup {p}
  /\ UNCHANGED <<storeVars, linked, hide_sent, closed_left, res, pageVars>>

\* A stream that ends is found closed by a tick; what was on it is lost.
EndStreams(ps) ==
  /\ sse_sessions' = sse_sessions \ ps
  /\ stream' = [p \in Pages |-> IF p \in ps THEN <<>> ELSE stream[p]]

StreamBreaks(p) ==
  /\ p \in sse_sessions
  /\ EndStreams({p}) /\ closed_left' = TRUE
  /\ broken' = [broken EXCEPT ![p] = reconnect_dialog_shown[p]]
  /\ UNCHANGED <<storeVars, linked, hide_sent, res, reconnect_dialog_shown>>

\* onMessage
Receive(p) ==
  /\ stream[p] # <<>>
  /\ stream' = [stream EXCEPT ![p] = Tail(@)]
  /\ LET m == Head(stream[p])
     IN /\ reconnect_dialog_shown' = [reconnect_dialog_shown EXCEPT ![p] =
                                        (@ \/ m.show) /\ ~m.hide]
        /\ broken' = [broken EXCEPT ![p] = @ /\ ~m.hide]
  /\ UNCHANGED <<storeVars, streamVars>>

\* The page is closed, or loaded again: it begins without the dialog.
LeavePage(p) ==
  /\ EndStreams({p}) /\ closed_left' = (closed_left \/ p \in sse_sessions)
  /\ reconnect_dialog_shown' = [reconnect_dialog_shown EXCEPT ![p] = FALSE]
  /\ broken' = [broken EXCEPT ![p] = FALSE]
  /\ UNCHANGED <<storeVars, linked, hide_sent, res>>

-----------------------------------------------------------------------------
\* External: a connection to the RTU is lost, and made by a page's request
\* (REMA_connect, TelemetryLink).
LinkChanges ==
  /\ linked' = ~linked
  /\ UNCHANGED <<storeVars, hide_sent, sse_sessions, closed_left, res, pageVars>>

\* The proxy is stopped and started again; every stream breaks.
Restart ==
  /\ RestartStore
  /\ linked' \in BOOLEAN
  /\ hide_sent' = FALSE /\ closed_left' = FALSE /\ res' = NoRes
  /\ EndStreams(Pages)
  /\ broken' = reconnect_dialog_shown
  /\ UNCHANGED reconnect_dialog_shown

Step(w) ==
  \/ StoreStep(w) /\ UNCHANGED <<streamVars, pageVars>>
  \/ Tick(w) \/ TickDone(w) \/ TickSend(w)

Next ==
  \/ LinkChanges \/ Restart
  \/ \E w \in Workers :
       \/ Request(w) /\ UNCHANGED <<streamVars, pageVars>>
       \/ Step(w)
       \/ \E p \in Pages : Register(w, p)
  \/ \E p \in Pages : StreamBreaks(p) \/ Receive(p) \/ LeavePage(p)

Spec == Init /\ [][Next]_vars

\* The pool runs what it has begun, and the ticks; the browsers bring what
\* is on their streams.
FairSpec ==
  /\ Spec
  /\ \A w \in Workers : WF_vars(Step(w))
  /\ \A p \in Pages : WF_vars(Receive(p))

-----------------------------------------------------------------------------
\* The variables have their types; messages are on their way only to pages
\* that listen.
TypeOK ==
  /\ StoreTypeOK
  /\ linked \in BOOLEAN /\ hide_sent \in BOOLEAN /\ closed_left \in BOOLEAN
  /\ res \in Messages
  /\ sse_sessions \subseteq Pages
  /\ stream \in [Pages -> Seq(Messages)]
  /\ \A p \in Pages \ sse_sessions : stream[p] = <<>>
  /\ reconnect_dialog_shown \in [Pages -> BOOLEAN]
  /\ broken \in [Pages -> BOOLEAN]

\* "Session Saved" (event_stream_handler): with no request and no save under
\* way, every mark of the loaded session is in its file or is still flagged
\* to be saved.
MarksAreSavedOrFlagged ==
  AllFree /\ is_loaded /\ file[name].state # "absent"
    => is_changed \/ data.tubes \subseteq file[name].data.tubes

\* As DurableSessions sees them: an opened file holds what is about to be
\* written to it, and a session that is being created is the one in memory.
Writes(w, pcs, n) == job[w].pc \in pcs /\ job[w].of = n
Stored ==
  [n \in Names |->
     IF \E w \in Workers : Writes(w, {"createWrite"}, n)
     THEN [state |-> "whole", tubes |-> {}]
     ELSE IF \E w \in Workers : Writes(w, {"tickWrite", "uploadWrite"}, n)
     THEN [state |-> "whole", tubes |-> data.tubes]
     ELSE [state |-> file[n].state, tubes |-> file[n].data.tubes]]
Creates(w) == job[w].pc \in CreatePcs
Session ==
  IF \E w \in Workers : Creates(w)
  THEN Fresh(job[CHOOSE w \in Workers : Creates(w)].of) ELSE data

Durable == INSTANCE DurableSessions WITH stored <- Stored, session <- Session

\* The handlers of session.cpp and the tick add up to that, as long as none
\* begins while another is under way: no load, creation or save is seen half
\* done, none puts a session under another name, and a crash costs the file
\* that was being written and no other.
StoreIsAtomic == Durable!Spec

\* A flagged mark reaches the file, unless it is taken back, the session is
\* left for another one before the next tick, or no page listens: the tick
\* does not save then.
MarksReachTheFile ==
  \A n \in Names, t \in Tubes :
    name = n /\ is_changed /\ t \in data.tubes
      ~> \/ t \in file[n].data.tubes \/ t \notin data.tubes \/ name # n
         \/ sse_sessions = {}

\* HIDE_CONNECT is sent once: to a page that listens and has seen
\* SHOW_CONNECT, but for one whose stream broke under the dialog, it is on
\* its way or still to be sent.
HideIsToCome ==
  \A p \in sse_sessions :
    reconnect_dialog_shown[p] /\ ~broken[p]
      => ~hide_sent \/ res.hide \/ \E i \in DOMAIN stream[p] : stream[p][i].hide

\* When the connection is there again the dialog goes away (HIDE_CONNECT,
\* sent once), unless the page's stream has broken under the dialog.
DialogCloses ==
  \A p \in Pages :
    p \in sse_sessions /\ linked /\ reconnect_dialog_shown[p]
      ~> \/ p \notin sse_sessions \/ ~linked \/ broken[p]
         \/ ~reconnect_dialog_shown[p]

=============================================================================
