---------------------------- MODULE PageRequests ----------------------------
(***************************************************************************)
(* How a page sends its requests: $.ajaxREMA (misc.js), whose answers find *)
(* their callbacks by a request id, and $.ajaxQueue (ajaxqueue.js), which  *)
(* sends one request after the other through the fx queue, the Deferreds   *)
(* and the xhr transport of the vendored jQuery.                           *)
(*                                                                         *)
(* A page runs one handler at a time, so an action is a handler or a timer *)
(* with all it calls.  On the server any number of requests is under way.  *)
(* What the RTU answers to a request is that request's own: the promise of *)
(* CommandChannel (AnswersAreTheirOwn).                                    *)
(***************************************************************************)
EXTENDS Naturals, Sequences

CONSTANTS RemaCalls,      \* calls of $.ajaxREMA
          QueuedCalls,    \* calls of $.ajaxQueue
          TimedCalls,     \* those with a timeout (50 s)
          InProgress,     \* the sentinel of the fx queue
          NoCall,
          MaxClock,       \* bound: milliseconds in which requests are made
          BodiesMayBeLate \* a request's body comes after its headers

ASSUME CallsApart == RemaCalls \cap QueuedCalls = {}
ASSUME TimedAreQueued == TimedCalls \subseteq QueuedCalls
ASSUME NoneIsNoCall ==
  NoCall \notin RemaCalls /\ InProgress \notin QueuedCalls
ASSUME MaxClockNat == MaxClock \in Nat \ {0}
ASSUME BodiesMayBeLateBoolean == BodiesMayBeLate \in BOOLEAN

VARIABLES
  clock,              \* Date.now()
  request_id,         \* of every call of $.ajaxREMA, 0 before it
  requestCallbacks,   \* the map, NoCall where it has no entry
  ajaxQueue,          \* the fx queue of ajaxqueue.js
  completed,          \* of every call: "unsent", "no" and "yes" in $.ajax
  timers,             \* calls whose next() waits in a setTimeout
  server,             \* where every call's request is
  answer,             \* the id in an answer on its way to the page
  called,             \* history: whose answer or error a call was told
  order,              \* history: queued calls in the order of their making
  lateIds             \* history: ids that answers to late bodies carried

pageVars == <<clock, request_id, requestCallbacks, ajaxQueue, completed, timers>>
history == <<called, order, lateIds>>
vars == <<pageVars, server, answer, history>>

Calls == RemaCalls \cup QueuedCalls
Ids == 0 .. MaxClock
ServerStates == {"none", "serving", "over"}

Init ==
  /\ clock = 1
  /\ request_id = [c \in RemaCalls |-> 0]
  /\ requestCallbacks = [i \in Ids |-> NoCall]
  /\ ajaxQueue = <<>>
  /\ completed = [c \in Calls |-> "unsent"]
  /\ timers = {}
  /\ server = [c \in Calls |-> "none"]
  /\ answer = [c \in Calls |-> {}]
  /\ called = [c \in RemaCalls |-> <<>>]
  /\ order = <<>> /\ lateIds = {}

-----------------------------------------------------------------------------
(* Operators and actions with one defect each, to try the properties on.   *)

\* One pair of callbacks for all requests.
RegisterAlone(c) == requestCallbacks' = [i \in Ids |-> c]

\* done() without its test of completed.
DoneAgain(c) ==
  /\ completed' = [completed EXCEPT ![c] = "yes"]
  /\ timers' = IF c \in QueuedCalls THEN timers \cup {c} ELSE timers

\* The sentinel stays in the queue.
DequeuedBehindSentinel(queue) ==
  IF queue = <<>> \/ queue = <<InProgress>> THEN <<>> ELSE <<InProgress>> \o queue

\* doRequest with then( next ): nothing follows a failure.
TimeoutWithoutNext(c) ==
  /\ c \in TimedCalls /\ completed[c] = "no"
  /\ completed' = [completed EXCEPT ![c] = "yes"]
  /\ answer' = [answer EXCEPT ![c] = {}]
  /\ UNCHANGED <<clock, request_id, requestCallbacks, ajaxQueue, timers, server,
                 history>>

-----------------------------------------------------------------------------
(* jQuery                                                                  *)

\* $.ajax hands the request to the transport.
Ajax(c) ==
  /\ completed' = [completed EXCEPT ![c] = "no"]
  /\ server' = [server EXCEPT ![c] = "serving"]

Pushed(queue, c) == Append(queue, c)

\* jQuery.dequeue: the sentinel goes, the next function is shifted and the
\* sentinel put before what is left.
Functions(queue) ==
  IF queue # <<>> /\ Head(queue) = InProgress THEN Tail(queue) ELSE queue
Dequeued(queue) ==
  IF Functions(queue) = <<>> THEN <<>> ELSE <<InProgress>> \o Tail(Functions(queue))

\* doRequest of the call that is shifted, if there is one.
Dequeue(queue) ==
  /\ ajaxQueue' = Dequeued(queue)
  /\ IF Functions(queue) = <<>> THEN UNCHANGED <<completed, server>>
                                ELSE Ajax(Head(Functions(queue)))

\* The xhr's callback and done() of $.ajax: once for every call.  The
\* handlers of then() are before any other callback in the lists of the
\* Deferred, and only set a timer.
Done(c) ==
  /\ completed[c] = "no"
  /\ completed' = [completed EXCEPT ![c] = "yes"]
  /\ timers' = IF c \in QueuedCalls THEN timers \cup {c} ELSE timers

-----------------------------------------------------------------------------
Tick ==
  /\ clock < MaxClock
  /\ clock' = clock + 1
  /\ UNCHANGED <<request_id, requestCallbacks, ajaxQueue, completed, timers,
                 server, answer, history>>

\* requestCallbacks.set( Date.now(), ... )
Register(c) == requestCallbacks' = [requestCallbacks EXCEPT ![clock] = c]

AjaxREMA(c) ==
  /\ completed[c] = "unsent"
  /\ request_id' = [request_id EXCEPT ![c] = clock]
  /\ Register(c)
  /\ Ajax(c)
  /\ UNCHANGED <<clock, ajaxQueue, timers, answer, history>>

\* ajaxQueue.queue( doRequest ): the queue begins if it is not under way.
AjaxQueue(c) ==
  /\ \A i \in DOMAIN order : order[i] # c
  /\ order' = Append(order, c)
  /\ IF ajaxQueue # <<>> /\ Head(ajaxQueue) = InProgress
     THEN /\ ajaxQueue' = Pushed(ajaxQueue, c)
          /\ UNCHANGED <<completed, server>>
     ELSE Dequeue(Pushed(ajaxQueue, c))
  /\ UNCHANGED <<clock, request_id, requestCallbacks, timers, answer, called,
                 lateIds>>

\* next() of a call whose request is over.
CallNext(c) ==
  /\ c \in timers
  /\ timers' = timers \ {c}
  /\ Dequeue(ajaxQueue)
  /\ UNCHANGED <<clock, request_id, requestCallbacks, answer, history>>

-----------------------------------------------------------------------------
\* The callbacks under an id; they are forgotten when they have run, unless
\* they throw.
CallBack(id, payload) ==
  LET c == requestCallbacks[id]
  IN IF c = NoCall
     THEN UNCHANGED <<called, requestCallbacks>>
     ELSE /\ called' = [called EXCEPT ![c] = Append(@, payload)]
          /\ \/ requestCallbacks' = [requestCallbacks EXCEPT ![id] = NoCall]
             \/ UNCHANGED requestCallbacks

\* $.ajaxREMA looks its callbacks up by the id of the answer, or by its own
\* after an error.  A queued call resolves or rejects its own promise.
Tell(c, id) == IF c \in RemaCalls THEN CallBack(id, c)
               ELSE UNCHANGED <<called, requestCallbacks>>

\* xhr.onload
Load(c) ==
  /\ Done(c)
  /\ \E id \in answer[c] : Tell(c, id)
  /\ answer' = [answer EXCEPT ![c] = {}]
  /\ UNCHANGED <<clock, request_id, ajaxQueue, server, order, lateIds>>

\* xhr.onerror, the HTTP connection has failed and the server may go on; or
\* what has come is no JSON.
Fails(c) ==
  /\ Done(c)
  /\ answer[c] = {} /\ UNCHANGED answer
  /\ Tell(c, IF c \in RemaCalls THEN request_id[c] ELSE 0)
  /\ UNCHANGED <<clock, request_id, ajaxQueue, server, order, lateIds>>

\* abort( "timeout" ); the server is not told.
Timeout(c) ==
  /\ c \in TimedCalls
  /\ Done(c)
  /\ answer' = [answer EXCEPT ![c] = {}]
  /\ UNCHANGED <<clock, request_id, requestCallbacks, ajaxQueue, server, history>>

-----------------------------------------------------------------------------
\* Requests are on several connections: they end in any order.  An answer to
\* a request that the page has given up goes nowhere.
Answered(c, ids) ==
  /\ server[c] = "serving"
  /\ server' = [server EXCEPT ![c] = "over"]
  /\ answer' = [answer EXCEPT ![c] = IF completed[c] = "yes" THEN {} ELSE ids]
  /\ UNCHANGED <<pageVars, called, order>>

\* post_rema_method_handler: the request id, captured by reference, is the
\* request's own while the handler runs, and anything after it has returned.
\* When the RTU has not answered, or what it has answered is no JSON, the
\* page gets no answer, or one that it takes for an error.
ServeREMA(c) ==
  /\ c \in RemaCalls
  /\ \/ Answered(c, {request_id[c]}) /\ UNCHANGED lateIds
     \/ Answered(c, {}) /\ UNCHANGED lateIds
     \/ /\ BodiesMayBeLate
        /\ \E id \in Ids : /\ Answered(c, {id})
                          /\ lateIds' = IF answer' # answer
                                        THEN lateIds \cup {id} ELSE lateIds

\* A handler of the REST API ends; its status makes no difference here.
ServeREST(c) ==
  /\ c \in QueuedCalls
  /\ Answered(c, {0}) /\ UNCHANGED lateIds

Page ==
  \/ Tick
  \/ \E c \in RemaCalls : AjaxREMA(c)
  \/ \E c \in QueuedCalls : AjaxQueue(c) \/ CallNext(c)
  \/ \E c \in Calls : Load(c) \/ Fails(c) \/ Timeout(c)
Server == \E c \in Calls : ServeREMA(c) \/ ServeREST(c)
Next == Page \/ Server

Spec == Init /\ [][Next]_vars

\* The browser runs its timers and brings the answers that have come.
FairSpec ==
  /\ Spec
  /\ \A c \in Calls : WF_vars(Load(c) \/ Timeout(c))
  /\ \A c \in QueuedCalls : WF_vars(CallNext(c))

-----------------------------------------------------------------------------
\* The variables have their types; the sentinel is at the head of the queue
\* and nowhere else.
TypeOK ==
  /\ clock \in Ids
  /\ request_id \in [RemaCalls -> Ids]
  /\ requestCallbacks \in [Ids -> RemaCalls \cup {NoCall}]
  /\ ajaxQueue \in Seq(QueuedCalls \cup {InProgress})
  /\ \A i \in DOMAIN ajaxQueue : ajaxQueue[i] = InProgress <=> i = 1
  /\ completed \in [Calls -> {"unsent", "no", "yes"}]
  /\ timers \subseteq QueuedCalls
  /\ server \in [Calls -> ServerStates]
  /\ answer \in [Calls -> {{}} \cup {{id} : id \in Ids}]
  /\ called \in [RemaCalls -> Seq(RemaCalls)]
  /\ order \in Seq(QueuedCalls)
  /\ lateIds \subseteq Ids

\* A call's callbacks are called once at most, and with its own answer
\* (requestCallbacks in misc.js), unless another call was made in the same
\* millisecond or the answer to a late body carried its id.
CallbacksAreTheirOwn ==
  \A c \in RemaCalls :
    \/ called[c] = <<>>
    \/ called[c] = <<c>>
    \/ request_id[c] \in lateIds
    \/ \E d \in RemaCalls \ {c} : request_id[d] = request_id[c]

\* The server has one request of the queue at a time (ajaxqueue.js), unless
\* the page has given the others up: after a timeout or an error the queue
\* goes on, and the server may still be at work.
QueueHoldsBack ==
  \A c, d \in QueuedCalls :
    server[c] = "serving" /\ server[d] = "serving" /\ c # d
      => completed[c] = "yes" \/ completed[d] = "yes"

\* What is in the queue is sent (doRequest), but for a call that waits behind
\* a request that has no timeout and is never answered.  A request without a
\* timeout that is answered, or fails, holds nothing back for good.
QueueDrains ==
  \A c \in QueuedCalls :
    \/ (\E i \in DOMAIN ajaxQueue : ajaxQueue[i] = c) ~> completed[c] # "unsent"
    \/ \E d \in QueuedCalls \ TimedCalls :
         <>[](completed[d] = "no" /\ completed[c] = "unsent")

\* A queued call is under way from $.ajax to its next(); SerialQueue sees
\* these, the calls made and those behind the sentinel.
UnderWay(c) == completed[c] = "no" \/ c \in timers
Made == {order[i] : i \in DOMAIN order}
Active == {c \in QueuedCalls : UnderWay(c)}

Serial == INSTANCE SerialQueue
            WITH Calls <- QueuedCalls, made <- Made,
                 waiting <- Functions(ajaxQueue), active <- Active

\* The queue is serial, whether a call is answered, fails or is given up:
\* calls are sent in the order of their making and once each, and none waits
\* without one under way whose end will send it (ajaxqueue.js).
QueueTakesTurns == Serial!Spec

=============================================================================
