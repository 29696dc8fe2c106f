------------------------- MODULE PageRequests_proofs -------------------------
(***************************************************************************)
(* A page's requests, for any calls and any clock: the callbacks under an  *)
(* id are those of the call that has it, so only calls with the same id    *)
(* and answers to late bodies can mix them up (CallbackInv); and one       *)
(* request of the queue is under way while its sentinel is at the head     *)
(* (QueueInv).                                                             *)
(***************************************************************************)
EXTENDS PageRequests, SequenceTheorems, TLAPS

\* The part of TypeOK about the queue is kept apart.
Places ==
  /\ clock \in Ids
  /\ request_id \in [RemaCalls -> Ids]
  /\ requestCallbacks \in [Ids -> RemaCalls \cup {NoCall}]
  /\ completed \in [Calls -> {"unsent", "no", "yes"}]
  /\ timers \subseteq QueuedCalls
  /\ server \in [Calls -> ServerStates]
  /\ answer \in [Calls -> {{}} \cup {{id} : id \in Ids}]
  /\ called \in [RemaCalls -> Seq(RemaCalls)]
  /\ order \in Seq(QueuedCalls)
  /\ lateIds \subseteq Ids

SentinelAtHead(queue) ==
  /\ queue \in Seq(QueuedCalls \cup {InProgress})
  /\ \A i \in DOMAIN queue : queue[i] = InProgress <=> i = 1

LEMMA TypeParts ==
  /\ TypeOK <=> Places /\ SentinelAtHead(ajaxQueue)
  /\ TypeOK' <=> Places' /\ SentinelAtHead(ajaxQueue)'
  BY DEF TypeOK, Places, SentinelAtHead

QueueInv ==
  /\ \A c, d \in QueuedCalls : UnderWay(c) /\ UnderWay(d) => c = d
  /\ ajaxQueue # <<>> <=> \E c \in QueuedCalls : UnderWay(c)
  /\ \A c \in timers : completed[c] = "yes"
  /\ \A c \in QueuedCalls : server[c] = "serving" => completed[c] # "unsent"

\* Nothing is under the id 0, which a call has before it is made.
CallbackInv ==
  /\ clock # 0
  /\ \A i \in Ids : \A c \in RemaCalls :
       requestCallbacks[i] = c => request_id[c] = i /\ completed[c] # "unsent"
  /\ \A c \in RemaCalls :
       completed[c] = "unsent"
         => /\ request_id[c] = 0 /\ called[c] = <<>>
            /\ server[c] = "none" /\ answer[c] = {}
  /\ \A c \in RemaCalls : completed[c] # "unsent" => request_id[c] # 0
  /\ \A c \in RemaCalls : \A id \in answer[c] : id = request_id[c] \/ id \in lateIds

Alone(c) == /\ request_id[c] \notin lateIds
            /\ \A d \in RemaCalls \ {c} : request_id[d] # request_id[c]

ToldOnce ==
  \A c \in RemaCalls :
    Alone(c) => \/ called[c] = <<>>
                \/ called[c] = <<c>> /\ completed[c] = "yes"

PageInv == TypeOK /\ QueueInv /\ CallbackInv /\ ToldOnce

-----------------------------------------------------------------------------
(* The fx queue                                                            *)

LEMMA SequenceOf ==
  ASSUME NEW S, NEW T, NEW r \in Seq(S), \A i \in 1 .. Len(r) : r[i] \in T
  PROVE  r \in Seq(T)
  <1>1. r \in [1 .. Len(r) -> S] /\ Len(r) \in Nat
    BY LenProperties
  <1>2. r \in [1 .. Len(r) -> T]
    BY <1>1
  <1> QED
    BY <1>1, <1>2, SeqDef

LEMMA SentinelIsHead ==
  ASSUME NEW q, SentinelAtHead(q), q # <<>>
  PROVE  Len(q) \in Nat /\ Len(q) # 0 /\ Head(q) = InProgress /\ q[1] = InProgress
  <1>1. q \in Seq(QueuedCalls \cup {InProgress})
    BY DEF SentinelAtHead
  <1>2. Len(q) \in Nat /\ DOMAIN q = 1 .. Len(q)
    BY <1>1, LenProperties
  <1>3. Len(q) # 0
    BY <1>1, EmptySeq
  <1>4. 1 \in DOMAIN q
    BY <1>2, <1>3
  <1>5. q[1] = InProgress
    BY <1>4 DEF SentinelAtHead
  <1> QED
    BY <1>1, <1>2, <1>3, <1>5

LEMMA PushedKeepsSentinel ==
  ASSUME NEW q, SentinelAtHead(q), q # <<>>, NEW c \in QueuedCalls
  PROVE  SentinelAtHead(Pushed(q, c)) /\ Pushed(q, c) # <<>>
  <1>1. q \in Seq(QueuedCalls \cup {InProgress}) /\ Len(q) \in Nat /\ Len(q) # 0
    BY SentinelIsHead DEF SentinelAtHead
  <1>2. /\ Append(q, c) \in Seq(QueuedCalls \cup {InProgress})
        /\ Append(q, c) # <<>> /\ Len(Append(q, c)) = Len(q) + 1
        /\ \A i \in 1 .. Len(q) : Append(q, c)[i] = q[i]
        /\ Append(q, c)[Len(q) + 1] = c
    BY <1>1, AppendProperties
  <1>3. c # InProgress
    BY NoneIsNoCall
  <1>4. DOMAIN q = 1 .. Len(q) /\ DOMAIN Append(q, c) = 1 .. Len(q) + 1
    BY <1>1, <1>2, LenProperties
  <1>5. ASSUME NEW i \in DOMAIN Append(q, c)
        PROVE  Append(q, c)[i] = InProgress <=> i = 1
    <2>1. CASE i \in 1 .. Len(q)
      BY <1>2, <1>4, <2>1 DEF SentinelAtHead
    <2>2. CASE i = Len(q) + 1
      BY <1>1, <1>2, <1>3, <2>2
    <2> QED
      BY <1>1, <1>4, <2>1, <2>2
  <1> QED
    BY <1>2, <1>5 DEF SentinelAtHead, Pushed

\* What is behind the sentinel.
LEMMA BehindSentinel ==
  ASSUME NEW q, SentinelAtHead(q), q # <<>>
  PROVE  Functions(q) = Tail(q) /\ Tail(q) \in Seq(QueuedCalls)
  <1>1. /\ q \in Seq(QueuedCalls \cup {InProgress}) /\ Len(q) \in Nat /\ Len(q) # 0
        /\ Head(q) = InProgress
    BY SentinelIsHead DEF SentinelAtHead
  <1>2. /\ Tail(q) \in Seq(QueuedCalls \cup {InProgress})
        /\ Len(Tail(q)) = Len(q) - 1
        /\ \A i \in 1 .. Len(Tail(q)) : Tail(q)[i] = q[i + 1]
    BY <1>1, HeadTailProperties
  <1>3. DOMAIN q = 1 .. Len(q)
    BY <1>1, LenProperties
  <1>4. ASSUME NEW i \in 1 .. Len(Tail(q))
        PROVE  Tail(q)[i] \in QueuedCalls
    <2>1. i + 1 \in DOMAIN q /\ i + 1 # 1
      BY <1>1, <1>2, <1>3
    <2>2. q[i + 1] # InProgress
      BY <2>1 DEF SentinelAtHead
    <2>3. q[i + 1] \in QueuedCalls \cup {InProgress}
      BY <1>1, <1>3, <2>1, ElementOfSeq
    <2> QED
      BY <1>2, <2>2, <2>3
  <1>5. Tail(q) \in Seq(QueuedCalls)
    BY <1>2, <1>4, SequenceOf
  <1> QED
    BY <1>1, <1>5 DEF Functions

LEMMA SentinelBefore ==
  ASSUME NEW r \in Seq(QueuedCalls)
  PROVE  SentinelAtHead(<<InProgress>> \o r) /\ <<InProgress>> \o r # <<>>
  <1> DEFINE S == QueuedCalls \cup {InProgress}
             q == <<InProgress>> \o r
  <1>1. <<InProgress>> \in Seq(S) /\ Len(<<InProgress>>) = 1
    OBVIOUS
  <1>2. Len(r) \in Nat /\ r \in Seq(S)
    <2>1. \A i \in 1 .. Len(r) : r[i] \in S
      BY ElementOfSeq
    <2> QED
      BY <2>1, SequenceOf, LenProperties
  <1>3. /\ q \in Seq(S) /\ Len(q) = 1 + Len(r)
        /\ \A i \in 1 .. 1 + Len(r) :
             q[i] = IF i <= 1 THEN <<InProgress>>[i] ELSE r[i - 1]
    BY <1>1, <1>2, ConcatProperties
  <1>4. DOMAIN q = 1 .. 1 + Len(r)
    BY <1>3, LenProperties
  <1>5. q # <<>>
    BY <1>2, <1>3
  <1> HIDE DEF q
  <1>6. ASSUME NEW i \in 1 .. 1 + Len(r)
        PROVE  q[i] = InProgress <=> i = 1
    <2>1. CASE i = 1
      BY <1>2, <1>3, <2>1
    <2>2. CASE i # 1
      <3>1. i - 1 \in 1 .. Len(r)
        BY <1>2, <2>2
      <3>2. q[i] = r[i - 1]
        BY <1>2, <1>3, <2>2
      <3>3. r[i - 1] \in QueuedCalls
        BY <3>1, ElementOfSeq
      <3> QED
        BY <2>2, <3>2, <3>3, NoneIsNoCall
    <2> QED
      BY <2>1, <2>2
  <1>7. SentinelAtHead(q)
    BY <1>3, <1>4, <1>6 DEF SentinelAtHead
  <1> QED
    BY <1>5, <1>7 DEF q

\* dequeue shifts a call, and then the sentinel is at the head; or there is
\* nothing to shift and the queue is empty.
LEMMA DequeueShifts ==
  ASSUME NEW r \in Seq(QueuedCalls), r # <<>>
  PROVE  /\ Head(r) \in QueuedCalls
         /\ SentinelAtHead(<<InProgress>> \o Tail(r)) /\ <<InProgress>> \o Tail(r) # <<>>
  <1>1. Head(r) \in QueuedCalls /\ Tail(r) \in Seq(QueuedCalls)
    BY HeadTailProperties
  <1> QED
    BY <1>1, SentinelBefore

LEMMA EmptyQueue == SentinelAtHead(<<>>)
  BY DEF SentinelAtHead

-----------------------------------------------------------------------------
(* Types                                                                   *)

LEMMA DequeueType ==
  ASSUME Places, SentinelAtHead(ajaxQueue), ajaxQueue # <<>>, Dequeue(ajaxQueue)
  PROVE  /\ SentinelAtHead(ajaxQueue)'
         /\ \/ ajaxQueue' = <<>> /\ UNCHANGED <<completed, server>>
            \/ \E c \in QueuedCalls : Ajax(c) /\ ajaxQueue' # <<>>
  <1> DEFINE r == Functions(ajaxQueue)
  <1>1. r \in Seq(QueuedCalls)
    BY BehindSentinel
  <1>2. ajaxQueue' = Dequeued(ajaxQueue)
    BY DEF Dequeue
  <1>3. CASE r = <<>>
    BY <1>2, <1>3, EmptyQueue DEF Dequeue, Dequeued
  <1>4. CASE r # <<>>
    <2>1. /\ Head(r) \in QueuedCalls /\ SentinelAtHead(<<InProgress>> \o Tail(r))
          /\ <<InProgress>> \o Tail(r) # <<>>
      BY <1>1, <1>4, DequeueShifts
    <2>2. ajaxQueue' = <<InProgress>> \o Tail(r)
      BY <1>2, <1>4 DEF Dequeued
    <2>3. Ajax(Head(r))
      BY <1>4 DEF Dequeue
    <2>4. SentinelAtHead(ajaxQueue')
      BY <2>1, <2>2
    <2> QED
      BY <2>1, <2>2, <2>3, <2>4 DEF SentinelAtHead
  <1> QED
    BY <1>3, <1>4

\* The first call of an idle queue is sent at once.
LEMMA FirstIsSent ==
  ASSUME NEW c \in QueuedCalls, Dequeue(Pushed(<<>>, c))
  PROVE  Ajax(c) /\ ajaxQueue' = <<InProgress>>
  <1>1. Pushed(<<>>, c) = <<c>> /\ c # InProgress
    BY NoneIsNoCall DEF Pushed
  <1>2. Functions(<<c>>) = <<c>> /\ Head(<<c>>) = c /\ Tail(<<c>>) = <<>>
    BY <1>1 DEF Functions
  <1>3. <<c>> # <<>> /\ <<InProgress>> \o <<>> = <<InProgress>>
    OBVIOUS
  <1> QED
    BY <1>1, <1>2, <1>3 DEF Dequeue, Dequeued

LEMMA QueueCase ==
  ASSUME SentinelAtHead(ajaxQueue)
  PROVE  (ajaxQueue # <<>> /\ Head(ajaxQueue) = InProgress) <=> ajaxQueue # <<>>
  BY SentinelIsHead

LEMMA AjaxType ==
  ASSUME Places, NEW c \in Calls, Ajax(c)
  PROVE  /\ completed' \in [Calls -> {"unsent", "no", "yes"}]
         /\ server' \in [Calls -> ServerStates]
  BY DEF Places, Ajax, ServerStates

LEMMA DoneType ==
  ASSUME Places, NEW c \in Calls, Done(c)
  PROVE  /\ completed' \in [Calls -> {"unsent", "no", "yes"}]
         /\ timers' \subseteq QueuedCalls
  BY DEF Places, Done

LEMMA TellType ==
  ASSUME Places, NEW c \in Calls, NEW id \in Ids, Tell(c, id)
  PROVE  /\ called' \in [RemaCalls -> Seq(RemaCalls)]
         /\ requestCallbacks' \in [Ids -> RemaCalls \cup {NoCall}]
  <1>1. CASE c \in RemaCalls /\ requestCallbacks[id] # NoCall
    <2>1. requestCallbacks[id] \in RemaCalls
      BY <1>1 DEF Places
    <2>2. Append(called[requestCallbacks[id]], c) \in Seq(RemaCalls)
      BY <1>1, <2>1, AppendProperties DEF Places
    <2>3. called' = [called EXCEPT ![requestCallbacks[id]] = Append(@, c)]
      BY <1>1 DEF Tell, CallBack
    <2>4. \/ requestCallbacks' = [requestCallbacks EXCEPT ![id] = NoCall]
          \/ requestCallbacks' = requestCallbacks
      BY <1>1 DEF Tell, CallBack
    <2> QED
      BY <2>1, <2>2, <2>3, <2>4 DEF Places
  <1>2. CASE ~(c \in RemaCalls /\ requestCallbacks[id] # NoCall)
    BY <1>2 DEF Tell, CallBack, Places
  <1> QED
    BY <1>1, <1>2

LEMMA PagesType ==
  ASSUME TypeOK, Page
  PROVE  TypeOK'
  <1>1. Places /\ SentinelAtHead(ajaxQueue)
    BY TypeParts
  <1>2. Calls = RemaCalls \cup QueuedCalls /\ 0 \in Ids /\ Ids \subseteq Nat
    BY MaxClockNat DEF Calls, Ids
  <1>3. ASSUME UNCHANGED ajaxQueue
        PROVE  SentinelAtHead(ajaxQueue)'
    BY <1>1, <1>3 DEF SentinelAtHead
  <1>4. CASE Tick
    <2>1. clock' \in Ids
      BY <1>1, <1>4, MaxClockNat DEF Tick, Places, Ids
    <2> QED
      BY <1>1, <1>3, <1>4, <2>1, TypeParts DEF Tick, Places, history
  <1>5. ASSUME NEW c \in RemaCalls, AjaxREMA(c)
        PROVE  TypeOK'
    <2>1. /\ completed' \in [Calls -> {"unsent", "no", "yes"}]
          /\ server' \in [Calls -> ServerStates]
      BY <1>1, <1>2, <1>5, AjaxType DEF AjaxREMA
    <2>2. /\ request_id' \in [RemaCalls -> Ids]
          /\ requestCallbacks' \in [Ids -> RemaCalls \cup {NoCall}]
      BY <1>1, <1>5 DEF AjaxREMA, Register, Places
    <2> QED
      BY <1>1, <1>3, <1>5, <2>1, <2>2, TypeParts DEF AjaxREMA, Places, history
  <1>6. ASSUME NEW c \in QueuedCalls, AjaxQueue(c)
        PROVE  TypeOK'
    <2>1. order' \in Seq(QueuedCalls)
      BY <1>1, <1>6, AppendProperties DEF AjaxQueue, Places
    <2>2. /\ SentinelAtHead(ajaxQueue)'
          /\ completed' \in [Calls -> {"unsent", "no", "yes"}]
          /\ server' \in [Calls -> ServerStates]
      <3>1. CASE ajaxQueue # <<>>
        <4>1. ajaxQueue' = Pushed(ajaxQueue, c) /\ UNCHANGED <<completed, server>>
          BY <1>1, <1>6, <3>1, QueueCase DEF AjaxQueue
        <4>2. SentinelAtHead(ajaxQueue')
          BY <1>1, <3>1, <4>1, PushedKeepsSentinel
        <4> QED
          BY <1>1, <4>1, <4>2 DEF Places, SentinelAtHead
      <3>2. CASE ajaxQueue = <<>>
        <4>1. Ajax(c) /\ ajaxQueue' = <<InProgress>>
          BY <1>6, <3>2, FirstIsSent DEF AjaxQueue
        <4>2. SentinelAtHead(<<InProgress>> \o <<>>)
          BY SentinelBefore, EmptySeq
        <4>3. <<InProgress>> \o <<>> = <<InProgress>>
          OBVIOUS
        <4>4. SentinelAtHead(ajaxQueue')
          BY <4>1, <4>2, <4>3
        <4> QED
          BY <1>1, <1>2, <4>1, <4>4, AjaxType DEF SentinelAtHead
      <3> QED
        BY <3>1, <3>2
    <2> QED
      BY <1>1, <1>6, <2>1, <2>2, TypeParts DEF AjaxQueue, Places
  <1>7. ASSUME NEW c \in QueuedCalls, CallNext(c), ajaxQueue # <<>>
        PROVE  TypeOK'
    <2>1. /\ SentinelAtHead(ajaxQueue)'
          /\ \/ UNCHANGED <<completed, server>>
             \/ \E d \in QueuedCalls : Ajax(d)
      BY <1>1, <1>7, DequeueType DEF CallNext
    <2>2. /\ completed' \in [Calls -> {"unsent", "no", "yes"}]
          /\ server' \in [Calls -> ServerStates]
      BY <1>1, <1>2, <2>1, AjaxType DEF Places
    <2> QED
      BY <1>1, <1>7, <2>1, <2>2, TypeParts DEF CallNext, Places, history
  <1>8. ASSUME NEW c \in QueuedCalls, CallNext(c), ajaxQueue = <<>>
        PROVE  TypeOK'
    <2>1. ajaxQueue' = <<>> /\ UNCHANGED <<completed, server>>
      BY <1>8 DEF CallNext, Dequeue, Dequeued, Functions
    <2> QED
      BY <1>1, <1>8, <2>1, TypeParts, EmptyQueue
      DEF CallNext, Places, history, SentinelAtHead
  <1>9. ASSUME NEW c \in Calls, Load(c)
        PROVE  TypeOK'
    <2>1. \A id \in answer[c] : id \in Ids
      BY <1>1 DEF Places
    <2>2. /\ called' \in [RemaCalls -> Seq(RemaCalls)]
          /\ requestCallbacks' \in [Ids -> RemaCalls \cup {NoCall}]
      BY <1>1, <1>9, <2>1, TellType DEF Load
    <2>3. answer' \in [Calls -> {{}} \cup {{id} : id \in Ids}]
      BY <1>1, <1>9 DEF Load, Places
    <2> QED
      BY <1>1, <1>3, <1>9, <2>2, <2>3, DoneType, TypeParts DEF Load, Places
  <1>10. ASSUME NEW c \in Calls, Fails(c)
         PROVE  TypeOK'
    <2>1. (IF c \in RemaCalls THEN request_id[c] ELSE 0) \in Ids
      BY <1>1, <1>2 DEF Places
    <2>2. /\ called' \in [RemaCalls -> Seq(RemaCalls)]
          /\ requestCallbacks' \in [Ids -> RemaCalls \cup {NoCall}]
      BY <1>1, <1>10, <2>1, TellType DEF Fails
    <2> QED
      BY <1>1, <1>3, <1>10, <2>2, DoneType, TypeParts DEF Fails, Places
  <1>11. ASSUME NEW c \in Calls, Timeout(c)
         PROVE  TypeOK'
    <2>1. answer' \in [Calls -> {{}} \cup {{id} : id \in Ids}]
      BY <1>1, <1>11 DEF Timeout, Places
    <2> QED
      BY <1>1, <1>3, <1>11, <2>1, DoneType, TypeParts DEF Timeout, Places, history
  <1> QED
    BY <1>4, <1>5, <1>6, <1>7, <1>8, <1>9, <1>10, <1>11 DEF Page

LEMMA ServersType ==
  ASSUME TypeOK, Server
  PROVE  TypeOK'
  <1>1. Places /\ SentinelAtHead(ajaxQueue) /\ 0 \in Ids
    BY TypeParts, MaxClockNat DEF Ids
  <1>2. PICK c \in Calls : ServeREMA(c) \/ ServeREST(c)
    BY DEF Server
  <1>3. PICK ids \in {{}} \cup {{id} : id \in Ids} : Answered(c, ids)
    BY <1>1, <1>2 DEF ServeREMA, ServeREST, Places
  <1>4. /\ server' \in [Calls -> ServerStates]
        /\ answer' \in [Calls -> {{}} \cup {{id} : id \in Ids}]
    BY <1>1, <1>3 DEF Answered, Places, ServerStates
  <1>5. lateIds' \subseteq Ids
    BY <1>1, <1>2 DEF ServeREMA, ServeREST, Places
  <1>6. UNCHANGED <<pageVars, called, order>>
    BY <1>3 DEF Answered
  <1>7. Places'
    BY <1>1, <1>4, <1>5, <1>6 DEF Places, pageVars
  <1>8. SentinelAtHead(ajaxQueue)'
    BY <1>1, <1>6 DEF SentinelAtHead, pageVars
  <1> QED
    BY <1>7, <1>8, TypeParts

LEMMA TypeKept ==
  ASSUME TypeOK, [Next]_vars
  PROVE  TypeOK'
  <1>1. CASE UNCHANGED vars
    BY <1>1 DEF vars, pageVars, history, TypeOK
  <1> QED
    BY <1>1, PagesType, ServersType DEF Next

-----------------------------------------------------------------------------
(* One request of the queue at a time                                      *)

\* Where only calls of $.ajaxREMA are touched.
LEMMA QueueUntouched ==
  ASSUME TypeOK, QueueInv, UNCHANGED <<ajaxQueue, timers>>,
         \A c \in QueuedCalls : completed'[c] = completed[c] /\ server'[c] = server[c]
  PROVE  QueueInv'
  BY DEF TypeOK, QueueInv, UnderWay

LEMMA SentAlone ==
  ASSUME TypeOK, NEW c \in QueuedCalls, Ajax(c), ajaxQueue' # <<>>,
         \A d \in QueuedCalls : completed[d] # "no", timers' = {},
         \A d \in QueuedCalls : server[d] = "serving" => completed[d] # "unsent"
  PROVE  QueueInv'
  <1>1. \A d \in QueuedCalls : UnderWay(d)' <=> d = c
    BY DEF TypeOK, Ajax, UnderWay, Calls
  <1>2. \A d \in QueuedCalls : server'[d] = "serving" => completed'[d] # "unsent"
    BY DEF TypeOK, Ajax, Calls
  <1> QED
    BY <1>1, <1>2 DEF QueueInv

LEMMA DoneKeepsQueue ==
  ASSUME TypeOK, QueueInv, NEW c \in Calls, Done(c), UNCHANGED <<ajaxQueue, server>>
  PROVE  QueueInv'
  <1>1. CASE c \in QueuedCalls
    <2>1. completed' = [completed EXCEPT ![c] = "yes"] /\ completed[c] = "no"
      BY DEF Done
    <2>2. timers' = timers \cup {c} /\ UnderWay(c)
      BY <1>1, <2>1 DEF Done, UnderWay
    <2>3. \A d \in QueuedCalls : UnderWay(d)' <=> UnderWay(d)
      BY <1>1, <2>1, <2>2 DEF UnderWay, TypeOK, Calls
    <2>4. \A d \in timers' : completed'[d] = "yes"
      BY <1>1, <2>1, <2>2 DEF QueueInv, TypeOK, Calls
    <2>5. \A d \in QueuedCalls : server'[d] = "serving" => completed'[d] # "unsent"
      BY <1>1, <2>1 DEF QueueInv, TypeOK, Calls
    <2> QED
      BY <2>3, <2>4, <2>5 DEF QueueInv
  <1>2. CASE c \notin QueuedCalls
    <2>1. \A d \in QueuedCalls : completed'[d] = completed[d]
      BY <1>2 DEF Done, TypeOK, Calls
    <2>2. timers' = timers
      BY <1>2 DEF Done
    <2> QED
      BY <2>1, <2>2, QueueUntouched
  <1> QED
    BY <1>1, <1>2

LEMMA QueueKept ==
  ASSUME TypeOK, QueueInv, [Next]_vars
  PROVE  QueueInv'
  <1>1. Places /\ SentinelAtHead(ajaxQueue)
    BY TypeParts
  <1>2. CASE UNCHANGED vars
    BY <1>2 DEF vars, pageVars, QueueInv, UnderWay
  <1>3. CASE Tick
    BY <1>3 DEF Tick, QueueInv, UnderWay
  <1>4. ASSUME NEW c \in RemaCalls, AjaxREMA(c)
        PROVE  QueueInv'
    <2>1. c \notin QueuedCalls
      BY CallsApart
    <2>2. \A d \in QueuedCalls : completed'[d] = completed[d] /\ server'[d] = server[d]
      BY <1>4, <2>1 DEF AjaxREMA, Ajax, TypeOK, Calls
    <2> QED
      BY <1>4, <2>2, QueueUntouched DEF AjaxREMA
  <1>5. ASSUME NEW c \in QueuedCalls, AjaxQueue(c)
        PROVE  QueueInv'
    <2>1. timers' = timers
      BY <1>5 DEF AjaxQueue
    <2>2. CASE ajaxQueue # <<>>
      <3>1. ajaxQueue' = Pushed(ajaxQueue, c) /\ UNCHANGED <<completed, server>>
        BY <1>1, <1>5, <2>2, QueueCase DEF AjaxQueue
      <3>2. ajaxQueue' # <<>>
        BY <1>1, <2>2, <3>1, PushedKeepsSentinel
      <3> QED
        BY <2>1, <2>2, <3>1, <3>2 DEF QueueInv, UnderWay
    <2>3. CASE ajaxQueue = <<>>
      <3>1. Ajax(c) /\ ajaxQueue' # <<>>
        BY <1>5, <2>3, FirstIsSent DEF AjaxQueue
      <3>2. \A d \in QueuedCalls : completed[d] # "no" /\ d \notin timers
        BY <2>3 DEF QueueInv, UnderWay
      <3>3. timers' = {}
        BY <1>1, <2>1, <3>2 DEF Places
      <3> QED
        BY <3>1, <3>2, <3>3, SentAlone DEF QueueInv
    <2> QED
      BY <2>2, <2>3
  <1>6. ASSUME NEW c \in QueuedCalls, CallNext(c)
        PROVE  QueueInv'
    <2>1. c \in timers /\ UnderWay(c) /\ completed[c] = "yes" /\ ajaxQueue # <<>>
      BY <1>6 DEF CallNext, UnderWay, QueueInv
    <2>2. \A d \in QueuedCalls : completed[d] # "no" /\ (d \in timers => d = c)
      BY <2>1 DEF QueueInv, UnderWay
    <2>3. timers' = {}
      BY <1>1, <1>6, <2>2 DEF CallNext, Places
    <2>4. \/ ajaxQueue' = <<>> /\ UNCHANGED <<completed, server>>
          \/ \E d \in QueuedCalls : Ajax(d) /\ ajaxQueue' # <<>>
      BY <1>1, <1>6, <2>1, DequeueType DEF CallNext
    <2>5. CASE ajaxQueue' = <<>> /\ UNCHANGED <<completed, server>>
      BY <2>2, <2>3, <2>5 DEF QueueInv, UnderWay
    <2>6. CASE \E d \in QueuedCalls : Ajax(d) /\ ajaxQueue' # <<>>
      BY <2>2, <2>3, <2>6, SentAlone DEF QueueInv
    <2> QED
      BY <2>4, <2>5, <2>6
  <1>7. ASSUME NEW c \in Calls, Load(c) \/ Fails(c) \/ Timeout(c)
        PROVE  QueueInv'
    BY <1>7, DoneKeepsQueue DEF Load, Fails, Timeout
  <1>8. CASE Server
    <2>1. PICK c \in Calls : ServeREMA(c) \/ ServeREST(c)
      BY <1>8 DEF Server
    <2>2. UNCHANGED <<ajaxQueue, completed, timers>>
      BY <2>1 DEF ServeREMA, ServeREST, Answered, pageVars
    <2>3. \A d \in QueuedCalls : server'[d] = "serving" => server[d] = "serving"
      BY <1>1, <2>1 DEF ServeREMA, ServeREST, Answered, Places, Calls
    <2> QED
      BY <2>2, <2>3 DEF QueueInv, UnderWay
  <1> QED
    BY <1>2, <1>3, <1>4, <1>5, <1>6, <1>7, <1>8 DEF Next, Page

-----------------------------------------------------------------------------
(* Callbacks                                                               *)

\* Who is told is the call under the id, if there is one; its callbacks stay
\* or are forgotten.
LEMMA WhoIsTold ==
  ASSUME Places, NEW c \in Calls, NEW id \in Ids, Tell(c, id)
  PROVE  /\ \A i \in Ids : requestCallbacks'[i] = requestCallbacks[i]
                           \/ requestCallbacks'[i] = NoCall
         /\ \A d \in RemaCalls :
              \/ called'[d] = called[d]
              \/ /\ c \in RemaCalls /\ requestCallbacks[id] = d
                 /\ called'[d] = Append(called[d], c)
  <1>1. CASE c \in RemaCalls /\ requestCallbacks[id] # NoCall
    BY <1>1 DEF Tell, CallBack, Places
  <1>2. CASE ~(c \in RemaCalls /\ requestCallbacks[id] # NoCall)
    BY <1>2 DEF Tell, CallBack
  <1> QED
    BY <1>1, <1>2

\* What is told for a call that is done.
LEMMA TellKeeps ==
  ASSUME TypeOK, CallbackInv, ToldOnce, NEW c \in Calls, Done(c),
         NEW id \in Ids, Tell(c, id),
         c \in RemaCalls => id = request_id[c] \/ id \in lateIds,
         UNCHANGED <<clock, request_id, server, lateIds>>,
         \A d \in Calls : answer'[d] \subseteq answer[d]
  PROVE  CallbackInv' /\ ToldOnce'
  <1>1. Places
    BY TypeParts
  <1>2. completed[c] = "no" /\ completed' = [completed EXCEPT ![c] = "yes"]
    BY DEF Done
  <1>3. \A d \in Calls : /\ completed'[d] = "unsent" <=> completed[d] = "unsent"
                         /\ completed[d] = "yes" => completed'[d] = "yes"
    BY <1>1, <1>2 DEF Places
  <1>4. completed'[c] = "yes" /\ RemaCalls \subseteq Calls
    BY <1>1, <1>2 DEF Places, Calls
  <1>5. /\ \A i \in Ids : requestCallbacks'[i] = requestCallbacks[i]
                          \/ requestCallbacks'[i] = NoCall
        /\ \A d \in RemaCalls :
             \/ called'[d] = called[d]
             \/ /\ c \in RemaCalls /\ requestCallbacks[id] = d
                /\ called'[d] = Append(called[d], c)
    BY <1>1, WhoIsTold
  <1>6. CallbackInv'
    <2>1. \A i \in Ids : \A d \in RemaCalls :
            requestCallbacks'[i] = d => request_id[d] = i /\ completed'[d] # "unsent"
      BY <1>3, <1>4, <1>5, NoneIsNoCall DEF CallbackInv
    <2>2. \A d \in RemaCalls : completed'[d] = "unsent" => called'[d] = <<>>
      BY <1>3, <1>4, <1>5 DEF CallbackInv
    <2>3. \A d \in RemaCalls : completed'[d] = "unsent"
            => request_id'[d] = 0 /\ server'[d] = "none" /\ answer'[d] = {}
      BY <1>3, <1>4 DEF CallbackInv
    <2>4. \A d \in RemaCalls : \A i \in answer'[d] : i = request_id'[d] \/ i \in lateIds'
      BY <1>4 DEF CallbackInv
    <2>5. \A d \in RemaCalls : completed'[d] # "unsent" => request_id'[d] # 0
      BY <1>3, <1>4 DEF CallbackInv
    <2>6. clock' # 0
      BY DEF CallbackInv
    <2>7. \A i \in Ids : \A d \in RemaCalls :
            requestCallbacks'[i] = d => request_id'[d] = i /\ completed'[d] # "unsent"
      BY <2>1
    <2> QED
      BY <2>2, <2>3, <2>4, <2>5, <2>6, <2>7 DEF CallbackInv, Ids
  <1>7. ASSUME NEW d \in RemaCalls, Alone(d)'
        PROVE  \/ called'[d] = <<>>
               \/ called'[d] = <<d>> /\ completed'[d] = "yes"
    <2>1. Alone(d)
      BY <1>7 DEF Alone
    <2>2. CASE called'[d] = called[d]
      BY <1>3, <1>4, <2>1, <2>2 DEF ToldOnce
    <2>3. CASE /\ c \in RemaCalls /\ requestCallbacks[id] = d
               /\ called'[d] = Append(called[d], c)
      <3>1. request_id[d] = id
        BY <2>3 DEF CallbackInv
      <3>2. request_id[c] = id
        BY <2>1, <2>3, <3>1 DEF Alone
      <3>3. c = d
        BY <2>1, <2>3, <3>1, <3>2 DEF Alone
      <3>4. called[d] = <<>>
        BY <1>2, <2>1, <3>3 DEF ToldOnce
      <3>5. Append(<<>>, c) = <<c>>
        OBVIOUS
      <3> QED
        BY <1>4, <2>3, <3>3, <3>4, <3>5
    <2> QED
      BY <1>5, <2>2, <2>3
  <1>8. ToldOnce'
    BY <1>7 DEF ToldOnce
  <1> QED
    BY <1>6, <1>8

\* Steps of the queue.
LEMMA CallbacksUntouched ==
  ASSUME CallbackInv, ToldOnce,
         UNCHANGED <<clock, request_id, requestCallbacks, answer, called, lateIds>>,
         \A d \in RemaCalls : completed'[d] = completed[d] /\ server'[d] = server[d]
  PROVE  CallbackInv' /\ ToldOnce'
  <1>1. CallbackInv'
    BY DEF CallbackInv, Ids
  <1>2. ToldOnce'
    BY DEF ToldOnce, Alone
  <1> QED
    BY <1>1, <1>2

LEMMA AjaxOfQueued ==
  ASSUME Places, NEW c \in QueuedCalls, Ajax(c)
  PROVE  \A d \in RemaCalls : completed'[d] = completed[d] /\ server'[d] = server[d]
  BY CallsApart DEF Places, Ajax, Calls

LEMMA AjaxREMAKeeps ==
  ASSUME TypeOK, CallbackInv, ToldOnce, NEW c \in RemaCalls, AjaxREMA(c)
  PROVE  CallbackInv' /\ ToldOnce'
  <1>1. Places /\ c \in Calls /\ RemaCalls \subseteq Calls
    BY TypeParts DEF Calls
  <1>2. /\ completed[c] = "unsent" /\ called[c] = <<>> /\ answer[c] = {}
        /\ request_id[c] = 0
    BY DEF AjaxREMA, CallbackInv
  <1>3. /\ request_id' = [request_id EXCEPT ![c] = clock]
        /\ requestCallbacks' = [requestCallbacks EXCEPT ![clock] = c]
        /\ completed' = [completed EXCEPT ![c] = "no"]
        /\ server' = [server EXCEPT ![c] = "serving"]
        /\ UNCHANGED <<clock, answer, called, lateIds>>
    BY DEF AjaxREMA, Register, Ajax, history
  <1>4. /\ request_id'[c] = clock /\ completed'[c] = "no"
        /\ \A d \in RemaCalls \ {c} : /\ request_id'[d] = request_id[d]
                                      /\ completed'[d] = completed[d]
                                      /\ server'[d] = server[d]
    BY <1>1, <1>3 DEF Places
  <1>5. CallbackInv'
    <2>1. \A i \in Ids : \A d \in RemaCalls :
            requestCallbacks'[i] = d => request_id'[d] = i /\ completed'[d] # "unsent"
      <3> SUFFICES ASSUME NEW i \in Ids, NEW d \in RemaCalls, requestCallbacks'[i] = d
                   PROVE  request_id'[d] = i /\ completed'[d] # "unsent"
        BY Zenon
      <3>1. CASE i = clock
        BY <1>1, <1>3, <1>4, <3>1 DEF Places
      <3>2. CASE i # clock
        <4>1. requestCallbacks[i] = d
          BY <1>1, <1>3, <3>2 DEF Places
        <4>2. request_id[d] = i /\ completed[d] # "unsent"
          BY <4>1 DEF CallbackInv
        <4> QED
          BY <1>2, <1>4, <4>2
      <3> QED
        BY <3>1, <3>2
    <2>2. \A d \in RemaCalls : completed'[d] = "unsent"
            => /\ request_id'[d] = 0 /\ called'[d] = <<>>
               /\ server'[d] = "none" /\ answer'[d] = {}
      BY <1>3, <1>4 DEF CallbackInv
    <2>3. \A d \in RemaCalls : completed'[d] # "unsent" => request_id'[d] # 0
      BY <1>4 DEF CallbackInv
    <2>4. \A d \in RemaCalls : \A id \in answer'[d] : id = request_id'[d] \/ id \in lateIds'
      BY <1>2, <1>3, <1>4 DEF CallbackInv
    <2>5. clock' # 0
      BY <1>3 DEF CallbackInv
    <2> QED
      BY <2>1, <2>2, <2>3, <2>4, <2>5 DEF CallbackInv, Ids
  <1>6. ASSUME NEW d \in RemaCalls, Alone(d)'
        PROVE  \/ called'[d] = <<>>
               \/ called'[d] = <<d>> /\ completed'[d] = "yes"
    <2>1. CASE completed[d] = "unsent"
      BY <1>3, <2>1 DEF CallbackInv
    <2>2. CASE completed[d] # "unsent"
      <3>1. d # c /\ request_id[d] # 0
        BY <1>2, <2>2 DEF CallbackInv
      <3>2. request_id'[d] = request_id[d] /\ completed'[d] = completed[d]
        BY <1>4, <3>1
      <3>3. \A e \in RemaCalls \ {d} : request_id[e] # request_id[d]
        BY <1>2, <1>4, <1>6, <3>1, <3>2 DEF Alone
      <3>4. Alone(d)
        BY <1>3, <1>6, <3>2, <3>3 DEF Alone
      <3> QED
        BY <1>3, <3>2, <3>4 DEF ToldOnce
    <2> QED
      BY <2>1, <2>2
  <1> QED
    BY <1>5, <1>6 DEF ToldOnce

LEMMA ServersKeep ==
  ASSUME TypeOK, CallbackInv, ToldOnce, Server
  PROVE  CallbackInv' /\ ToldOnce'
  <1>1. Places /\ RemaCalls \subseteq Calls
    BY TypeParts DEF Calls
  <1>2. PICK c \in Calls : ServeREMA(c) \/ ServeREST(c)
    BY DEF Server
  <1>3. /\ UNCHANGED <<clock, request_id, requestCallbacks, completed, called>>
        /\ server[c] = "serving" /\ server' = [server EXCEPT ![c] = "over"]
    BY <1>2 DEF ServeREMA, ServeREST, Answered, pageVars
  <1>4. lateIds \subseteq lateIds'
    BY <1>2 DEF ServeREMA, ServeREST
  <1>5. \A d \in Calls \ {c} : answer'[d] = answer[d] /\ server'[d] = server[d]
    BY <1>1, <1>2 DEF ServeREMA, ServeREST, Answered, Places
  <1>6. ASSUME c \in RemaCalls
        PROVE  \A id \in answer'[c] : id = request_id[c] \/ id \in lateIds'
    <2>1. ServeREMA(c)
      BY <1>2, <1>6, CallsApart DEF ServeREST
    <2>2. CASE Answered(c, {request_id[c]}) \/ Answered(c, {})
      BY <1>1, <2>2 DEF Answered, Places
    <2>3. CASE \E id \in Ids : /\ Answered(c, {id})
                               /\ lateIds' = IF answer' # answer
                                             THEN lateIds \cup {id} ELSE lateIds
      <3>1. PICK id \in Ids : /\ Answered(c, {id})
                              /\ lateIds' = IF answer' # answer
                                            THEN lateIds \cup {id} ELSE lateIds
        BY <2>3
      <3>2. CASE answer' = answer
        BY <1>6, <3>2, <1>4 DEF CallbackInv
      <3>3. CASE answer' # answer
        BY <1>1, <3>1, <3>3 DEF Answered, Places
      <3> QED
        BY <3>2, <3>3
    <2> QED
      BY <2>1, <2>2, <2>3 DEF ServeREMA
  <1>7. CallbackInv'
    <2>1. \A d \in RemaCalls : completed'[d] = "unsent"
            => /\ request_id'[d] = 0 /\ called'[d] = <<>>
               /\ server'[d] = "none" /\ answer'[d] = {}
      BY <1>1, <1>3, <1>5 DEF CallbackInv
    <2>2. \A d \in RemaCalls : \A id \in answer'[d] : id = request_id'[d] \/ id \in lateIds'
      BY <1>1, <1>3, <1>4, <1>5, <1>6 DEF CallbackInv
    <2>3. /\ clock' # 0
          /\ \A i \in Ids : \A d \in RemaCalls :
               requestCallbacks'[i] = d => request_id'[d] = i /\ completed'[d] # "unsent"
          /\ \A d \in RemaCalls : completed'[d] # "unsent" => request_id'[d] # 0
      BY <1>3 DEF CallbackInv
    <2> QED
      BY <2>1, <2>2, <2>3 DEF CallbackInv, Ids
  <1>8. ASSUME NEW d \in RemaCalls, Alone(d)'
        PROVE  Alone(d)
    BY <1>3, <1>4, <1>8 DEF Alone
  <1>9. ToldOnce'
    BY <1>3, <1>8 DEF ToldOnce
  <1> QED
    BY <1>7, <1>9

LEMMA CallbacksKept ==
  ASSUME TypeOK, CallbackInv, ToldOnce, QueueInv, [Next]_vars
  PROVE  CallbackInv' /\ ToldOnce'
  <1>1. Places /\ SentinelAtHead(ajaxQueue) /\ 0 \in Ids /\ QueuedCalls \subseteq Calls
    BY TypeParts, MaxClockNat DEF Ids, Calls
  <1>2. CASE UNCHANGED vars
    BY <1>2, CallbacksUntouched DEF vars, pageVars, history
  <1>3. CASE Tick
    <2>1. clock' # 0
      BY <1>1, <1>3, MaxClockNat DEF Tick, Places, Ids
    <2>2. UNCHANGED <<request_id, requestCallbacks, completed, server, answer,
                      called, lateIds>>
      BY <1>3 DEF Tick, history
    <2>3. CallbackInv'
      BY <2>1, <2>2 DEF CallbackInv, Ids
    <2>4. ToldOnce'
      BY <2>2 DEF ToldOnce, Alone
    <2> QED
      BY <2>3, <2>4
  <1>4. ASSUME NEW c \in QueuedCalls, AjaxQueue(c)
        PROVE  CallbackInv' /\ ToldOnce'
    <2>1. UNCHANGED <<completed, server>> \/ Ajax(c)
      <3>1. CASE ajaxQueue # <<>>
        BY <1>1, <1>4, <3>1, QueueCase DEF AjaxQueue
      <3>2. CASE ajaxQueue = <<>>
        BY <1>4, <3>2, FirstIsSent DEF AjaxQueue
      <3> QED
        BY <3>1, <3>2
    <2>2. \A d \in RemaCalls : completed'[d] = completed[d] /\ server'[d] = server[d]
      BY <1>1, <2>1, AjaxOfQueued
    <2> QED
      BY <1>4, <2>2, CallbacksUntouched DEF AjaxQueue
  <1>5. ASSUME NEW c \in QueuedCalls, CallNext(c)
        PROVE  CallbackInv' /\ ToldOnce'
    <2>1. ajaxQueue # <<>>
      BY <1>5 DEF CallNext, QueueInv, UnderWay
    <2>2. UNCHANGED <<completed, server>> \/ \E d \in QueuedCalls : Ajax(d)
      BY <1>1, <1>5, <2>1, DequeueType DEF CallNext
    <2>3. \A d \in RemaCalls : completed'[d] = completed[d] /\ server'[d] = server[d]
      BY <1>1, <2>2, AjaxOfQueued
    <2> QED
      BY <1>5, <2>3, CallbacksUntouched DEF CallNext, history
  <1>6. ASSUME NEW c \in Calls, Load(c)
        PROVE  CallbackInv' /\ ToldOnce'
    <2>1. PICK id \in answer[c] : Tell(c, id)
      BY <1>6 DEF Load
    <2>2. id \in Ids
      BY <1>1, <2>1 DEF Places
    <2>3. c \in RemaCalls => id = request_id[c] \/ id \in lateIds
      BY <2>1 DEF CallbackInv
    <2>4. \A d \in Calls : answer'[d] \subseteq answer[d]
      BY <1>1, <1>6 DEF Load, Places
    <2> QED
      BY <1>6, <2>1, <2>2, <2>3, <2>4, TellKeeps DEF Load
  <1>7. ASSUME NEW c \in Calls, Fails(c)
        PROVE  CallbackInv' /\ ToldOnce'
    <2> DEFINE id == IF c \in RemaCalls THEN request_id[c] ELSE 0
    <2>1. id \in Ids /\ Tell(c, id) /\ (c \in RemaCalls => id = request_id[c])
      BY <1>1, <1>7 DEF Fails, Places
    <2>2. \A d \in Calls : answer'[d] \subseteq answer[d]
      BY <1>7 DEF Fails
    <2> HIDE DEF id
    <2> QED
      BY <1>7, <2>1, <2>2, TellKeeps DEF Fails
  <1>8. ASSUME NEW c \in Calls, Timeout(c)
        PROVE  CallbackInv' /\ ToldOnce'
    <2>1. c \in QueuedCalls /\ c \notin RemaCalls
      BY <1>8, CallsApart, TimedAreQueued DEF Timeout
    <2>2. \A d \in RemaCalls : completed'[d] = completed[d] /\ answer'[d] = answer[d]
      BY <1>1, <1>8, <2>1 DEF Timeout, Done, Places, Calls
    <2>3. UNCHANGED <<clock, request_id, requestCallbacks, server, called, lateIds>>
      BY <1>8 DEF Timeout, history
    <2>4. CallbackInv'
      BY <2>2, <2>3 DEF CallbackInv, Ids
    <2>5. ToldOnce'
      BY <2>2, <2>3 DEF ToldOnce, Alone
    <2> QED
      BY <2>4, <2>5
  <1> QED
    BY <1>2, <1>3, <1>4, <1>5, <1>6, <1>7, <1>8, AjaxREMAKeeps, ServersKeep
    DEF Next, Page

-----------------------------------------------------------------------------
LEMMA InitHolds ==
  ASSUME Init
  PROVE  PageInv
  <1>1. /\ clock = 1 /\ 0 \in Ids /\ 1 \in Ids
    BY MaxClockNat DEF Init, Ids
  <1>2. Places
    BY <1>1 DEF Init, Places, ServerStates, Calls
  <1>3. TypeOK
    BY <1>2, TypeParts, EmptyQueue DEF Init
  <1>4. QueueInv
    BY DEF Init, QueueInv, UnderWay, Calls
  <1>5. CallbackInv
    BY <1>1, NoneIsNoCall DEF Init, CallbackInv, Calls
  <1>6. ToldOnce
    BY DEF Init, ToldOnce
  <1> QED
    BY <1>3, <1>4, <1>5, <1>6 DEF PageInv

LEMMA PageInvKept ==
  ASSUME PageInv, [Next]_vars
  PROVE  PageInv'
  BY TypeKept, QueueKept, CallbacksKept DEF PageInv

LEMMA PageInvariant == Spec => []PageInv
  <1>1. Init => PageInv
    BY InitHolds
  <1>2. PageInv /\ [Next]_vars => PageInv'
    BY PageInvKept
  <1> QED
    BY <1>1, <1>2, PTL DEF Spec

\* The variables of a page and of the server have their types, and the
\* sentinel is at the head of a queue that is under way and nowhere else.
THEOREM PagesTypeCorrect == Spec => []TypeOK
  <1>1. PageInv => TypeOK
    BY DEF PageInv
  <1> QED
    BY <1>1, PageInvariant, PTL

\* The callbacks of $.ajaxREMA are called once at most and with the call's own
\* answer, whatever the order of the answers, unless another call has the same
\* id or the answer to a late body carried it.
THEOREM CallbacksBelong == Spec => []CallbacksAreTheirOwn
  <1>1. PageInv => CallbacksAreTheirOwn
    BY DEF PageInv, ToldOnce, Alone, CallbacksAreTheirOwn
  <1> QED
    BY <1>1, PageInvariant, PTL

\* Two requests of the queue are on the server at once only when the page has
\* given one of them up.
THEOREM QueueIsSerial == Spec => []QueueHoldsBack
  <1>1. ASSUME PageInv, NEW c \in QueuedCalls, NEW d \in QueuedCalls,
               server[c] = "serving", server[d] = "serving", c # d
        PROVE  completed[c] = "yes" \/ completed[d] = "yes"
    <2>1. completed[c] # "unsent" /\ completed[d] # "unsent"
      BY <1>1 DEF PageInv, QueueInv
    <2>2. ~(UnderWay(c) /\ UnderWay(d))
      BY <1>1 DEF PageInv, QueueInv
    <2>3. /\ completed[c] \in {"unsent", "no", "yes"}
          /\ completed[d] \in {"unsent", "no", "yes"}
      BY <1>1 DEF PageInv, TypeOK, Calls
    <2> QED
      BY <2>1, <2>2, <2>3 DEF UnderWay
  <1>2. PageInv => QueueHoldsBack
    BY <1>1 DEF QueueHoldsBack
  <1> QED
    BY <1>2, PageInvariant, PTL

-----------------------------------------------------------------------------
(* The queue as SerialQueue sees it                                        *)

\* What waits is what is behind the sentinel, before and after a push, and
\* after a dequeue.
LEMMA PushedWaits ==
  ASSUME NEW q, SentinelAtHead(q), q # <<>>, NEW c \in QueuedCalls
  PROVE  Functions(Pushed(q, c)) = Append(Functions(q), c)
  <1>1. q \in Seq(QueuedCalls \cup {InProgress}) /\ c \in QueuedCalls \cup {InProgress}
    BY DEF SentinelAtHead
  <1>2. Tail(Append(q, c)) = Append(Tail(q), c)
    BY <1>1, HeadTailAppend
  <1>3. Functions(q) = Tail(q)
    BY BehindSentinel
  <1>4. Functions(Append(q, c)) = Tail(Append(q, c))
    BY PushedKeepsSentinel, BehindSentinel DEF Pushed
  <1> QED
    BY <1>2, <1>3, <1>4 DEF Pushed

LEMMA WaitsBehindSentinel ==
  ASSUME NEW r \in Seq(QueuedCalls)
  PROVE  Functions(<<InProgress>> \o r) = r
  <1> DEFINE S == QueuedCalls \cup {InProgress}
             q == <<InProgress>> \o r
  <1>1. <<InProgress>> \in Seq(S) /\ Len(<<InProgress>>) = 1
    OBVIOUS
  <1>2. Len(r) \in Nat /\ r \in Seq(S)
    <2>1. \A i \in 1 .. Len(r) : r[i] \in S
      BY ElementOfSeq
    <2> QED
      BY <2>1, SequenceOf, LenProperties
  <1>3. /\ q \in Seq(S) /\ Len(q) = 1 + Len(r)
        /\ \A i \in 1 .. 1 + Len(r) :
             q[i] = IF i <= 1 THEN <<InProgress>>[i] ELSE r[i - 1]
    BY <1>1, <1>2, ConcatProperties
  <1>4. SentinelAtHead(q) /\ q # <<>>
    BY SentinelBefore
  <1>5. Functions(q) = Tail(q) /\ Tail(q) \in Seq(S)
    BY <1>3, <1>4, BehindSentinel, HeadTailProperties
  <1> HIDE DEF q
  <1>6. Len(Tail(q)) = Len(r) /\ \A i \in 1 .. Len(r) : Tail(q)[i] = r[i]
    <2>1. /\ Len(Tail(q)) = Len(q) - 1
          /\ \A i \in 1 .. Len(Tail(q)) : Tail(q)[i] = q[i + 1]
      BY <1>3, <1>4, HeadTailProperties
    <2>2. Len(Tail(q)) = Len(r)
      BY <1>2, <1>3, <2>1
    <2>3. ASSUME NEW i \in 1 .. Len(r)
          PROVE  Tail(q)[i] = r[i]
      <3>1. i + 1 \in 1 .. 1 + Len(r) /\ ~(i + 1 <= 1) /\ (i + 1) - 1 = i
        BY <1>2
      <3>2. q[i + 1] = r[i]
        BY <1>3, <3>1
      <3> QED
        BY <2>1, <2>2, <3>2
    <2> QED
      BY <2>2, <2>3
  <1>7. Tail(q) = r
    BY <1>2, <1>5, <1>6, SeqEqual
  <1> QED
    BY <1>5, <1>7 DEF q

LEMMA NothingWaits == Functions(<<>>) = <<>> /\ Functions(<<InProgress>>) = <<>>
  <1>1. /\ <<InProgress>> # <<>> /\ Head(<<InProgress>>) = InProgress
        /\ Tail(<<InProgress>>) = <<>>
    OBVIOUS
  <1> QED
    BY <1>1 DEF Functions

\* The one call under way.
LEMMA ActiveOne ==
  ASSUME QueueInv, NEW c \in QueuedCalls, UnderWay(c)
  PROVE  Active = {c}
  BY DEF QueueInv, Active

LEMMA ActiveKept ==
  ASSUME \A c \in QueuedCalls : UnderWay(c)' <=> UnderWay(c)
  PROVE  Active' = Active
  BY DEF Active

LEMMA InitIsSerial == Init => Serial!Init
  BY NothingWaits DEF Init, Serial!Init, Made, Active, UnderWay, Calls

LEMMA MakingIsSerial ==
  ASSUME TypeOK, QueueInv, NEW c \in QueuedCalls, AjaxQueue(c)
  PROVE  Serial!Make(c)
  <1>1. Places /\ SentinelAtHead(ajaxQueue)
    BY TypeParts
  <1>2. c \notin Made /\ Made' = Made \cup {c}
    <2>1. /\ order \in Seq(QueuedCalls) /\ order' = Append(order, c)
          /\ \A i \in DOMAIN order : order[i] # c
      BY <1>1 DEF Places, AjaxQueue
    <2>2. /\ Len(order') = Len(order) + 1 /\ Len(order) \in Nat
          /\ order' \in Seq(QueuedCalls)
          /\ \A i \in 1 .. Len(order) : order'[i] = order[i]
          /\ order'[Len(order) + 1] = c
      BY <2>1, AppendProperties, LenProperties
    <2>3. DOMAIN order = 1 .. Len(order) /\ DOMAIN order' = 1 .. Len(order) + 1
      BY <2>1, <2>2, LenProperties
    <2>4. Made = {order[i] : i \in 1 .. Len(order)}
          /\ Made' = {order'[i] : i \in 1 .. Len(order) + 1}
      BY <2>3 DEF Made
    <2>5. 1 .. Len(order) + 1 = (1 .. Len(order)) \cup {Len(order) + 1}
      BY <2>2
    <2> QED
      BY <2>1, <2>2, <2>3, <2>4, <2>5
  <1>3. CASE ajaxQueue # <<>>
    <2>1. ajaxQueue' = Pushed(ajaxQueue, c) /\ UNCHANGED <<completed, timers>>
      BY <1>1, <1>3, QueueCase DEF AjaxQueue
    <2>2. Functions(ajaxQueue') = Append(Functions(ajaxQueue), c)
      BY <1>1, <1>3, <2>1, PushedWaits
    <2>3. Active' = Active /\ Active # {}
      BY <1>3, <2>1 DEF Active, UnderWay, QueueInv
    <2> QED
      BY <1>2, <2>2, <2>3 DEF Serial!Make
  <1>4. CASE ajaxQueue = <<>>
    <2>1. Ajax(c) /\ ajaxQueue' = <<InProgress>> /\ timers' = timers
      BY <1>4, FirstIsSent DEF AjaxQueue
    <2>2. Functions(ajaxQueue') = Functions(ajaxQueue)
      BY <1>4, <2>1, NothingWaits
    <2>3. Active = {} /\ \A d \in QueuedCalls : ~UnderWay(d)
      BY <1>4 DEF Active, QueueInv
    <2>4. \A d \in QueuedCalls : UnderWay(d)' <=> d = c
      BY <1>1, <2>1, <2>3 DEF UnderWay, Ajax, Places, Calls
    <2>5. Active' = {c}
      BY <2>4 DEF Active
    <2> QED
      BY <1>2, <2>2, <2>3, <2>5 DEF Serial!Make
  <1> QED
    BY <1>3, <1>4

LEMMA NextIsSerial ==
  ASSUME TypeOK, QueueInv, NEW c \in QueuedCalls, CallNext(c)
  PROVE  Serial!Over
  <1>1. Places /\ SentinelAtHead(ajaxQueue)
    BY TypeParts
  <1>2. c \in timers /\ UnderWay(c) /\ completed[c] = "yes" /\ ajaxQueue # <<>>
    BY DEF CallNext, UnderWay, QueueInv
  <1>3. \A d \in QueuedCalls : completed[d] # "no" /\ (d \in timers => d = c)
    BY <1>2 DEF QueueInv, UnderWay
  <1>4. timers' = {} /\ Made' = Made /\ Active # {}
    BY <1>1, <1>2, <1>3 DEF CallNext, Places, Made, Active, history
  <1>5. Functions(ajaxQueue) \in Seq(QueuedCalls) /\ ajaxQueue' = Dequeued(ajaxQueue)
    BY <1>1, <1>2, BehindSentinel DEF CallNext, Dequeue
  <1>6. CASE Functions(ajaxQueue) = <<>>
    <2>1. ajaxQueue' = <<>> /\ completed' = completed
      BY <1>5, <1>6 DEF CallNext, Dequeue, Dequeued
    <2>2. Active' = {}
      BY <1>3, <1>4, <2>1 DEF Active, UnderWay
    <2> QED
      BY <1>4, <1>6, <2>1, <2>2, NothingWaits DEF Serial!Over
  <1>7. CASE Functions(ajaxQueue) # <<>>
    <2> DEFINE d == Head(Functions(ajaxQueue))
    <2>1. /\ d \in QueuedCalls /\ Tail(Functions(ajaxQueue)) \in Seq(QueuedCalls)
          /\ ajaxQueue' = <<InProgress>> \o Tail(Functions(ajaxQueue)) /\ Ajax(d)
      BY <1>5, <1>7, HeadTailProperties DEF CallNext, Dequeue, Dequeued
    <2> HIDE DEF d
    <2>2. Functions(ajaxQueue') = Tail(Functions(ajaxQueue))
      BY <2>1, WaitsBehindSentinel
    <2>3. \A e \in QueuedCalls : UnderWay(e)' <=> e = d
      BY <1>1, <1>3, <1>4, <2>1 DEF UnderWay, Ajax, Places, Calls
    <2>4. Active' = {d}
      BY <2>1, <2>3 DEF Active
    <2> QED
      BY <1>4, <1>7, <2>2, <2>4 DEF d, Serial!Over
  <1> QED
    BY <1>6, <1>7

\* Every other step leaves the queue as it is, the end of a request too: its
\* call is under way until next().
LEMMA StepIsSerial ==
  ASSUME TypeOK, QueueInv, [Next]_vars
  PROVE  [Serial!Next]_(Serial!vars)
  <1>1. Places
    BY TypeParts
  <1>2. ASSUME UNCHANGED <<ajaxQueue, order>>,
               \A c \in QueuedCalls : UnderWay(c)' <=> UnderWay(c)
        PROVE  UNCHANGED Serial!vars
    BY <1>2, ActiveKept DEF Made, Serial!vars
  <1>3. CASE Tick \/ UNCHANGED vars
    BY <1>2, <1>3 DEF Tick, vars, pageVars, history, UnderWay
  <1>4. ASSUME NEW c \in RemaCalls, AjaxREMA(c)
        PROVE  UNCHANGED Serial!vars
    <2>1. \A d \in QueuedCalls : completed'[d] = completed[d]
      BY <1>1, <1>4, CallsApart DEF AjaxREMA, Ajax, Places, Calls
    <2> QED
      BY <1>2, <1>4, <2>1 DEF AjaxREMA, history, UnderWay
  <1>5. ASSUME NEW c \in Calls, Done(c), UNCHANGED <<ajaxQueue, order>>
        PROVE  UNCHANGED Serial!vars
    <2>1. \A d \in QueuedCalls : UnderWay(d)' <=> UnderWay(d)
      BY <1>1, <1>5 DEF Done, UnderWay, Places, Calls
    <2> QED
      BY <1>2, <1>5, <2>1
  <1>6. ASSUME NEW c \in Calls, Load(c) \/ Fails(c) \/ Timeout(c)
        PROVE  UNCHANGED Serial!vars
    BY <1>5, <1>6 DEF Load, Fails, Timeout, history
  <1>7. CASE Server
    <2>1. UNCHANGED <<ajaxQueue, order, completed, timers>>
      BY <1>7 DEF Server, ServeREMA, ServeREST, Answered, pageVars
    <2> QED
      BY <1>2, <2>1 DEF UnderWay
  <1> QED
    BY <1>3, <1>4, <1>6, <1>7, MakingIsSerial, NextIsSerial
       DEF Next, Page, Serial!Next

\* The queued calls of a page, of any number, take turns: in the order of their
\* making, each once, and none is left waiting when another ends, whether by
\* an answer, an error or a timeout (ajaxqueue.js).
THEOREM QueueImplementsTurns == Spec => QueueTakesTurns
  <1>1. PageInv /\ [Next]_vars => [Serial!Next]_(Serial!vars)
    BY StepIsSerial DEF PageInv
  <1> QED
    BY InitIsSerial, PageInvariant, <1>1, PTL
       DEF Spec, QueueTakesTurns, Serial!Spec

=============================================================================
