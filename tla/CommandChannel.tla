--------------------------- MODULE CommandChannel ---------------------------
(***************************************************************************)
(* The command connection (net_client.cpp) as the pool's threads share it. *)
(* An answer belongs to the command only by its place in the stream.       *)
(* post_rema_method_handler (main.cpp) holds rtu_mutex from the command to *)
(* its answer, "raw" below; execute_command (rema.cpp) holds it for the    *)
(* sending only, "exec"; REMA_connect closes and opens the connection and  *)
(* then sends the startup commands as execute_command does, "connect";     *)
(* network_settings sends without reading an answer and opens another      *)
(* connection beside the one it leaves, "settings".                        *)
(*                                                                         *)
(* A socket is known by its number.  What it carries from the RTU is cut   *)
(* into pieces, of which any number may come at a time; the last piece of  *)
(* an answer is the one that ends with a NUL.                              *)
(***************************************************************************)
EXTENDS Naturals, Sequences

CONSTANTS Workers, Nobody,
          Requests,       \* the kinds of request that are made
          Pieces,         \* pieces of an answer
          MaxSockets,     \* bound: connections made
          MaxCommands,    \* bound: requests made
          LinkMayFail

ASSUME NobodyIsNone == Nobody \notin Workers
ASSUME RequestsKnown ==
  Requests \subseteq {"raw", "exec", "connect", "settings"}
ASSUME PiecesPositive == Pieces \in Nat \ {0}
ASSUME MaxSocketsPositive == MaxSockets \in Nat \ {0}
ASSUME MaxCommandsNat == MaxCommands \in Nat
ASSUME LinkMayFailBoolean == LinkMayFail \in BOOLEAN

VARIABLES
  socket, is_connected,     \* of the client
  leftover_buffer, buf,     \* buf: what the last recv() calls left there
  link, toRtu, fromRtu,     \* every socket's state and what it carries
  rtu_mutex,
  pc, job,                  \* where each thread is, and with what
  response,                 \* get_response's local
  commands,                 \* history: commands begun
  shared                    \* history: a command went out beside another,
                            \* the lock not being held for both

clientVars == <<socket, is_connected, leftover_buffer, buf>>
linkVars == <<link, toRtu, fromRtu>>
workerVars == <<pc, job, response>>
vars == <<clientVars, linkVars, rtu_mutex, workerVars, commands, shared>>

SocketNumbers == 1 .. MaxSockets
Kinds == {"raw", "exec", "connect", "settings"}
Pcs == {"idle", "close", "shutdown", "open", "await", "lock", "send",
        "check", "enter", "recv", "scan", "got"}
\* "dead": nothing comes through and nobody has noticed.
LinkStates == {"unused", "opening", "up", "dead", "down"}

\* n: the command; goes: send_request found is_connected; via: the socket it
\* went out on; at, count: the socket and the result of the last recv();
\* tries: connections made by this request.
NoJob == [kind |-> "raw", n |-> 0, goes |-> FALSE, via |-> 0, at |-> 0,
          count |-> 0, tries |-> 0]

Piece(n, i) == [of |-> n, last |-> i = Pieces]
Answer(n) == [i \in 1 .. Pieces |-> Piece(n, i)]

Ends(s) == {i \in DOMAIN s : s[i].last}
FirstEnd(s) == CHOOSE i \in Ends(s) : \A j \in Ends(s) : i <= j
Frame(s) == SubSeq(s, 1, FirstEnd(s))
Behind(s, k) == SubSeq(s, k + 1, Len(s))

\* A command is out from its sending until get_response has its answer.
Out(w) == pc[w] \in {"check", "enter", "recv", "scan"}

\* main has connected before it serves requests.
Init ==
  /\ socket = 1 /\ is_connected = TRUE
  /\ leftover_buffer = <<>> /\ buf = <<>>
  /\ link = [s \in SocketNumbers |-> IF s = 1 THEN "up" ELSE "unused"]
  /\ toRtu = [s \in SocketNumbers |-> <<>>]
  /\ fromRtu = [s \in SocketNumbers |-> <<>>]
  /\ rtu_mutex = Nobody
  /\ pc = [w \in Workers |-> "idle"] /\ job = [w \in Workers |-> NoJob]
  /\ response = [w \in Workers |-> <<>>]
  /\ commands = 0 /\ shared = FALSE

Goes(w, from, to) == pc[w] = from /\ pc' = [pc EXCEPT ![w] = to]

-----------------------------------------------------------------------------
(* Actions below with one defect each, to try the properties on.           *)

\* The raw handler without its lock_guard.
LockForgotten(w) ==
  /\ Goes(w, "lock", "send")
  /\ job' = [job EXCEPT ![w].goes = is_connected]
  /\ UNCHANGED <<clientVars, linkVars, rtu_mutex, response, commands, shared>>

\* The end of the connection is taken for an interrupted call.
RecvTriesAgain(w) ==
  /\ Goes(w, "recv", "enter")
  /\ fromRtu[job[w].at] = <<>> /\ link[job[w].at] \in {"opening", "down"}
  /\ UNCHANGED <<clientVars, linkVars, rtu_mutex, job, response, commands, shared>>

\* A connection that fails takes its socket with it.
ConnectFailsWithoutSocket(w) ==
  /\ Goes(w, "await", "idle")
  /\ job' = [job EXCEPT ![w] = NoJob]
  /\ socket' = 0
  /\ UNCHANGED <<is_connected, leftover_buffer, buf, linkVars, rtu_mutex, response,
                 commands, shared>>

-----------------------------------------------------------------------------
\* A request reaches a thread; connections are made by one at a time.  Bounds:
\* MaxCommands, and no request after a sharing, of which nothing is claimed.
Connects(w) == pc[w] # "idle" /\ job[w].kind \in {"connect", "settings"}
CanOpen == \E s \in SocketNumbers : link[s] = "unused"
Begin(w, kind) ==
  /\ commands < MaxCommands /\ ~shared
  /\ kind \in {"connect", "settings"}
       => CanOpen /\ \A v \in Workers : ~Connects(v)
  /\ Goes(w, "idle", IF kind = "connect" THEN "close" ELSE "lock")
  /\ commands' = commands + 1
  /\ job' = [job EXCEPT ![w] = [NoJob EXCEPT !.kind = kind, !.n = commands + 1]]
  /\ UNCHANGED <<clientVars, linkVars, rtu_mutex, response, shared>>

\* The lock, and the test of is_connected at the beginning of send_request.
Lock(w) ==
  /\ Goes(w, "lock", "send")
  /\ rtu_mutex = Nobody
  /\ rtu_mutex' = w
  /\ job' = [job EXCEPT ![w].goes = is_connected]
  /\ UNCHANGED <<clientVars, linkVars, response, commands, shared>>

\* A command that nobody waits for: the one of network_settings.
NoWait(w) == job[w].kind = "settings" /\ job[w].tries = 0
Busy(w) == Out(w) \/ (pc[w] = "open" /\ job[w].kind = "settings")

\* send_request under the lock, which all but the raw handler then release.
\* Nobody looks at its result.  What is sent on a connection that has ended
\* may still be taken.
Sendable(s) == CASE link[s] \in {"up", "dead"} -> {TRUE}
                 [] link[s] = "down" -> BOOLEAN
                 [] OTHER -> {FALSE}
Send(w) ==
  /\ Goes(w, "send", IF NoWait(w) THEN "open" ELSE "check")
  /\ IF job[w].goes
     THEN \E sent \in Sendable(socket) :
            /\ job' = [job EXCEPT ![w].via = IF sent THEN socket ELSE 0,
                                  ![w].goes = FALSE]
            /\ is_connected' = (is_connected /\ sent)
            /\ toRtu' = IF sent /\ link[socket] = "up"
                        THEN [toRtu EXCEPT ![socket] = Append(@, job[w].n)]
                        ELSE toRtu
     ELSE job' = [job EXCEPT ![w].via = 0] /\ UNCHANGED <<is_connected, toRtu>>
  /\ rtu_mutex' = IF job[w].kind = "raw" THEN rtu_mutex ELSE Nobody
  /\ shared' = (shared \/ \E v \in Workers \ {w} :
                            /\ Busy(v)
                            /\ job[v].kind # "raw" \/ job[w].kind # "raw")
  /\ UNCHANGED <<socket, leftover_buffer, buf, link, fromRtu, response, commands>>

-----------------------------------------------------------------------------
\* get_response: the answer may be in the left-over buffer; else it begins
\* with what is there.
Gets(w, r) == response' = [response EXCEPT ![w] = r]
CheckConnected(w) ==
  /\ \/ /\ ~is_connected
        /\ Goes(w, "check", "got")
        /\ Gets(w, <<>>)
        /\ UNCHANGED leftover_buffer
     \/ /\ is_connected /\ Ends(leftover_buffer) # {}
        /\ Goes(w, "check", "got")
        /\ Gets(w, Frame(leftover_buffer))
        /\ leftover_buffer' = Behind(leftover_buffer, FirstEnd(leftover_buffer))
     \/ /\ is_connected /\ Ends(leftover_buffer) = {}
        /\ Goes(w, "check", "enter")
        /\ Gets(w, leftover_buffer)
        /\ leftover_buffer' = <<>>
  /\ UNCHANGED <<socket, is_connected, buf, linkVars, rtu_mutex, job,
                 commands, shared>>

\* recv() is called with the socket of this moment.
EnterRecv(w) ==
  /\ Goes(w, "enter", "recv")
  /\ job' = [job EXCEPT ![w].at = socket]
  /\ UNCHANGED <<clientVars, linkVars, rtu_mutex, response, commands, shared>>

\* It returns what has come, and writes it over the beginning of buf_.
Recv(w) ==
  /\ Goes(w, "recv", "scan")
  /\ LET s == job[w].at
     IN \E k \in 1 .. Len(fromRtu[s]) :
          /\ buf' = SubSeq(fromRtu[s], 1, k) \o Behind(buf, k)
          /\ fromRtu' = [fromRtu EXCEPT ![s] = Behind(@, k)]
          /\ job' = [job EXCEPT ![w].count = k]
  /\ UNCHANGED <<socket, is_connected, leftover_buffer, link, toRtu, rtu_mutex,
                 response, commands, shared>>

\* Or 0 or an error: what had come of the answer is given up.
RecvFails(w) ==
  /\ Goes(w, "recv", "got")
  /\ fromRtu[job[w].at] = <<>> /\ link[job[w].at] \in {"opening", "down"}
  /\ Gets(w, <<>>)
  /\ UNCHANGED <<clientVars, linkVars, rtu_mutex, job, commands, shared>>

\* The bytes are taken from buf_ up to a NUL, the rest is left over.  What
\* no thread will take from buf_ any more is forgotten.
Scan(w) ==
  /\ LET chunk == SubSeq(buf, 1, job[w].count)
     IN IF Ends(chunk) = {}
        THEN /\ Goes(w, "scan", "enter")
             /\ Gets(w, response[w] \o chunk)
             /\ UNCHANGED leftover_buffer
        ELSE /\ Goes(w, "scan", "got")
             /\ Gets(w, response[w] \o Frame(chunk))
             /\ leftover_buffer' = Behind(chunk, FirstEnd(chunk))
  /\ job' = [job EXCEPT ![w].at = 0, ![w].count = 0]
  /\ buf' = IF \E v \in Workers \ {w} : pc[v] = "scan" THEN buf ELSE <<>>
  /\ UNCHANGED <<socket, is_connected, linkVars, rtu_mutex, commands, shared>>

\* The raw handler leaves the lock's scope.  network_settings makes up to
\* three connections, until telemetry has one as well.
Return(w) ==
  /\ \/ Goes(w, "got", "idle") /\ job' = [job EXCEPT ![w] = NoJob]
     \/ /\ job[w].kind = "settings" /\ job[w].tries < 3 /\ CanOpen
        /\ Goes(w, "got", "open")
        /\ UNCHANGED job
  /\ rtu_mutex' = IF job[w].kind = "raw" THEN Nobody ELSE rtu_mutex
  /\ Gets(w, <<>>)
  /\ UNCHANGED <<clientVars, linkVars, commands, shared>>

-----------------------------------------------------------------------------
\* close(): the flag, then the shutdown, which wakes who is in recv().
CloseFlag(w) ==
  /\ Goes(w, "close", "shutdown")
  /\ is_connected' = FALSE
  /\ UNCHANGED <<socket, leftover_buffer, buf, linkVars, rtu_mutex, job, response,
                 commands, shared>>

Shutdown(w) ==
  /\ Goes(w, "shutdown", "open")
  /\ link' = [link EXCEPT ![socket] = "down"]
  /\ toRtu' = [toRtu EXCEPT ![socket] = <<>>]
  /\ UNCHANGED <<clientVars, fromRtu, rtu_mutex, job, response, commands, shared>>

\* connect(): another socket takes the place of the one before, which is
\* forgotten if nobody is reading it.
IsRead(s) == \E v \in Workers : pc[v] = "recv" /\ job[v].at = s
NextSocket == CHOOSE s \in SocketNumbers : link[s] = "unused"
Open(w) ==
  /\ Goes(w, "open", "await")
  /\ CanOpen
  /\ socket' = NextSocket
  /\ job' = [job EXCEPT ![w].tries = @ + 1]
  /\ IF IsRead(socket)
     THEN /\ link' = [link EXCEPT ![NextSocket] = "opening"]
          /\ UNCHANGED <<toRtu, fromRtu>>
     ELSE /\ link' = [link EXCEPT ![NextSocket] = "opening", ![socket] = "down"]
          /\ toRtu' = [toRtu EXCEPT ![socket] = <<>>]
          /\ fromRtu' = [fromRtu EXCEPT ![socket] = <<>>]
  /\ UNCHANGED <<is_connected, leftover_buffer, buf, rtu_mutex, response,
                 commands, shared>>

\* The startup commands follow; one stands for them.
Established(w) ==
  /\ Goes(w, "await", "lock")
  /\ link' = [link EXCEPT ![socket] = "up"]
  /\ is_connected' = TRUE
  /\ UNCHANGED <<socket, leftover_buffer, buf, toRtu, fromRtu, rtu_mutex, job,
                 response, commands, shared>>

\* Refused, or 5 s have passed; network_settings tries again.
ConnectFails(w) ==
  /\ \/ Goes(w, "await", "idle") /\ job' = [job EXCEPT ![w] = NoJob]
     \/ /\ job[w].kind = "settings" /\ job[w].tries < 3 /\ CanOpen
        /\ Goes(w, "await", "open")
        /\ UNCHANGED job
  /\ link' = [link EXCEPT ![socket] = "down"]
  /\ UNCHANGED <<clientVars, toRtu, fromRtu, rtu_mutex, response, commands, shared>>

-----------------------------------------------------------------------------
\* External: the RTU answers its commands in their order.
RtuAnswers(s) ==
  /\ link[s] = "up" /\ toRtu[s] # <<>>
  /\ fromRtu' = [fromRtu EXCEPT ![s] = @ \o Answer(Head(toRtu[s]))]
  /\ toRtu' = [toRtu EXCEPT ![s] = Tail(@)]
  /\ UNCHANGED <<clientVars, link, rtu_mutex, workerVars, commands, shared>>

\* External: a connection ends, or goes dead; of what it carried a beginning
\* has come.
LinkFails(s) ==
  /\ LinkMayFail /\ link[s] = "up"
  /\ \E to \in {"down", "dead"} : link' = [link EXCEPT ![s] = to]
  /\ toRtu' = [toRtu EXCEPT ![s] = <<>>]
  /\ \E k \in 0 .. Len(fromRtu[s]) :
       fromRtu' = [fromRtu EXCEPT ![s] = SubSeq(@, 1, k)]
  /\ UNCHANGED <<clientVars, rtu_mutex, workerVars, commands, shared>>

Step(w) ==
  \/ Lock(w) \/ Send(w) \/ CheckConnected(w) \/ EnterRecv(w)
  \/ Recv(w) \/ RecvFails(w) \/ Scan(w)
  \/ CloseFlag(w) \/ Shutdown(w) \/ Open(w) \/ Established(w) \/ ConnectFails(w)
External == \E s \in SocketNumbers : RtuAnswers(s) \/ LinkFails(s)

Next ==
  \/ \E w \in Workers :
       Step(w) \/ Return(w) \/ \E kind \in Requests : Begin(w, kind)
  \/ External

Spec == Init /\ [][Next]_vars

\* The threads run, and the RTU answers what has reached it.
FairSpec ==
  /\ Spec
  /\ \A w \in Workers : WF_vars(Step(w) \/ Return(w))
  /\ WF_vars(\E s \in SocketNumbers : RtuAnswers(s))

-----------------------------------------------------------------------------
\* The variables have their types.
Stream == Seq([of : Nat, last : BOOLEAN])
Jobs == [kind : Kinds, n : Nat, goes : BOOLEAN, via : 0 .. MaxSockets,
         at : 0 .. MaxSockets, count : Nat, tries : 0 .. 3]
TypeOK ==
  /\ socket \in SocketNumbers /\ is_connected \in BOOLEAN
  /\ leftover_buffer \in Stream /\ buf \in Stream
  /\ link \in [SocketNumbers -> LinkStates]
  /\ toRtu \in [SocketNumbers -> Seq(Nat)]
  /\ fromRtu \in [SocketNumbers -> Stream]
  /\ rtu_mutex \in Workers \cup {Nobody}
  /\ pc \in [Workers -> Pcs]
  /\ job \in [Workers -> Jobs]
  /\ response \in [Workers -> Stream]
  /\ commands \in Nat /\ shared \in BOOLEAN

\* What get_response returns is empty or the whole answer to the command of
\* its caller, however the stream is cut and however connections are lost
\* and made, as long as commands that do not hold rtu_mutex until they have
\* their answer (execute_command) go out alone.
AnswersAreTheirOwn ==
  \A w \in Workers :
    pc[w] = "got" => response[w] \in {<<>>, Answer(job[w].n)} \/ shared

\* A thread that waits in recv() on the socket its command went out on, which
\* no other command shares, waits for something: while the connection is up
\* the command is still to be answered there or a piece of its answer to be
\* read.
AnswersAreOnTheirWay ==
  \A w \in Workers :
    pc[w] = "recv" /\ ~shared /\ job[w].at = job[w].via /\ link[job[w].at] = "up"
      => toRtu[job[w].at] # <<>> \/ fromRtu[job[w].at] # <<>>

\* A command that is out comes back, unless it shares the connection with
\* another, the connection is dead, or the thread reads another socket than
\* the one it has sent on.
Strays(w) == pc[w] = "recv" /\ job[w].at # job[w].via
SentToTheDead(w) == \E s \in SocketNumbers : job[w].via = s /\ link[s] = "dead"
CommandsReturn ==
  \A w \in Workers :
    Out(w) ~> \/ ~Out(w) \/ shared \/ Strays(w) \/ SentToTheDead(w)

=============================================================================
