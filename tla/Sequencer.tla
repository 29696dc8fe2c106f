------------------------------ MODULE Sequencer ------------------------------
(***************************************************************************)
(* The motion side of the proxy: the HTTP worker threads that run the REST *)
(* handlers of restfull_api.cpp, the sequence engine of rema.cpp they call *)
(* and the two plain flags (is_sequence_in_progress, cancel_sequence) the  *)
(* threads use to start, cancel and end a sequence.                        *)
(*                                                                         *)
(* Every access of a flag or of the telemetry another thread writes is a   *)
(* step of its own.  The robot's controller (RTU), the TCP connection to   *)
(* it and the telemetry it sends are external, modelled from how the proxy *)
(* uses them.  One pair of axes stands for XY and for Z: a sequence stays  *)
(* on one of them.                                                         *)
(***************************************************************************)
EXTENDS Naturals, Sequences, FiniteSets

CONSTANTS Workers,          \* restbed's worker threads
          Requests,         \* the kinds of request the clients send
          MaxRequests,      \* bound: requests accepted in a behaviour
          PointsNumber,     \* points_number of determine_tube_center (3)
          SequencesQueued,  \* one request of FlagKinds is under way at a time
          TelemetryTimely,  \* a sample arrives during the 400 ms wait
          LinkMayFail       \* the command connection may be lost, and an
                            \* answer come in pieces that do not parse

SequenceKinds == {"determine_tube_center", "determine_tubesheet_z"}
\* Those whose handlers write is_sequence_in_progress.
FlagKinds == SequenceKinds \cup {"tools_select"}
StopKinds == {"axes_hard_stop_all", "axes_soft_stop_all"}
JogKinds == {"move_joystick", "move_incremental"}
PlainKinds == {"go_to_tube", "set_home"}
Kinds == SequenceKinds \cup StopKinds \cup JogKinds \cup PlainKinds
           \cup {"tools_select", "REMA_connect"}

ASSUME WorkersFinite == IsFiniteSet(Workers)
ASSUME RequestsAreKinds == Requests \subseteq Kinds
ASSUME MaxRequestsNat == MaxRequests \in Nat
ASSUME PointsNumberOdd == PointsNumber \in Nat /\ PointsNumber % 2 = 1
ASSUME SwitchesBoolean ==
  /\ SequencesQueued \in BOOLEAN
  /\ TelemetryTimely \in BOOLEAN
  /\ LinkMayFail \in BOOLEAN

VARIABLES
  pc, job, results, seen,      \* a worker's position, request, locals
  isSequenceInProgress, cancelSequence,
  linkUp, cmdQ, respQ,         \* the command connection, each way
  isConnected, leftover,       \* of the client; answers read beyond one
  reading,                     \* workers inside recv()
  shared,                      \* a command went out while another was out
  rtu, moving,                 \* the controller's state
  telemetry,                   \* the proxy's copy of it
  accepted,                    \* requests accepted so far
  \* History, read by no guard but the 400 ms wait's:
  sampled,                     \* waiting workers a sample has reached
  calls,                       \* execute_sequence calls begun so far
  overruled,                   \* calls numbered up to this were stopped
  late                         \* moves sent while cancelSequence was set

workerVars == <<pc, job, results, seen>>
flagVars == <<isSequenceInProgress, cancelSequence>>
linkVars == <<linkUp, cmdQ, respQ, isConnected, leftover, reading, shared>>
rtuVars == <<rtu, moving>>
historyVars == <<calls, overruled, late>>
vars == <<workerVars, flagVars, linkVars, rtuVars, telemetry, accepted,
          sampled, historyVars>>

\* A step is named by its request, the execute_sequence call, its index.
StepIds == Nat \X Nat \X Nat
NoStep == <<0, 0, 0>>

\* The request a worker runs: its kind and number, the execute_sequence
\* call and the step it is at, what retract_from_tubesheet_z holds and, as
\* history, the number of that call and the calls begun when the worker's
\* cancel loop ended.
Jobs == [kind : Kinds \cup {"none"}, n : Nat, call : Nat, idx : Nat,
         retract : {"garbage", "tubesheet"}, callNo : Nat, passed : Nat]
NewJob(kind, n) == [kind |-> kind, n |-> n, call |-> 1, idx |-> 1,
                    retract |-> "garbage", callNo |-> 0, passed |-> 0]
NoJob == NewJob("none", 0)

\* A telemetry sample: the move it is about and the flags that are read.
Samples == [step : StepIds, probe : BOOLEAN, onCondition : BOOLEAN,
            fault : BOOLEAN]
NoSample == [step |-> NoStep, probe |-> FALSE, onCondition |-> FALSE,
             fault |-> FALSE]

\* What execute_step has read, and which move each flag was of.
Readings == [probe : BOOLEAN, probeOf : StepIds, onCondition : BOOLEAN,
             conditionOf : StepIds, fault : BOOLEAN]
NoReading == [probe |-> FALSE, probeOf |-> NoStep, onCondition |-> FALSE,
              conditionOf |-> NoStep, fault |-> FALSE]

\* execution_results of an executed step, and which move the flags and
\* the coordinates were of.
Results == [probe : BOOLEAN, onCondition : BOOLEAN,
            probeOf : StepIds, conditionOf : StepIds, coordsOf : StepIds]
ResultOf(r, coordsOf) ==
  [probe |-> r.probe, onCondition |-> r.onCondition, probeOf |-> r.probeOf,
   conditionOf |-> r.conditionOf, coordsOf |-> coordsOf]

MoveCommands == {"MOVE_CLOSED_LOOP", "MOVE_JOYSTICK", "MOVE_INCREMENTAL"}
CommandNames == MoveCommands \cup
  {"AXES_HARD_STOP_ALL", "AXES_SOFT_STOP_ALL", "SET_COORDS", "AXES_SETTINGS",
   "TOUCH_PROBE"}
Commands == [cmd : CommandNames, step : StepIds]
Responses == [cmd : CommandNames, error : BOOLEAN]

ReceivingPcs == {"recvHalt", "recvMove", "recvStop", "recvCmd"}
\* Between is_sequence_in_progress = true and the matching = false.
CallPcs == {"sendHalt", "recvHalt", "sendMove", "recvMove", "settle",
            "readProbe", "readCondition", "readAbort", "judge", "rest", "lower"}
Pcs == CallPcs \cup ReceivingPcs \cup
  {"idle", "test", "raiseCancel", "clear", "raise", "reset", "sendStop",
   "sendCmd", "closeLink", "openLink", "throw"}

InCall(w) == pc[w] \in CallPcs
Sequencing(w) == job[w].kind \in SequenceKinds

Init ==
  /\ pc = [w \in Workers |-> "idle"]
  /\ job = [w \in Workers |-> NoJob]
  /\ results = [w \in Workers |-> <<>>]
  /\ seen = [w \in Workers |-> NoReading]
  /\ isSequenceInProgress = FALSE /\ cancelSequence = FALSE
  /\ linkUp = TRUE /\ cmdQ = <<>> /\ respQ = <<>>
  /\ isConnected = TRUE /\ leftover = <<>>
  /\ reading = {} /\ shared = FALSE
  /\ rtu = NoSample /\ moving = FALSE /\ telemetry = NoSample
  /\ accepted = 0 /\ sampled = {}
  /\ calls = 0 /\ overruled = 0 /\ late = 0

-----------------------------------------------------------------------------
(* Sending a command and taking an answer: execute_command sends under     *)
(* rtu_mutex but reads outside it, so an answer goes to whichever worker   *)
(* reads first.  A send on a connection that has ended may fail.           *)

StepOf(w) == <<job[w].n, job[w].call, job[w].idx>>

Goto(w, p) == pc' = [pc EXCEPT ![w] = p]

Transmit(w, c) ==
  /\ cmdQ' = IF linkUp THEN Append(cmdQ, [cmd |-> c, step |-> StepOf(w)])
                       ELSE cmdQ
  /\ isConnected' \in {isConnected, isConnected /\ linkUp}
  /\ shared' = (shared \/ \E v \in Workers \ {w} : pc[v] \in ReceivingPcs)
  /\ UNCHANGED <<linkUp, respQ, leftover, reading>>

\* get_response finds nothing left over and calls recv().
EnterRecv(w) ==
  /\ pc[w] \in ReceivingPcs
  /\ w \notin reading
  /\ isConnected /\ leftover = <<>>
  /\ reading' = reading \cup {w}
  /\ UNCHANGED <<workerVars, flagVars, linkUp, cmdQ, respQ, isConnected,
                 leftover, shared, rtuVars, telemetry, accepted, sampled,
                 historyVars>>

\* The answer is among the left-over ones, or recv() brings it, with any
\* number of those behind it, which take the place of what was left over.
TakeAnswer(w) ==
  /\ \/ /\ w \notin reading
        /\ isConnected /\ leftover # <<>>
        /\ leftover' = Tail(leftover)
        /\ UNCHANGED <<respQ, reading>>
     \/ /\ w \in reading
        /\ \E k \in 1 .. Len(respQ) :
             /\ leftover' = SubSeq(respQ, 2, k)
             /\ respQ' = SubSeq(respQ, k + 1, Len(respQ))
        /\ reading' = reading \ {w}
  /\ UNCHANGED <<linkUp, cmdQ, isConnected, shared>>

AnswerOf(w) == Head(IF w \in reading THEN respQ ELSE leftover)

\* contains("error") is looked up under the command's name: an answer to
\* another command never has it.
Refuses(w, c) == AnswerOf(w).cmd = c /\ AnswerOf(w).error

\* The handler closes its session and the worker is free again.
Done(w) ==
  /\ Goto(w, "idle")
  /\ job' = [job EXCEPT ![w] = NoJob]
  /\ results' = [results EXCEPT ![w] = <<>>]
  /\ seen' = [seen EXCEPT ![w] = NoReading]

-----------------------------------------------------------------------------
(* What a handler does when an execute_sequence call of its returns.       *)

\* The steps of each execute_sequence call of a handler.
StepsOf(kind, call) ==
  IF kind = "determine_tube_center"
  THEN IF call = 1 THEN 2 * PointsNumber - 1 ELSE 1
  ELSE IF call = 2 THEN 3 ELSE 1

Call(w, retract) ==
  /\ Goto(w, "test")
  /\ job' = [job EXCEPT ![w] = [@ EXCEPT !.call = job[w].call + 1,
                                         !.idx = 1, !.retract = retract]]
  /\ results' = [results EXCEPT ![w] = <<>>]
  /\ seen' = [seen EXCEPT ![w] = NoReading]

SetHome(w) == Goto(w, "sendCmd") /\ UNCHANGED <<job, results, seen>>

TubeCenterReturn(w, ok) ==
  \/ ok /\ job[w].call = 1 /\ Call(w, "garbage")
  \/ ok /\ job[w].call = 2 /\ results[w][1].onCondition /\ SetHome(w)
  \/ (ok => job[w].call = 2) /\ Done(w)

TubesheetReturn(w, ok) ==
  CASE job[w].call = 1 -> IF ok /\ results[w][1].probe
                          THEN Call(w, "garbage") ELSE Done(w)
    [] job[w].call = 2 -> IF ok /\ results[w][2].probe
                          THEN Call(w, "garbage") ELSE Done(w)
    [] job[w].call = 3 -> \/ ok /\ SetHome(w)
                          \/ Call(w, IF ok THEN "tubesheet" ELSE "garbage")
    [] OTHER -> Done(w)

Return(w, ok) ==
  IF job[w].kind = "determine_tube_center"
  THEN TubeCenterReturn(w, ok)
  ELSE TubesheetReturn(w, ok)

-----------------------------------------------------------------------------
(* Actions below with one defect each, to try the properties on.           *)

\* The loop of cancel_sequence_in_progress as an if: no second look.
CancelOnce(w) ==
  /\ pc[w] = "raiseCancel"
  /\ cancelSequence' = TRUE
  /\ job' = [job EXCEPT ![w].passed = calls]
  /\ Goto(w, IF Sequencing(w) THEN "clear" ELSE "sendStop")
  /\ UNCHANGED <<results, seen, isSequenceInProgress, linkVars, rtuVars,
                 telemetry, accepted, sampled, historyVars>>

\* execute_sequence does not raise its flag.
RaiseNothing(w) ==
  /\ pc[w] = "raise"
  /\ calls' = calls + 1
  /\ job' = [job EXCEPT ![w].callNo = calls + 1]
  /\ Goto(w, "sendHalt")
  /\ UNCHANGED <<results, seen, flagVars, linkVars, rtuVars, telemetry,
                 accepted, sampled, overruled, late>>

\* execute_step does not wait for telemetry after the move command.
NoSettling(w) ==
  /\ pc[w] = "settle"
  /\ sampled' = sampled \ {w}
  /\ Goto(w, "readProbe")
  /\ UNCHANGED <<job, results, seen, flagVars, linkVars, rtuVars, telemetry,
                 accepted, historyVars>>

\* The polling loop ends after one round.
PollOnce(w) ==
  /\ pc[w] = "readAbort"
  /\ seen' = [seen EXCEPT ![w].fault = telemetry.fault]
  /\ Goto(w, "judge")
  /\ UNCHANGED <<job, results, flagVars, linkVars, rtuVars, telemetry,
                 accepted, sampled, historyVars>>

\* The polling loop forgets abort_from_rema.
PollWithoutAbort(w) ==
  /\ pc[w] = "readAbort"
  /\ Goto(w, IF seen[w].probe \/ seen[w].onCondition \/ cancelSequence
             THEN "judge" ELSE "readProbe")
  /\ UNCHANGED <<job, results, seen, flagVars, linkVars, rtuVars, telemetry,
                 accepted, sampled, historyVars>>

\* The loop of cancel_sequence_in_progress waits for the cancel to be taken
\* back as well, which a cancelled step does not do.
TestCancelToo(w) ==
  /\ pc[w] = "test"
  /\ Goto(w, CASE isSequenceInProgress \/ cancelSequence -> "raiseCancel"
               [] Sequencing(w) /\ ~isSequenceInProgress /\ ~cancelSequence -> "clear"
               [] OTHER -> "sendStop")
  /\ job' = IF isSequenceInProgress \/ cancelSequence THEN job
            ELSE [job EXCEPT ![w].passed = calls]
  /\ UNCHANGED <<results, seen, flagVars, linkVars, rtuVars, telemetry,
                 accepted, sampled, historyVars>>

\* A step is taken as executed although cancel_sequence is set.
ExecutedDespiteCancel(w) ==
  /\ pc[w] = "judge"
  /\ ~seen[w].fault
  /\ results' = [results EXCEPT ![w] = Append(@,
       ResultOf(seen[w], telemetry.step))]
  /\ Goto(w, "rest")
  /\ UNCHANGED <<job, seen, flagVars, linkVars, rtuVars, telemetry, accepted,
                 sampled, historyVars>>

\* A cancelled step returns without lowering the flag.
CancelledWithFlagUp(w) ==
  /\ pc[w] = "judge"
  /\ cancelSequence \/ seen[w].fault
  /\ Return(w, FALSE)
  /\ UNCHANGED <<flagVars, linkVars, rtuVars, telemetry, accepted, sampled,
                 historyVars>>

\* A step records no coordinates.
ExecutedWithoutCoords(w) ==
  /\ pc[w] = "judge"
  /\ ~(cancelSequence \/ seen[w].fault)
  /\ results' = [results EXCEPT ![w] = Append(@,
       [probe |-> seen[w].probe, onCondition |-> seen[w].onCondition])]
  /\ Goto(w, "rest")
  /\ UNCHANGED <<job, seen, flagVars, linkVars, rtuVars, telemetry, accepted,
                 sampled, historyVars>>

-----------------------------------------------------------------------------
(* A request reaches an idle worker.                                       *)

FirstPc(kind) ==
  CASE kind \in PlainKinds -> "sendCmd"
    [] kind = "REMA_connect" -> "closeLink"
    [] kind = "tools_select" -> "sendCmd"
    [] OTHER -> "test"

Accept(w, kind) ==
  /\ pc[w] = "idle"
  /\ accepted < MaxRequests
  /\ SequencesQueued /\ kind \in FlagKinds
       => \A v \in Workers : job[v].kind \notin FlagKinds
  /\ accepted' = accepted + 1
  /\ Goto(w, FirstPc(kind))
  /\ job' = [job EXCEPT ![w] = NewJob(kind, accepted + 1)]
  /\ UNCHANGED <<results, seen, flagVars, linkVars, rtuVars, telemetry,
                 sampled, historyVars>>

(* cancel_sequence_in_progress: poll the flag, ask again while it is up.   *)

TestInProgress(w) ==
  /\ pc[w] = "test"
  /\ Goto(w, CASE isSequenceInProgress -> "raiseCancel"
               [] ~isSequenceInProgress /\ Sequencing(w) -> "clear"
               [] OTHER -> "sendStop")
  /\ job' = IF isSequenceInProgress THEN job
            ELSE [job EXCEPT ![w].passed = calls]
  /\ UNCHANGED <<results, seen, flagVars, linkVars, rtuVars, telemetry,
                 accepted, sampled, historyVars>>

RaiseCancel(w) ==
  /\ pc[w] = "raiseCancel"
  /\ cancelSequence' = TRUE
  /\ Goto(w, "test")
  /\ UNCHANGED <<job, results, seen, isSequenceInProgress, linkVars, rtuVars,
                 telemetry, accepted, sampled, historyVars>>

-----------------------------------------------------------------------------
(* execute_sequence                                                        *)

ClearCancel(w) ==
  /\ pc[w] = "clear"
  /\ cancelSequence' = FALSE
  /\ late' = 0
  /\ Goto(w, "raise")
  /\ UNCHANGED <<job, results, seen, isSequenceInProgress, linkVars, rtuVars,
                 telemetry, accepted, sampled, calls, overruled>>

RaiseInProgress(w) ==
  /\ pc[w] = "raise"
  /\ isSequenceInProgress' = TRUE
  /\ calls' = calls + 1
  /\ job' = [job EXCEPT ![w].callNo = calls + 1]
  /\ Goto(w, "sendHalt")
  /\ UNCHANGED <<results, seen, cancelSequence, linkVars, rtuVars,
                 telemetry, accepted, sampled, overruled, late>>

SendHalt(w) ==
  /\ pc[w] = "sendHalt"
  /\ Transmit(w, "AXES_HARD_STOP_ALL")
  /\ Goto(w, "recvHalt")
  /\ UNCHANGED <<job, results, seen, flagVars, rtuVars, telemetry, accepted,
                 sampled, historyVars>>

HaltAnswered(w) ==
  /\ pc[w] = "recvHalt"
  /\ TakeAnswer(w)
  /\ Goto(w, "sendMove")
  /\ UNCHANGED <<job, results, seen, flagVars, rtuVars, telemetry, accepted,
                 sampled, historyVars>>

(* execute_step *)

SendMove(w) ==
  /\ pc[w] = "sendMove"
  /\ Transmit(w, "MOVE_CLOSED_LOOP")
  /\ late' = IF cancelSequence THEN late + 1 ELSE late
  /\ Goto(w, "recvMove")
  /\ UNCHANGED <<job, results, seen, flagVars, rtuVars, telemetry, accepted,
                 sampled, calls, overruled>>

MoveAccepted(w) ==
  /\ pc[w] = "recvMove"
  /\ TakeAnswer(w)
  /\ ~Refuses(w, "MOVE_CLOSED_LOOP")
  /\ Goto(w, "settle")
  /\ UNCHANGED <<job, results, seen, flagVars, rtuVars, telemetry, accepted,
                 sampled, historyVars>>

MoveRefused(w) ==
  /\ pc[w] = "recvMove"
  /\ TakeAnswer(w)
  /\ Refuses(w, "MOVE_CLOSED_LOOP")
  /\ isSequenceInProgress' = FALSE
  /\ Return(w, FALSE)
  /\ UNCHANGED <<cancelSequence, rtuVars, telemetry, accepted, sampled,
                 historyVars>>

\* The fixed sleep of 400 ms "for telemetry update".
Settle(w) ==
  /\ pc[w] = "settle"
  /\ TelemetryTimely => w \in sampled
  /\ sampled' = sampled \ {w}
  /\ Goto(w, "readProbe")
  /\ UNCHANGED <<job, results, seen, flagVars, linkVars, rtuVars, telemetry,
                 accepted, historyVars>>

\* The two flags, of which telemetry may be replaced in between.
ReadProbe(w) ==
  /\ pc[w] = "readProbe"
  /\ seen' = [seen EXCEPT ![w].probe = telemetry.probe,
                          ![w].probeOf = telemetry.step]
  /\ Goto(w, "readCondition")
  /\ UNCHANGED <<job, results, flagVars, linkVars, rtuVars, telemetry,
                 accepted, sampled, historyVars>>

ReadCondition(w) ==
  /\ pc[w] = "readCondition"
  /\ seen' = [seen EXCEPT ![w].onCondition = telemetry.onCondition,
                          ![w].conditionOf = telemetry.step]
  /\ Goto(w, "readAbort")
  /\ UNCHANGED <<job, results, flagVars, linkVars, rtuVars, telemetry,
                 accepted, sampled, historyVars>>

\* 100 ms later: abort_from_rema and the condition of the loop.
ReadAbort(w) ==
  /\ pc[w] = "readAbort"
  /\ \/ /\ \/ seen[w].probe \/ seen[w].onCondition
           \/ cancelSequence \/ telemetry.fault
        /\ Goto(w, "judge")
        /\ seen' = [seen EXCEPT ![w].fault = telemetry.fault]
     \/ /\ ~(\/ seen[w].probe \/ seen[w].onCondition
             \/ cancelSequence \/ telemetry.fault)
        /\ Goto(w, "readProbe")
        /\ seen' = [seen EXCEPT ![w] = NoReading]
  /\ UNCHANGED <<job, results, flagVars, linkVars, rtuVars, telemetry,
                 accepted, sampled, historyVars>>

StepCancelled(w) ==
  /\ pc[w] = "judge"
  /\ cancelSequence \/ seen[w].fault
  /\ isSequenceInProgress' = FALSE
  /\ Return(w, FALSE)
  /\ UNCHANGED <<cancelSequence, linkVars, rtuVars, telemetry, accepted,
                 sampled, historyVars>>

\* The flags were read earlier; the coordinates are read now.
StepExecuted(w) ==
  /\ pc[w] = "judge"
  /\ ~(cancelSequence \/ seen[w].fault)
  /\ results' = [results EXCEPT ![w] = Append(@,
       ResultOf(seen[w], telemetry.step))]
  /\ seen' = [seen EXCEPT ![w] = NoReading]
  /\ Goto(w, "rest")
  /\ UNCHANGED <<job, flagVars, linkVars, rtuVars, telemetry, accepted,
                 sampled, historyVars>>

\* The 250 ms for vibrations, then the next step or the end of the call.
Rest(w) ==
  /\ pc[w] = "rest"
  /\ IF job[w].idx < StepsOf(job[w].kind, job[w].call)
     THEN /\ Goto(w, "sendMove")
          /\ job' = [job EXCEPT ![w] = [@ EXCEPT !.idx = job[w].idx + 1]]
     ELSE Goto(w, "lower") /\ UNCHANGED job
  /\ UNCHANGED <<results, seen, flagVars, linkVars, rtuVars, telemetry,
                 accepted, sampled, historyVars>>

LowerInProgress(w) ==
  /\ pc[w] = "lower"
  /\ isSequenceInProgress' = FALSE
  /\ Goto(w, "reset")
  /\ UNCHANGED <<job, results, seen, cancelSequence, linkVars, rtuVars,
                 telemetry, accepted, sampled, historyVars>>

ResetCancel(w) ==
  /\ pc[w] = "reset"
  /\ cancelSequence' = FALSE
  /\ late' = 0
  /\ Return(w, TRUE)
  /\ UNCHANGED <<isSequenceInProgress, linkVars, rtuVars, telemetry, accepted,
                 sampled, calls, overruled>>

-----------------------------------------------------------------------------
(* Stops, jogs and the handlers of one command.                            *)

StopCommand(w) == IF job[w].kind = "axes_hard_stop_all"
                  THEN "AXES_HARD_STOP_ALL" ELSE "AXES_SOFT_STOP_ALL"

LastCommand(w) ==
  CASE job[w].kind = "move_joystick" -> "MOVE_JOYSTICK"
    [] job[w].kind = "move_incremental" -> "MOVE_INCREMENTAL"
    [] job[w].kind = "go_to_tube" -> "MOVE_CLOSED_LOOP"
    [] job[w].kind = "REMA_connect" -> "AXES_SETTINGS"
    [] job[w].kind = "tools_select" -> "TOUCH_PROBE"
    [] OTHER -> "SET_COORDS"

SendStop(w) ==
  /\ pc[w] = "sendStop"
  /\ Transmit(w, StopCommand(w))
  /\ overruled' = IF job[w].passed > overruled THEN job[w].passed
                                                  ELSE overruled
  /\ Goto(w, "recvStop")
  /\ UNCHANGED <<job, results, seen, flagVars, rtuVars, telemetry, accepted,
                 sampled, calls, late>>

StopAnswered(w) ==
  /\ pc[w] = "recvStop"
  /\ TakeAnswer(w)
  /\ IF job[w].kind \in JogKinds
     THEN Goto(w, "sendCmd") /\ UNCHANGED <<job, results, seen>>
     ELSE Done(w)
  /\ UNCHANGED <<flagVars, rtuVars, telemetry, accepted, sampled,
                 historyVars>>

SendCommand(w) ==
  /\ pc[w] = "sendCmd"
  /\ Transmit(w, LastCommand(w))
  /\ Goto(w, "recvCmd")
  /\ UNCHANGED <<job, results, seen, flagVars, rtuVars, telemetry, accepted,
                 sampled, historyVars>>

\* determine_tubesheet_z retracts after it set home, and the extension of
\* the probe may follow its retraction.
CommandAnswered(w) ==
  /\ pc[w] = "recvCmd"
  /\ TakeAnswer(w)
  /\ \/ job[w].kind = "determine_tubesheet_z" /\ Call(w, "tubesheet")
     \/ job[w].kind # "determine_tubesheet_z" /\ Done(w)
     \/ /\ job[w].kind = "tools_select" /\ job[w].idx = 1
        /\ ~Refuses(w, "TOUCH_PROBE")
        /\ Goto(w, "sendCmd")
        /\ job' = [job EXCEPT ![w].idx = 2]
        /\ UNCHANGED <<results, seen>>
  /\ isSequenceInProgress' =
       (isSequenceInProgress
        /\ ~(job[w].kind = "tools_select" /\ Refuses(w, "TOUCH_PROBE")))
  /\ UNCHANGED <<cancelSequence, rtuVars, telemetry, accepted, sampled,
                 historyVars>>

\* get_response returns "" or what does not parse, and json::parse throws
\* out of the handler (the flags stay as they are; send_startup_commands
\* catches it and ends).  An answer is in pieces that others have part of
\* once two have read at a time.
Throw(w) ==
  /\ \/ pc[w] = "throw" /\ UNCHANGED linkVars
     \/ /\ pc[w] \in ReceivingPcs
        /\ IF w \in reading THEN ~linkUp /\ respQ = <<>> ELSE ~isConnected
        /\ reading' = reading \ {w}
        /\ UNCHANGED <<linkUp, cmdQ, respQ, isConnected, leftover, shared>>
     \/ /\ pc[w] \in ReceivingPcs
        /\ LinkMayFail \/ shared
        /\ TakeAnswer(w)
  /\ Done(w)
  /\ UNCHANGED <<flagVars, rtuVars, telemetry, accepted, sampled, historyVars>>

\* The connection ends.  Of what it carried a beginning has come and can
\* still be read; close() leaves the left-over buffer as it is.
LinkEnds ==
  /\ linkUp' = FALSE /\ cmdQ' = <<>>
  /\ \E k \in 0 .. Len(respQ) : respQ' = SubSeq(respQ, 1, k)
  /\ UNCHANGED <<leftover, reading, shared>>

CloseLink(w) ==
  /\ pc[w] = "closeLink"
  /\ LinkEnds
  /\ isConnected' = FALSE
  /\ Goto(w, "openLink")
  /\ UNCHANGED <<job, results, seen, flagVars, rtuVars, telemetry, accepted,
                 sampled, historyVars>>

\* connect() makes another socket; who is still reading the old one gets
\* nothing more (what it could have got it takes before).
OpenLink(w) ==
  /\ pc[w] = "openLink"
  /\ \/ /\ linkUp' = TRUE /\ isConnected' = TRUE
        /\ respQ' = <<>> /\ reading' = {}
        /\ pc' = [v \in Workers |-> IF v = w THEN "sendCmd"
                                   ELSE IF v \in reading THEN "throw" ELSE pc[v]]
        /\ UNCHANGED <<job, results, seen>>
     \/ Done(w) /\ UNCHANGED <<linkUp, isConnected, respQ, reading>>
  /\ UNCHANGED <<cmdQ, leftover, shared, flagVars, rtuVars, telemetry,
                 accepted, sampled, historyVars>>

-----------------------------------------------------------------------------
(* External: the RTU, the connection and the telemetry.                    *)

RtuAnswers(r) ==
  /\ cmdQ' = Tail(cmdQ) /\ respQ' = Append(respQ, r)
  /\ UNCHANGED <<linkUp, isConnected, leftover, reading, shared>>

RtuStopsAxes ==
  /\ cmdQ # <<>>
  /\ Head(cmdQ).cmd \in {"AXES_HARD_STOP_ALL", "AXES_SOFT_STOP_ALL"}
  /\ RtuAnswers([cmd |-> Head(cmdQ).cmd, error |-> FALSE])
  /\ moving' = FALSE
  /\ UNCHANGED <<workerVars, flagVars, rtu, telemetry, accepted,
                 sampled, historyVars>>

RtuAcceptsMove ==
  /\ cmdQ # <<>>
  /\ Head(cmdQ).cmd \in MoveCommands
  /\ RtuAnswers([cmd |-> Head(cmdQ).cmd, error |-> FALSE])
  /\ moving' = TRUE
  /\ rtu' = [NoSample EXCEPT !.step = Head(cmdQ).step]
  /\ UNCHANGED <<workerVars, flagVars, telemetry, accepted, sampled,
                 historyVars>>

RtuRefusesMove ==
  /\ cmdQ # <<>>
  /\ Head(cmdQ).cmd \in MoveCommands
  /\ RtuAnswers([cmd |-> Head(cmdQ).cmd, error |-> TRUE])
  /\ UNCHANGED <<workerVars, flagVars, rtuVars, telemetry, accepted,
                 sampled, historyVars>>

RtuDoesOther ==
  /\ cmdQ # <<>>
  /\ Head(cmdQ).cmd \in {"SET_COORDS", "AXES_SETTINGS", "TOUCH_PROBE"}
  /\ \E error \in {FALSE, Head(cmdQ).cmd = "TOUCH_PROBE"} :
       RtuAnswers([cmd |-> Head(cmdQ).cmd, error |-> error])
  /\ UNCHANGED <<workerVars, flagVars, rtuVars, telemetry, accepted,
                 sampled, historyVars>>

RtuHandles == RtuStopsAxes \/ RtuAcceptsMove \/ RtuRefusesMove \/ RtuDoesOther

\* The probe touches, or else the set point is reached.
RtuEndsMove ==
  /\ moving
  /\ moving' = FALSE
  /\ \E p, c \in BOOLEAN :
       /\ p # c
       /\ rtu' = [rtu EXCEPT !.probe = p, !.onCondition = c]
  /\ UNCHANGED <<workerVars, flagVars, linkVars, telemetry, accepted, sampled,
                 historyVars>>

\* Control disabled, an axis stalled or the probe protected.
RtuFaults ==
  /\ moving
  /\ moving' = FALSE
  /\ rtu' = [rtu EXCEPT !.fault = TRUE]
  /\ UNCHANGED <<workerVars, flagVars, linkVars, telemetry, accepted, sampled,
                 historyVars>>

TelemetryArrives ==
  LET waiting == {w \in Workers : pc[w] = "settle"}
  IN /\ telemetry # rtu \/ sampled # waiting
     /\ telemetry' = rtu
     /\ sampled' = waiting
     /\ UNCHANGED <<workerVars, flagVars, linkVars, rtuVars, accepted,
                    historyVars>>

LinkDrops ==
  /\ LinkMayFail
  /\ linkUp
  /\ LinkEnds
  /\ UNCHANGED <<workerVars, flagVars, isConnected, rtuVars, telemetry,
                 accepted, sampled, historyVars>>

-----------------------------------------------------------------------------
SequenceStep(w) ==
  \/ ClearCancel(w) \/ RaiseInProgress(w) \/ SendHalt(w) \/ HaltAnswered(w)
  \/ SendMove(w) \/ MoveAccepted(w) \/ MoveRefused(w) \/ Settle(w)
  \/ ReadProbe(w) \/ ReadCondition(w) \/ ReadAbort(w)
  \/ StepCancelled(w) \/ StepExecuted(w) \/ Rest(w) \/ LowerInProgress(w) \/ ResetCancel(w)

WorkerStep(w) ==
  \/ TestInProgress(w) \/ RaiseCancel(w) \/ SequenceStep(w) \/ EnterRecv(w)
  \/ SendStop(w) \/ StopAnswered(w) \/ SendCommand(w) \/ CommandAnswered(w)
  \/ Throw(w) \/ CloseLink(w) \/ OpenLink(w)

Environment ==
  RtuHandles \/ RtuEndsMove \/ RtuFaults \/ TelemetryArrives \/ LinkDrops

Next ==
  \/ \E w \in Workers : WorkerStep(w) \/ \E k \in Requests : Accept(w, k)
  \/ Environment

Spec == Init /\ [][Next]_vars

\* The threads run, and the RTU does what it has to: it answers, ends its
\* moves and sends telemetry.
Fairness ==
  /\ \A w \in Workers : WF_vars(WorkerStep(w))
  /\ WF_vars(RtuHandles \/ RtuEndsMove \/ RtuFaults \/ TelemetryArrives)

FairSpec == Spec /\ Fairness

-----------------------------------------------------------------------------
(* What the sequence engine promises.                                      *)

\* The variables have their types.
TypeOK ==
  /\ pc \in [Workers -> Pcs]
  /\ job \in [Workers -> Jobs]
  /\ results \in [Workers -> Seq(Results)]
  /\ seen \in [Workers -> Readings]
  /\ isSequenceInProgress \in BOOLEAN /\ cancelSequence \in BOOLEAN
  /\ linkUp \in BOOLEAN
  /\ cmdQ \in Seq(Commands) /\ respQ \in Seq(Responses)
  /\ isConnected \in BOOLEAN /\ leftover \in Seq(Responses)
  /\ reading \subseteq Workers /\ shared \in BOOLEAN
  /\ rtu \in Samples /\ moving \in BOOLEAN /\ telemetry \in Samples
  /\ accepted \in Nat /\ sampled \subseteq Workers
  /\ calls \in Nat /\ overruled \in Nat /\ late \in Nat

\* A stop is final for every execute_sequence call begun before its cancel
\* loop ended: once the stop command has gone out (axes_hard_stop_all and
\* axes_soft_stop_all in rema.cpp) none of those calls is still running, so
\* none can put another move behind the stop command.
OverruledCallsAreOver ==
  \A w \in Workers : InCall(w) => overruled < job[w].callNo

\* After a cancel has been asked for, execute_step sends at most the one
\* move that follows its 250 ms rest before it notices, whatever stoppers
\* and resets do to cancel_sequence meanwhile.
OneMoveAfterCancel == late <= 1

\* The touch points and set points the handlers compute with come from the
\* move of the step they are recorded for, flags and coordinates alike: the
\* wait after the move command (execute_step) outlasts stale telemetry.
StepResultsAreTheirOwn ==
  \A w \in Workers : \A i \in DOMAIN results[w] :
     LET step == <<job[w].n, job[w].call, i>>
     IN /\ results[w][i].probeOf = step /\ results[w][i].conditionOf = step
        /\ results[w][i].coordsOf = step

\* determine_tube_center and determine_tubesheet_z set the home position
\* only while no axis moves.
HomeIsSetAtRest ==
  \A w \in Workers :
     Sequencing(w) /\ pc[w] \in {"sendCmd", "recvCmd"} => ~moving

\* determine_tubesheet_z retracts a fixed distance from the tubesheet it
\* has found (the comment on its last set point), never from elsewhere.
RetractIsFromTubesheet ==
  \A w \in Workers :
     job[w].kind = "determine_tubesheet_z" /\ job[w].call = 4
       => job[w].retract = "tubesheet"

\* is_sequence_in_progress is up only while some execute_sequence call is
\* under way, so whoever polls it in its cancel loop waits for somebody.
FlagHasOwner == isSequenceInProgress => \E w \in Workers : InCall(w)

\* Nothing but an exception out of the call (execute_command parses what
\* get_response returns) leaves is_sequence_in_progress up with nobody to
\* lower it: no refused, failed or cancelled step does, nor the last one.
OnlyExceptionsLeaveItUp ==
  [][FlagHasOwner /\ ~FlagHasOwner'
       => \E w \in Workers : InCall(w) /\ (Throw(w) \/ pc'[w] = "throw")]_vars

\* The engine implements SequenceArbiter: a call begins (the flag goes up)
\* only when none runs, whatever ends it ends it once, and a stop command
\* goes out only over calls that have ended.
RunningCall == IF \E w \in Workers : InCall(w) THEN calls ELSE 0

Arbiter == INSTANCE SequenceArbiter
             WITH running <- RunningCall, begun <- calls, barrier <- overruled

ArbiterSpec == Arbiter!Spec

\* The inductive invariant behind the two properties of stops above, for
\* clients that have one sequence request under way (SequencesQueued):
\* is_sequence_in_progress is up inside every execute_sequence call, so a
\* cancel loop that ends has seen all of them end, and a move sent under a
\* cancel leads to the test that ends its call.
OneSequence ==
  \A v, w \in Workers :
    job[v].kind \in FlagKinds /\ job[w].kind \in FlagKinds => v = w

CallState(w) ==
  /\ InCall(w) =>
       /\ isSequenceInProgress
       /\ job[w].callNo = calls
       /\ overruled < calls
       /\ late > 0 => /\ cancelSequence
                      /\ pc[w] \in {"recvMove", "settle", "readProbe",
                                    "readCondition", "readAbort", "judge"}
  /\ InCall(w) \/ pc[w] \in {"clear", "raise", "reset"} => Sequencing(w)
  /\ pc[w] = "raise" => late = 0
  /\ job[w].passed <= calls
  /\ pc[w] = "sendStop" =>
       \A v \in Workers : InCall(v) => job[w].passed < calls

SequenceInv ==
  /\ OneSequence
  /\ overruled <= calls
  /\ late <= 1
  /\ \A w \in Workers : CallState(w)

\* A stop request gets its command out to the RTU, whatever sequence it has
\* to cancel first: no stop waits for ever.  Not so once an exception has left
\* the flag up, or a thread may be waiting for an answer another has read.
WaitsToStop(w) ==
  job[w].kind \in StopKinds /\ pc[w] \in {"test", "raiseCancel"}
StopIsSent ==
  []<>(~FlagHasOwner \/ shared \/ \A w \in Workers : ~WaitsToStop(w))

\* Every request is answered: no sequence polls for ever, with the same
\* exceptions.
RequestsAreAnswered ==
  \A w \in Workers :
    pc[w] # "idle" ~> pc[w] = "idle" \/ ~FlagHasOwner \/ shared

=============================================================================
