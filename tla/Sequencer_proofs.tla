--------------------------- MODULE Sequencer_proofs ---------------------------
(***************************************************************************)
(* Theorems about Sequencer, for every set of workers, every choice of     *)
(* requests and every bound.                                               *)
(***************************************************************************)
EXTENDS Sequencer, FiniteSetTheorems, TLAPS

USE DEF workerVars, flagVars, linkVars, rtuVars, historyVars

-----------------------------------------------------------------------------
(* Types                                                                   *)

\* The parts of TypeOK that the helpers below establish.
WorkersOK ==
  /\ pc \in [Workers -> Pcs]
  /\ job \in [Workers -> Jobs]
  /\ results \in [Workers -> Seq(Results)]
  /\ seen \in [Workers -> Readings]

LinkOK ==
  /\ linkUp \in BOOLEAN
  /\ cmdQ \in Seq(Commands) /\ respQ \in Seq(Responses)
  /\ isConnected \in BOOLEAN /\ leftover \in Seq(Responses)
  /\ reading \subseteq Workers /\ shared \in BOOLEAN

LEMMA EmptySeq == ASSUME NEW S PROVE <<>> \in Seq(S)
  OBVIOUS

LEMMA PartOfSeq ==
  ASSUME NEW S, NEW s \in Seq(S), NEW i \in 1 .. Len(s) + 1,
         NEW j \in 0 .. Len(s)
  PROVE  SubSeq(s, i, j) \in Seq(S)
  OBVIOUS

LEMMA NoReadingType == NoReading \in Readings
  BY DEF NoReading, NoStep, Readings, StepIds

\* Closing the session leaves the worker's variables well typed.
LEMMA DoneType ==
  ASSUME WorkersOK, NEW w \in Workers, Done(w) PROVE WorkersOK'
  <1>1. NoJob \in Jobs
    BY DEF NoJob, NewJob, Jobs, Kinds
  <1>2. "idle" \in Pcs
    BY DEF Pcs
  <1> QED
    BY <1>1, <1>2, NoReadingType, EmptySeq DEF WorkersOK, Done, Goto

LEMMA NextCallJob ==
  ASSUME NEW j \in Jobs, NEW r \in {"garbage", "tubesheet"}
  PROVE  [j EXCEPT !.call = j.call + 1, !.idx = 1, !.retract = r] \in Jobs
  <1>1. j.call + 1 \in Nat
    BY DEF Jobs
  <1> QED
    BY <1>1 DEF Jobs

LEMMA JobNumbers ==
  ASSUME NEW j \in Jobs, NEW n \in Nat
  PROVE  /\ [j EXCEPT !.idx = n] \in Jobs
         /\ [j EXCEPT !.callNo = n] \in Jobs
         /\ [j EXCEPT !.passed = n] \in Jobs
         /\ j.idx + 1 \in Nat
  BY DEF Jobs

\* Starting the next execute_sequence call of a handler does, too.
LEMMA CallType ==
  ASSUME WorkersOK, NEW w \in Workers,
         NEW r \in {"garbage", "tubesheet"}, Call(w, r)
  PROVE  WorkersOK'
  <1>1. [job[w] EXCEPT !.call = job[w].call + 1, !.idx = 1, !.retract = r]
           \in Jobs
    BY NextCallJob DEF WorkersOK
  <1>2. "test" \in Pcs
    BY DEF Pcs
  <1> QED
    BY <1>1, <1>2, NoReadingType, EmptySeq DEF WorkersOK, Call, Goto

LEMMA SetHomeType ==
  ASSUME WorkersOK, NEW w \in Workers, SetHome(w) PROVE WorkersOK'
  BY DEF WorkersOK, SetHome, Goto, Pcs

LEMMA ReturnType ==
  ASSUME WorkersOK, NEW w \in Workers, NEW ok \in BOOLEAN, Return(w, ok)
  PROVE  WorkersOK'
  <1>1. \/ Done(w)
        \/ SetHome(w)
        \/ \E r \in {"garbage", "tubesheet"} : Call(w, r)
    BY DEF Return, TubeCenterReturn, TubesheetReturn
  <1> QED
    BY <1>1, DoneType, SetHomeType, CallType

LEMMA TransmitType ==
  ASSUME WorkersOK, LinkOK, NEW w \in Workers, NEW c \in CommandNames,
         Transmit(w, c)
  PROVE  LinkOK'
  <1>1. [cmd |-> c, step |-> StepOf(w)] \in Commands
    BY DEF WorkersOK, Jobs, Commands, StepOf, StepIds
  <1> QED
    BY <1>1 DEF LinkOK, Transmit

LEMMA TakeAnswerType ==
  ASSUME LinkOK, NEW w \in Workers, TakeAnswer(w) PROVE LinkOK'
  <1>1. CASE w \notin reading
    <2>1. leftover' = Tail(leftover) /\ leftover # <<>> /\ leftover \in Seq(Responses)
      BY <1>1 DEF LinkOK, TakeAnswer
    <2>2. leftover' \in Seq(Responses)
      BY <2>1
    <2>3. UNCHANGED <<linkUp, cmdQ, respQ, isConnected, reading, shared>>
      BY <1>1 DEF TakeAnswer
    <2> QED
      BY <2>2, <2>3 DEF LinkOK
  <1>2. CASE w \in reading
    <2>1. PICK k \in 1 .. Len(respQ) :
            /\ leftover' = SubSeq(respQ, 2, k)
            /\ respQ' = SubSeq(respQ, k + 1, Len(respQ))
      BY <1>2 DEF TakeAnswer
    <2>2. respQ \in Seq(Responses) /\ Len(respQ) \in Nat
      BY DEF LinkOK
    <2>3. leftover' \in Seq(Responses) /\ respQ' \in Seq(Responses)
      BY <2>1, <2>2, PartOfSeq
    <2> QED
      BY <1>2, <2>3 DEF LinkOK, TakeAnswer
  <1> QED
    BY <1>1, <1>2

LEMMA LinkEndsType ==
  ASSUME LinkOK, LinkEnds, isConnected' \in {isConnected, FALSE} PROVE LinkOK'
  <1>1. PICK k \in 0 .. Len(respQ) : respQ' = SubSeq(respQ, 1, k)
    BY DEF LinkEnds
  <1>2. respQ' \in Seq(Responses)
    BY <1>1, PartOfSeq DEF LinkOK
  <1> QED
    BY <1>2, EmptySeq DEF LinkOK, LinkEnds

LEMMA RtuAnswersType ==
  ASSUME LinkOK, cmdQ # <<>>, NEW e \in BOOLEAN,
         RtuAnswers([cmd |-> Head(cmdQ).cmd, error |-> e])
  PROVE  LinkOK'
  <1>1. Head(cmdQ) \in Commands /\ Tail(cmdQ) \in Seq(Commands)
    BY DEF LinkOK
  <1>2. Head(cmdQ).cmd \in CommandNames
    BY <1>1 DEF Commands
  <1>3. [cmd |-> Head(cmdQ).cmd, error |-> e] \in Responses
    BY <1>2 DEF Responses
  <1> QED
    BY <1>1, <1>3 DEF LinkOK, RtuAnswers


\* What every action shows about the parts; the plain variables follow.
RestOK ==
  /\ isSequenceInProgress \in BOOLEAN /\ cancelSequence \in BOOLEAN
  /\ rtu \in Samples /\ moving \in BOOLEAN /\ telemetry \in Samples
  /\ accepted \in Nat /\ sampled \subseteq Workers
  /\ calls \in Nat /\ overruled \in Nat /\ late \in Nat

LEMMA TypeParts ==
  /\ TypeOK <=> WorkersOK /\ LinkOK /\ RestOK
  /\ TypeOK' <=> WorkersOK' /\ LinkOK' /\ RestOK'
  BY DEF TypeOK, WorkersOK, LinkOK, RestOK

LEMMA CommandsKnown ==
  ASSUME NEW w \in Workers
  PROVE  StopCommand(w) \in CommandNames /\ LastCommand(w) \in CommandNames
  BY DEF StopCommand, LastCommand, CommandNames, MoveCommands

\* The cancel loop keeps the types.
LEMMA CancelLoopType ==
  ASSUME TypeOK, NEW w \in Workers, TestInProgress(w) \/ RaiseCancel(w)
  PROVE  TypeOK'
  <1>1. CASE TestInProgress(w)
    <2>1. [job[w] EXCEPT !.passed = calls] \in Jobs
      BY DEF TypeOK, Jobs
    <2>2. job' \in [Workers -> Jobs]
      BY <1>1, <2>1 DEF TypeOK, TestInProgress
    <2>3. pc' \in [Workers -> Pcs]
      BY <1>1 DEF TypeOK, TestInProgress, Goto, Pcs
    <2> QED
      BY <1>1, <2>2, <2>3 DEF TypeOK, TestInProgress
  <1>2. CASE RaiseCancel(w)
    BY <1>2 DEF TypeOK, RaiseCancel, Goto, Pcs
  <1> QED
    BY <1>1, <1>2

\* The steps of execute_sequence and execute_step keep the types.
LEMMA SequenceStepType ==
  ASSUME TypeOK, NEW w \in Workers, SequenceStep(w)
  PROVE  TypeOK'
  <1> USE TypeParts
  <1>1. CASE ClearCancel(w)
    BY <1>1 DEF TypeOK, ClearCancel, Goto, Pcs
  <1>2. CASE RaiseInProgress(w)
    <2>1. [job[w] EXCEPT !.callNo = calls + 1] \in Jobs
      <3>1. calls + 1 \in Nat
        BY DEF TypeOK
      <3> QED
        BY <3>1, JobNumbers DEF TypeOK
    <2>2. job' \in [Workers -> Jobs]
      BY <1>2, <2>1 DEF TypeOK, RaiseInProgress
    <2> QED
      BY <1>2, <2>2 DEF TypeOK, RaiseInProgress, Goto, Pcs, CallPcs
  <1>3. CASE SendHalt(w)
    <2>1. LinkOK'
      BY <1>3, TransmitType DEF SendHalt, CommandNames
    <2> QED
      BY <1>3, <2>1 DEF WorkersOK, RestOK, SendHalt, Goto, Pcs, CallPcs
  <1>4. CASE HaltAnswered(w)
    <2>1. LinkOK'
      BY <1>4, TakeAnswerType DEF HaltAnswered
    <2> QED
      BY <1>4, <2>1 DEF WorkersOK, RestOK, HaltAnswered, Goto, Pcs, CallPcs
  <1>5. CASE SendMove(w)
    <2>1. LinkOK'
      BY <1>5, TransmitType DEF SendMove, CommandNames, MoveCommands
    <2> QED
      BY <1>5, <2>1 DEF WorkersOK, RestOK, SendMove, Goto, Pcs, CallPcs
  <1>6. CASE MoveAccepted(w)
    <2>1. LinkOK'
      BY <1>6, TakeAnswerType DEF MoveAccepted
    <2> QED
      BY <1>6, <2>1 DEF WorkersOK, RestOK, MoveAccepted, Goto, Pcs, CallPcs
  <1>7. CASE MoveRefused(w)
    <2>1. LinkOK' /\ WorkersOK'
      BY <1>7, TakeAnswerType, ReturnType DEF MoveRefused
    <2> QED
      BY <1>7, <2>1 DEF RestOK, MoveRefused
  <1>8. CASE Settle(w)
    BY <1>8 DEF TypeOK, Settle, Goto, Pcs, CallPcs
  <1>9. CASE ReadProbe(w) \/ ReadCondition(w)
    <2>1. /\ [seen[w] EXCEPT !.probe = telemetry.probe,
                             !.probeOf = telemetry.step] \in Readings
          /\ [seen[w] EXCEPT !.onCondition = telemetry.onCondition,
                             !.conditionOf = telemetry.step] \in Readings
      BY DEF TypeOK, Samples, Readings
    <2>2. seen' \in [Workers -> Readings]
      BY <1>9, <2>1 DEF TypeOK, ReadProbe, ReadCondition
    <2> QED
      BY <1>9, <2>2 DEF TypeOK, ReadProbe, ReadCondition, Goto, Pcs, CallPcs
  <1>10. CASE ReadAbort(w)
    <2>1. [seen[w] EXCEPT !.fault = telemetry.fault] \in Readings
      BY DEF TypeOK, Samples, Readings
    <2>2. seen' \in [Workers -> Readings]
      BY <1>10, <2>1, NoReadingType DEF TypeOK, ReadAbort
    <2> QED
      BY <1>10, <2>2 DEF TypeOK, ReadAbort, Goto, Pcs, CallPcs
  <1>11. CASE StepCancelled(w)
    <2>1. WorkersOK'
      BY <1>11, ReturnType DEF StepCancelled
    <2> QED
      BY <1>11, <2>1 DEF LinkOK, RestOK, StepCancelled
  <1>12. CASE StepExecuted(w)
    <2>1. ResultOf(seen[w], telemetry.step) \in Results
      BY DEF TypeOK, Samples, Readings, Results, ResultOf
    <2>2. results' \in [Workers -> Seq(Results)]
      BY <1>12, <2>1 DEF TypeOK, StepExecuted
    <2>3. seen' \in [Workers -> Readings]
      BY <1>12, NoReadingType DEF TypeOK, StepExecuted
    <2> QED
      BY <1>12, <2>2, <2>3 DEF TypeOK, StepExecuted, Goto, Pcs, CallPcs
  <1>13. CASE Rest(w)
    <2>1. [job[w] EXCEPT !.idx = job[w].idx + 1] \in Jobs
      BY JobNumbers DEF TypeOK
    <2>2. job' \in [Workers -> Jobs]
      BY <1>13, <2>1 DEF TypeOK, Rest
    <2> QED
      BY <1>13, <2>2 DEF TypeOK, Rest, Goto, Pcs, CallPcs
  <1>14. CASE LowerInProgress(w)
    BY <1>14 DEF TypeOK, LowerInProgress, Goto, Pcs
  <1>15. CASE ResetCancel(w)
    <2>1. WorkersOK'
      BY <1>15, ReturnType DEF ResetCancel
    <2> QED
      BY <1>15, <2>1 DEF LinkOK, RestOK, ResetCancel
  <1> QED
    BY <1>1, <1>2, <1>3, <1>4, <1>5, <1>6, <1>7, <1>8, <1>9, <1>10, <1>11,
       <1>12, <1>13, <1>14, <1>15 DEF SequenceStep

\* Stops, single commands, exceptions and the connection keep the types.
LEMMA HandlerStepType ==
  ASSUME TypeOK, NEW w \in Workers,
         \/ EnterRecv(w)
         \/ SendStop(w) \/ StopAnswered(w) \/ SendCommand(w)
         \/ CommandAnswered(w) \/ Throw(w) \/ CloseLink(w) \/ OpenLink(w)
  PROVE  TypeOK'
  <1> USE TypeParts
  <1>0. CASE EnterRecv(w)
    BY <1>0 DEF TypeOK, EnterRecv
  <1>1. CASE SendStop(w)
    <2>1. LinkOK'
      BY <1>1, TransmitType, CommandsKnown DEF SendStop
    <2>2. job[w].passed \in Nat
      BY DEF WorkersOK, Jobs
    <2> QED
      BY <1>1, <2>1, <2>2 DEF WorkersOK, RestOK, SendStop, Goto, Pcs,
         ReceivingPcs
  <1>2. CASE StopAnswered(w)
    <2>1. LinkOK'
      BY <1>2, TakeAnswerType DEF StopAnswered
    <2>2. WorkersOK'
      <3>1. CASE Done(w)
        BY <3>1, DoneType
      <3>2. CASE Goto(w, "sendCmd") /\ UNCHANGED <<job, results, seen>>
        BY <3>2 DEF WorkersOK, Goto, Pcs
      <3> QED
        BY <1>2, <3>1, <3>2 DEF StopAnswered
    <2> QED
      BY <1>2, <2>1, <2>2 DEF RestOK, StopAnswered
  <1>3. CASE SendCommand(w)
    <2>1. LinkOK'
      BY <1>3, TransmitType, CommandsKnown DEF SendCommand
    <2> QED
      BY <1>3, <2>1 DEF WorkersOK, RestOK, SendCommand, Goto, Pcs,
         ReceivingPcs
  <1>4. CASE CommandAnswered(w)
    <2>1. LinkOK'
      BY <1>4, TakeAnswerType DEF CommandAnswered
    <2>2. WorkersOK'
      <3>1. CASE \/ Done(w)
                 \/ Call(w, "tubesheet")
        BY <3>1, DoneType, CallType
      <3>2. CASE /\ Goto(w, "sendCmd") /\ UNCHANGED <<results, seen>>
                 /\ job' = [job EXCEPT ![w].idx = 2]
        <4>1. [job[w] EXCEPT !.idx = 2] \in Jobs
          BY JobNumbers DEF WorkersOK
        <4> QED
          BY <3>2, <4>1 DEF WorkersOK, Goto, Pcs
      <3> QED
        BY <1>4, <3>1, <3>2 DEF CommandAnswered
    <2>3. isSequenceInProgress' \in BOOLEAN
      BY <1>4 DEF CommandAnswered
    <2> QED
      BY <1>4, <2>1, <2>2, <2>3 DEF RestOK, CommandAnswered
  <1>5. CASE Throw(w)
    <2>1. WorkersOK'
      BY <1>5, DoneType DEF Throw
    <2>2. LinkOK'
      BY <1>5, TakeAnswerType DEF Throw, LinkOK
    <2> QED
      BY <1>5, <2>1, <2>2 DEF RestOK, Throw
  <1>6. CASE CloseLink(w)
    <2>1. LinkOK'
      BY <1>6, LinkEndsType DEF CloseLink
    <2> QED
      BY <1>6, <2>1 DEF WorkersOK, RestOK, CloseLink, Goto, Pcs
  <1>7. CASE OpenLink(w)
    <2>1. CASE Done(w) /\ UNCHANGED <<linkUp, isConnected, respQ, reading>>
      <3>1. WorkersOK'
        BY <2>1, DoneType
      <3> QED
        BY <1>7, <2>1, <3>1 DEF LinkOK, RestOK, OpenLink
    <2>2. CASE /\ linkUp' = TRUE /\ isConnected' = TRUE
               /\ respQ' = <<>> /\ reading' = {}
               /\ UNCHANGED <<job, results, seen>>
               /\ pc' = [v \in Workers |-> IF v = w THEN "sendCmd"
                           ELSE IF v \in reading THEN "throw" ELSE pc[v]]
      <3>1. UNCHANGED <<cmdQ, leftover, shared>>
        BY <1>7 DEF OpenLink
      <3>2. pc' \in [Workers -> Pcs]
        BY <2>2 DEF WorkersOK, Pcs
      <3>3. LinkOK'
        BY <2>2, <3>1, EmptySeq DEF LinkOK
      <3> QED
        BY <1>7, <2>2, <3>2, <3>3 DEF WorkersOK, RestOK, OpenLink
    <2> QED
      BY <1>7, <2>1, <2>2 DEF OpenLink
  <1> QED
    BY <1>0, <1>1, <1>2, <1>3, <1>4, <1>5, <1>6, <1>7

LEMMA EnvironmentType == ASSUME TypeOK, Environment PROVE TypeOK'
  <1> USE TypeParts
  <1>1. CASE RtuStopsAxes
    <2>1. LinkOK'
      BY <1>1, RtuAnswersType DEF RtuStopsAxes
    <2> QED
      BY <1>1, <2>1 DEF WorkersOK, RestOK, RtuStopsAxes
  <1>2. CASE RtuAcceptsMove
    <2>1. LinkOK'
      BY <1>2, RtuAnswersType DEF RtuAcceptsMove
    <2>2. Head(cmdQ) \in Commands
      BY <1>2 DEF LinkOK, RtuAcceptsMove
    <2>3. rtu' \in Samples
      BY <1>2, <2>2 DEF RtuAcceptsMove, Commands, NoSample, NoStep, Samples,
         StepIds
    <2> QED
      BY <1>2, <2>1, <2>3 DEF WorkersOK, RestOK, RtuAcceptsMove
  <1>3. CASE RtuRefusesMove
    <2>1. LinkOK'
      BY <1>3, RtuAnswersType DEF RtuRefusesMove
    <2> QED
      BY <1>3, <2>1 DEF WorkersOK, RestOK, RtuRefusesMove
  <1>4. CASE RtuDoesOther
    <2>1. LinkOK'
      <3>1. PICK e \in BOOLEAN :
              RtuAnswers([cmd |-> Head(cmdQ).cmd, error |-> e])
        BY <1>4 DEF RtuDoesOther
      <3> QED
        BY <1>4, <3>1, RtuAnswersType DEF RtuDoesOther
    <2> QED
      BY <1>4, <2>1 DEF WorkersOK, RestOK, RtuDoesOther
  <1>5. CASE RtuEndsMove
    BY <1>5 DEF TypeOK, RtuEndsMove, Samples
  <1>6. CASE RtuFaults
    BY <1>6 DEF TypeOK, RtuFaults, Samples
  <1>7. CASE TelemetryArrives
    BY <1>7 DEF TypeOK, TelemetryArrives
  <1>8. CASE LinkDrops
    <2>1. LinkOK'
      BY <1>8, LinkEndsType DEF LinkDrops
    <2> QED
      BY <1>8, <2>1 DEF WorkersOK, RestOK, LinkDrops
  <1> QED
    BY <1>1, <1>2, <1>3, <1>4, <1>5, <1>6, <1>7, <1>8
       DEF Environment, RtuHandles

LEMMA AcceptType ==
  ASSUME TypeOK, NEW w \in Workers, NEW k \in Requests, Accept(w, k)
  PROVE  TypeOK'
  <1>1. NewJob(k, accepted + 1) \in Jobs
    BY RequestsAreKinds DEF TypeOK, NewJob, Jobs
  <1>2. FirstPc(k) \in Pcs
    BY DEF FirstPc, Pcs
  <1> QED
    BY <1>1, <1>2 DEF TypeOK, Accept, Goto

LEMMA InitType == Init => TypeOK
  <1> SUFFICES ASSUME Init PROVE TypeOK
    OBVIOUS
  <1>1. NoJob \in Jobs
    BY DEF NoJob, NewJob, Jobs, Kinds
  <1>2. NoSample \in Samples
    BY DEF NoSample, NoStep, Samples, StepIds
  <1> QED
    BY <1>1, <1>2, NoReadingType, EmptySeq DEF Init, TypeOK, Pcs

LEMMA NextType == TypeOK /\ [Next]_vars => TypeOK'
  <1> SUFFICES ASSUME TypeOK, [Next]_vars PROVE TypeOK'
    OBVIOUS
  <1>1. CASE UNCHANGED vars
    BY <1>1 DEF TypeOK, vars
  <1>2. CASE Environment
    BY <1>2, EnvironmentType
  <1>3. ASSUME NEW w \in Workers, NEW k \in Requests, Accept(w, k)
        PROVE  TypeOK'
    BY <1>3, AcceptType
  <1>4. ASSUME NEW w \in Workers, WorkerStep(w) PROVE TypeOK'
    BY <1>4, CancelLoopType, SequenceStepType, HandlerStepType
       DEF WorkerStep
  <1> QED
    BY <1>1, <1>2, <1>3, <1>4 DEF Next

\* Every reachable state is well typed, whatever the requests and bounds.
THEOREM TypeCorrect == Spec => []TypeOK
  <1>1. Init => TypeOK
    BY InitType
  <1>2. TypeOK /\ [Next]_vars => TypeOK'
    BY NextType
  <1> QED
    BY <1>1, <1>2, PTL DEF Spec

-----------------------------------------------------------------------------
(* Stops and sequences                                                     *)

\* What leaving an execute_sequence call, or the handler, does to a worker.
Leaves(w) ==
  /\ \E p \in {"idle", "test", "sendCmd"} : pc' = [pc EXCEPT ![w] = p]
  /\ \A v \in Workers \ {w} : job'[v] = job[v]
  /\ job'[w].kind \in {job[w].kind, "none"}
  /\ job'[w].passed \in {0, job[w].passed}

LEMMA DoneLeaves ==
  ASSUME TypeOK, NEW w \in Workers, Done(w) PROVE Leaves(w)
  BY DEF TypeOK, Done, Goto, Leaves, NoJob, NewJob

LEMMA CallLeaves ==
  ASSUME TypeOK, NEW w \in Workers, NEW r \in {"garbage", "tubesheet"},
         Call(w, r)
  PROVE  Leaves(w)
  BY DEF TypeOK, Jobs, Call, Goto, Leaves

LEMMA CommandLeaves ==
  ASSUME TypeOK, NEW w \in Workers, CommandAnswered(w) PROVE Leaves(w)
  <1>1. CASE /\ Goto(w, "sendCmd")
             /\ job' = [job EXCEPT ![w].idx = 2]
    BY <1>1 DEF TypeOK, Jobs, Goto, Leaves
  <1> QED
    BY <1>1, DoneLeaves, CallLeaves DEF CommandAnswered

LEMMA ReturnLeaves ==
  ASSUME TypeOK, NEW w \in Workers, NEW ok \in BOOLEAN, Return(w, ok)
  PROVE  Leaves(w)
  <1>1. \/ Done(w)
        \/ SetHome(w)
        \/ \E r \in {"garbage", "tubesheet"} : Call(w, r)
    BY DEF Return, TubeCenterReturn, TubesheetReturn
  <1>2. CASE SetHome(w)
    BY <1>2 DEF SetHome, Goto, Leaves
  <1> QED
    BY <1>1, <1>2, DoneLeaves, CallLeaves

\* Leaving lowers nobody else's flag: a worker outside a call keeps the
\* flags, one inside is alone in it.
LEMMA LeavingKeepsInv ==
  ASSUME TypeOK, SequenceInv, NEW w \in Workers, Leaves(w),
         UNCHANGED <<calls, overruled>>, late' \in {late, 0},
         isSequenceInProgress' # isSequenceInProgress
           => InCall(w) \/ job[w].kind \in FlagKinds,
         cancelSequence' # cancelSequence \/ late' # late => Sequencing(w)
  PROVE  SequenceInv'
  <1>1. \A v \in Workers \ {w} : pc'[v] = pc[v] /\ job'[v] = job[v]
    BY DEF TypeOK, Leaves
  <1>2. pc'[w] \in {"idle", "test", "sendCmd"}
    BY DEF TypeOK, Leaves
  <1>3. OneSequence'
    BY <1>1 DEF SequenceInv, OneSequence, Leaves, SequenceKinds, FlagKinds
  <1>4. overruled' <= calls' /\ late' <= 1
    BY DEF SequenceInv, TypeOK
  <1>5. ASSUME NEW v \in Workers PROVE CallState(v)'
    <2>1. CASE v = w
      BY <1>2, <2>1 DEF SequenceInv, CallState, InCall, CallPcs, Leaves,
         TypeOK
    <2>2. CASE v # w
      <3>1. pc'[v] = pc[v] /\ job'[v] = job[v] /\ CallState(v)
        BY <1>1, <2>2 DEF SequenceInv
      <3>2. InCall(v) => /\ ~Sequencing(w) /\ ~InCall(w)
                         /\ job[w].kind \notin FlagKinds
        BY <2>2 DEF SequenceInv, OneSequence, CallState, Sequencing, FlagKinds
      <3>3. \A u \in Workers : InCall(u)' => InCall(u)
        BY <1>1, <1>2 DEF InCall, CallPcs
      <3> QED
        BY <3>1, <3>2, <3>3 DEF CallState, InCall, Sequencing, TypeOK
    <2> QED
      BY <2>1, <2>2
  <1> QED
    BY <1>3, <1>4, <1>5 DEF SequenceInv

\* A step inside a call keeps the invariant if a move sent under a cancel
\* leaves the worker on its way to the test.
LEMMA WithinCall ==
  ASSUME TypeOK, SequenceInv, NEW w \in Workers, InCall(w),
         NEW p \in CallPcs, pc' = [pc EXCEPT ![w] = p],
         \A v \in Workers \ {w} : job'[v] = job[v],
         job'[w].kind = job[w].kind, job'[w].passed = job[w].passed,
         job'[w].callNo = job[w].callNo,
         UNCHANGED <<flagVars, calls, overruled>>,
         late' <= 1, late' \in Nat,
         late' > 0 => /\ cancelSequence
                      /\ p \in {"recvMove", "settle", "readProbe",
                                "readCondition", "readAbort", "judge"}
  PROVE  SequenceInv'
  <1>1. pc'[w] = p /\ \A v \in Workers \ {w} : pc'[v] = pc[v]
    BY DEF TypeOK
  <1>2. \A v \in Workers : Sequencing(v)' <=> Sequencing(v)
    BY DEF Sequencing
  <1>3. \A v \in Workers : InCall(v) => v = w
    BY DEF SequenceInv, CallState, OneSequence, Sequencing, FlagKinds
  <1>4. \A v \in Workers : InCall(v)' => v = w
    BY <1>1, <1>3 DEF InCall
  <1>5. ASSUME NEW v \in Workers PROVE CallState(v)'
    <2>1. CASE v = w
      <3>1. /\ InCall(w)' /\ isSequenceInProgress' /\ Sequencing(w)'
            /\ job'[w].callNo = calls' /\ overruled' < calls'
            /\ job'[w].passed <= calls'
        BY <1>1, <1>2 DEF SequenceInv, CallState, InCall
      <3>2. pc'[w] # "raise" /\ pc'[w] # "sendStop"
        BY <1>1 DEF CallPcs
      <3> QED
        BY <1>1, <2>1, <3>1, <3>2 DEF CallState
    <2>2. CASE v # w
      <3>1. pc'[v] = pc[v] /\ job'[v] = job[v] /\ CallState(v)
        BY <1>1, <2>2 DEF SequenceInv
      <3>2. pc[v] # "raise" /\ ~InCall(v)'
        BY <1>4, <2>2
           DEF SequenceInv, OneSequence, CallState, Sequencing, FlagKinds
      <3> QED
        BY <1>2, <1>3, <1>4, <3>1, <3>2 DEF CallState, InCall
    <2> QED
      BY <2>1, <2>2
  <1> QED
    BY <1>2, <1>5 DEF SequenceInv, OneSequence

\* So does a step of a worker that stays outside every call and is at none
\* of the places CallState speaks of.
LEMMA OutsideCall ==
  ASSUME TypeOK, SequenceInv, NEW w \in Workers, ~InCall(w),
         NEW p \in {"idle", "test", "raiseCancel", "sendCmd", "recvCmd",
                    "recvStop", "closeLink", "openLink", "throw"},
         pc' = [pc EXCEPT ![w] = p],
         UNCHANGED <<job, isSequenceInProgress, calls, late>>,
         cancelSequence => cancelSequence',
         overruled' <= calls,
         \A v \in Workers : InCall(v) => overruled' < calls
  PROVE  SequenceInv'
  <1>1. pc'[w] = p /\ \A v \in Workers \ {w} : pc'[v] = pc[v]
    BY DEF TypeOK
  <1>2. \A v \in Workers : InCall(v)' <=> InCall(v)
    BY <1>1 DEF InCall, CallPcs
  <1>3. ASSUME NEW v \in Workers PROVE CallState(v)'
    <2>1. CASE v = w
      <3>1. job'[w].passed <= calls' /\ ~InCall(w)'
        BY <1>2 DEF SequenceInv, CallState
      <3>2. pc'[w] \notin {"clear", "raise", "reset", "sendStop"}
        BY <1>1
      <3> QED
        BY <2>1, <3>1, <3>2 DEF CallState
    <2>2. CASE v # w
      BY <1>1, <1>2, <2>2
         DEF SequenceInv, CallState, InCall, Sequencing
    <2> QED
      BY <2>1, <2>2
  <1> QED
    BY <1>3 DEF SequenceInv, OneSequence, Sequencing

\* The entry of a call: the cancel loop, the reset and the raised flag.
LEMMA TestKeepsInv ==
  ASSUME TypeOK, SequenceInv, NEW w \in Workers, TestInProgress(w)
  PROVE  SequenceInv'
  <1>1. CASE isSequenceInProgress
    <2>1. ~InCall(w)
      BY DEF TestInProgress, InCall, CallPcs
    <2> QED
      BY <1>1, <2>1, OutsideCall
         DEF TestInProgress, Goto, SequenceInv, CallState
  <1>2. CASE ~isSequenceInProgress
    <2>1. \A v \in Workers : ~InCall(v)
      BY <1>2 DEF SequenceInv, CallState
    <2>2. /\ pc'[w] = IF Sequencing(w) THEN "clear" ELSE "sendStop"
          /\ \A v \in Workers \ {w} : pc'[v] = pc[v]
      BY <1>2 DEF TypeOK, TestInProgress, Goto
    <2>3. /\ job'[w].passed = calls /\ job'[w].kind = job[w].kind
          /\ \A v \in Workers \ {w} : job'[v] = job[v]
      BY <1>2 DEF TypeOK, Jobs, TestInProgress
    <2>4. \A v \in Workers : ~InCall(v)'
      BY <2>1, <2>2 DEF InCall, CallPcs
    <2>5. ASSUME NEW v \in Workers PROVE CallState(v)'
      <3>1. CASE v = w
        BY <2>2, <2>3, <2>4, <3>1 DEF CallState, Sequencing, TestInProgress,
           TypeOK
      <3>2. CASE v # w
        BY <2>2, <2>3, <2>4, <3>2
           DEF TestInProgress, SequenceInv, CallState, Sequencing
      <3> QED
        BY <3>1, <3>2
    <2> QED
      BY <2>3, <2>5
         DEF TestInProgress, SequenceInv, OneSequence, Sequencing
  <1> QED
    BY <1>1, <1>2

LEMMA EntryKeepsInv ==
  ASSUME TypeOK, SequenceInv, NEW w \in Workers,
         ClearCancel(w) \/ RaiseInProgress(w)
  PROVE  SequenceInv'
  <1>1. Sequencing(w)
    BY DEF ClearCancel, RaiseInProgress, SequenceInv, CallState
  <1>2. \A v \in Workers : ~InCall(v)
    <2>1. ~InCall(w)
      BY DEF ClearCancel, RaiseInProgress, InCall, CallPcs
    <2> QED
      BY <1>1, <2>1
         DEF SequenceInv, OneSequence, CallState, Sequencing, FlagKinds
  <1>3. CASE ClearCancel(w)
    <2>1. pc'[w] = "raise" /\ \A v \in Workers \ {w} : pc'[v] = pc[v]
      BY <1>3 DEF TypeOK, ClearCancel, Goto
    <2>2. \A v \in Workers : ~InCall(v)'
      BY <1>2, <2>1 DEF InCall, CallPcs
    <2>3. ASSUME NEW v \in Workers PROVE CallState(v)'
      BY <1>1, <1>3, <2>1, <2>2
         DEF ClearCancel, SequenceInv, CallState, Sequencing
    <2> QED
      BY <1>3, <2>3
         DEF ClearCancel, SequenceInv, OneSequence, Sequencing
  <1>4. CASE RaiseInProgress(w)
    <2>1. pc'[w] = "sendHalt" /\ \A v \in Workers \ {w} : pc'[v] = pc[v]
      BY <1>4 DEF TypeOK, RaiseInProgress, Goto
    <2>2. /\ job'[w].callNo = calls + 1 /\ job'[w].kind = job[w].kind
          /\ job'[w].passed = job[w].passed
          /\ \A v \in Workers \ {w} : job'[v] = job[v]
      BY <1>4 DEF TypeOK, Jobs, RaiseInProgress
    <2>3. \A v \in Workers : InCall(v)' => v = w
      BY <1>2, <2>1 DEF InCall
    <2>4. /\ late = 0
          /\ \A v \in Workers : /\ job'[v].passed < calls + 1
                               /\ job'[v].passed <= calls + 1
      <3>1. late = 0
        BY <1>4 DEF RaiseInProgress, SequenceInv, CallState
      <3>2. ASSUME NEW v \in Workers
            PROVE  job[v].passed \in Nat /\ job[v].passed <= calls
        BY DEF SequenceInv, CallState, TypeOK, Jobs
      <3>3. \A v \in Workers : job'[v].passed = job[v].passed
        BY <2>2
      <3> QED
        <4>1. calls \in Nat
          BY DEF TypeOK
        <4> QED
          BY <4>1, <3>1, <3>2, <3>3
    <2>5. ASSUME NEW v \in Workers PROVE CallState(v)'
      <3>1. calls' = calls + 1 /\ overruled' < calls'
            /\ isSequenceInProgress' /\ late' = 0
        BY <1>4, <2>4 DEF RaiseInProgress, SequenceInv, TypeOK
      <3>2. CASE v = w
        BY <1>1, <2>1, <2>2, <2>4, <3>1, <3>2 DEF CallState, Sequencing,
           TypeOK
      <3>3. CASE v # w
        <4>1. pc'[v] = pc[v] /\ job'[v] = job[v] /\ CallState(v)
          BY <2>1, <2>2, <3>3 DEF SequenceInv
        <4>2. ~InCall(v)' /\ job'[v].passed < calls'
          BY <2>3, <2>4, <3>1, <3>3
        <4> QED
          BY <3>1, <4>1, <4>2, <2>4 DEF CallState, InCall, Sequencing, TypeOK,
             Jobs
      <3> QED
        BY <3>2, <3>3
    <2> QED
      BY <1>4, <2>2, <2>5
         DEF RaiseInProgress, SequenceInv, OneSequence, Sequencing, TypeOK
  <1> QED
    BY <1>3, <1>4

\* A step after which no worker is inside a call that was not, and which
\* changes neither a job nor the flags: the environment's, and closing.
LEMMA NobodyEnters ==
  ASSUME TypeOK, SequenceInv, UNCHANGED <<job, flagVars, historyVars>>,
         \A v \in Workers : pc'[v] \in {pc[v], "throw", "openLink", "sendCmd"}
  PROVE  SequenceInv'
  <1>1. \A v \in Workers : InCall(v)' => InCall(v) /\ pc'[v] = pc[v]
    BY DEF InCall, CallPcs
  <1>2. ASSUME NEW v \in Workers PROVE CallState(v)'
    BY <1>1 DEF SequenceInv, CallState, Sequencing
  <1> QED
    BY <1>2 DEF SequenceInv, OneSequence, Sequencing

LEMMA SequenceStepKeepsInv ==
  ASSUME TypeOK, SequenceInv, NEW w \in Workers, SequenceStep(w)
  PROVE  SequenceInv'
  <1> USE DEF Goto
  <1>0. /\ late \in Nat /\ late <= 1
        /\ InCall(w) => (late > 0 => /\ cancelSequence
                                     /\ pc[w] \in {"recvMove", "settle",
                                          "readProbe", "readCondition",
                                          "readAbort", "judge"})
    BY DEF TypeOK, SequenceInv, CallState
  <1>1. CASE ClearCancel(w) \/ RaiseInProgress(w)
    BY <1>1, EntryKeepsInv
  <1>2. CASE SendHalt(w) \/ HaltAnswered(w)
    BY <1>0, <1>2, WithinCall DEF SendHalt, HaltAnswered, InCall, CallPcs
  <1>3. CASE SendMove(w)
    <2>1. InCall(w) /\ late = 0
      BY <1>0, <1>3 DEF SendMove, InCall, CallPcs
    <2>2. late' \in Nat /\ late' <= 1 /\ (late' > 0 => cancelSequence)
      BY <1>3, <2>1 DEF SendMove
    <2> QED
      BY <1>3, <2>1, <2>2, WithinCall DEF SendMove, CallPcs
  <1>4. CASE MoveAccepted(w) \/ Settle(w) \/ ReadProbe(w) \/ ReadCondition(w)
    BY <1>0, <1>4, WithinCall
       DEF MoveAccepted, Settle, ReadProbe, ReadCondition, InCall, CallPcs
  <1>5. CASE ReadAbort(w)
    <2>1. InCall(w) /\ "judge" \in CallPcs /\ "readProbe" \in CallPcs
      BY <1>5 DEF ReadAbort, InCall, CallPcs
    <2>2. PICK p \in {"judge", "readProbe"} : pc' = [pc EXCEPT ![w] = p]
      BY <1>5 DEF ReadAbort
    <2>3. UNCHANGED <<job, flagVars, calls, overruled, late>>
      BY <1>5 DEF ReadAbort
    <2>4. p \in CallPcs
      BY <2>1
    <2>5. /\ late' \in Nat /\ late' <= 1
          /\ late' > 0 => /\ cancelSequence
                          /\ p \in {"recvMove", "settle", "readProbe",
                                    "readCondition", "readAbort", "judge"}
      BY <1>0, <2>1, <2>2, <2>3
    <2>6. /\ \A v \in Workers \ {w} : job'[v] = job[v]
          /\ job'[w].kind = job[w].kind /\ job'[w].passed = job[w].passed
          /\ job'[w].callNo = job[w].callNo
      BY <2>3
    <2> QED
      BY <2>1, <2>2, <2>3, <2>4, <2>5, <2>6, WithinCall
  <1>6. CASE StepExecuted(w)
    <2>1. InCall(w) /\ late = 0
      BY <1>0, <1>6 DEF StepExecuted, InCall, CallPcs
    <2>2. /\ pc' = [pc EXCEPT ![w] = "rest"] /\ "rest" \in CallPcs
          /\ UNCHANGED <<job, flagVars, calls, overruled, late>>
      BY <1>6 DEF StepExecuted, CallPcs
    <2>3. late' \in Nat /\ late' <= 1 /\ ~(late' > 0)
      BY <2>1, <2>2
    <2> QED
      BY <2>1, <2>2, <2>3, WithinCall
  <1>7. CASE Rest(w)
    <2>1. InCall(w) /\ late = 0
      BY <1>0, <1>7 DEF Rest, InCall, CallPcs
    <2>2. PICK p \in {"sendMove", "lower"} : pc' = [pc EXCEPT ![w] = p]
      BY <1>7 DEF Rest
    <2>3. /\ \A v \in Workers \ {w} : job'[v] = job[v]
          /\ job'[w].kind = job[w].kind /\ job'[w].passed = job[w].passed
          /\ job'[w].callNo = job[w].callNo
      BY <1>7 DEF Rest, TypeOK, Jobs
    <2>4. UNCHANGED <<flagVars, calls, overruled, late>>
      BY <1>7 DEF Rest
    <2>5. p \in CallPcs
      BY DEF CallPcs
    <2>6. late' \in Nat /\ late' <= 1 /\ ~(late' > 0)
      BY <2>1, <2>4
    <2> QED
      BY <2>1, <2>2, <2>3, <2>4, <2>5, <2>6, WithinCall
  <1>8. CASE MoveRefused(w)
    <2>1. Leaves(w) /\ InCall(w)
      BY <1>8, ReturnLeaves DEF MoveRefused, InCall, CallPcs
    <2> QED
      BY <1>8, <2>1, LeavingKeepsInv DEF MoveRefused
  <1>9. CASE StepCancelled(w)
    <2>1. Leaves(w) /\ InCall(w)
      BY <1>9, ReturnLeaves DEF StepCancelled, InCall, CallPcs
    <2> QED
      BY <1>9, <2>1, LeavingKeepsInv DEF StepCancelled
  <1>10. CASE LowerInProgress(w)
    <2>1. InCall(w) /\ late = 0 /\ Sequencing(w)
      BY <1>0, <1>10
         DEF LowerInProgress, InCall, CallPcs, SequenceInv, CallState
    <2>2. pc'[w] = "reset" /\ \A v \in Workers \ {w} : pc'[v] = pc[v]
      BY <1>10 DEF LowerInProgress, TypeOK
    <2>3. \A v \in Workers : ~InCall(v)'
      BY <2>1, <2>2
         DEF InCall, CallPcs, SequenceInv, OneSequence, CallState, Sequencing,
             FlagKinds
    <2>4. ASSUME NEW v \in Workers PROVE CallState(v)'
      BY <1>10, <2>1, <2>2, <2>3
         DEF LowerInProgress, SequenceInv, CallState, Sequencing
    <2> QED
      BY <1>10, <2>4
         DEF LowerInProgress, SequenceInv, OneSequence, Sequencing
  <1>11. CASE ResetCancel(w)
    <2>1. Leaves(w) /\ Sequencing(w)
      BY <1>11, ReturnLeaves DEF ResetCancel, SequenceInv, CallState
    <2> QED
      BY <1>11, <2>1, LeavingKeepsInv DEF ResetCancel
  <1> QED
    BY <1>1, <1>2, <1>3, <1>4, <1>5, <1>6, <1>7, <1>8, <1>9, <1>10, <1>11
       DEF SequenceStep

LEMMA HandlerStepKeepsInv ==
  ASSUME TypeOK, SequenceInv, NEW w \in Workers,
         \/ RaiseCancel(w) \/ SendStop(w) \/ StopAnswered(w)
         \/ SendCommand(w) \/ CommandAnswered(w) \/ Throw(w)
         \/ CloseLink(w) \/ OpenLink(w) \/ EnterRecv(w)
  PROVE  SequenceInv'
  <1> USE DEF Goto
  <1>0. /\ overruled <= calls
        /\ \A v \in Workers : InCall(v) => overruled < calls
    BY DEF SequenceInv, CallState
  <1>1. CASE RaiseCancel(w)
    BY <1>0, <1>1, OutsideCall DEF RaiseCancel, InCall, CallPcs
  <1>2. CASE SendStop(w)
    <2>1. /\ job[w].passed <= calls
          /\ \A v \in Workers : InCall(v) => job[w].passed < calls
      BY <1>2 DEF SendStop, SequenceInv, CallState
    <2> QED
      BY <1>0, <1>2, <2>1, OutsideCall DEF SendStop, InCall, CallPcs
  <1>3. CASE SendCommand(w)
    BY <1>0, <1>3, OutsideCall DEF SendCommand, InCall, CallPcs
  <1>4. CASE StopAnswered(w) /\ Goto(w, "sendCmd") /\ UNCHANGED job
    BY <1>0, <1>4, OutsideCall DEF StopAnswered, InCall, CallPcs
  <1>5. CASE StopAnswered(w) /\ Done(w)
    BY <1>5, DoneLeaves, LeavingKeepsInv DEF StopAnswered
  <1>6. CASE CommandAnswered(w)
    <2>1. Leaves(w)
      BY <1>6, CommandLeaves
    <2>2. isSequenceInProgress' # isSequenceInProgress
            => job[w].kind \in FlagKinds
      BY <1>6 DEF CommandAnswered, FlagKinds, TypeOK
    <2> QED
      BY <1>6, <2>1, <2>2, LeavingKeepsInv DEF CommandAnswered
  <1>7. CASE Throw(w)
    BY <1>7, DoneLeaves, LeavingKeepsInv DEF Throw
  <1>8. CASE CloseLink(w)
    <2>1. \A v \in Workers : pc'[v] \in {pc[v], "throw", "openLink", "sendCmd"}
      BY <1>8 DEF CloseLink, TypeOK
    <2> QED
      BY <1>8, <2>1, NobodyEnters DEF CloseLink
  <1>9. CASE OpenLink(w) /\ ~Done(w)
    <2>1. \A v \in Workers : pc'[v] \in {pc[v], "throw", "openLink", "sendCmd"}
      BY <1>9 DEF OpenLink
    <2> QED
      BY <1>9, <2>1, NobodyEnters DEF OpenLink
  <1>10. CASE OpenLink(w) /\ Done(w)
    BY <1>10, DoneLeaves, LeavingKeepsInv DEF OpenLink
  <1>11. CASE EnterRecv(w)
    BY <1>11, NobodyEnters DEF EnterRecv
  <1> QED
    BY <1>1, <1>2, <1>3, <1>4, <1>5, <1>6, <1>7, <1>8, <1>9, <1>10, <1>11
       DEF StopAnswered

LEMMA EnvironmentKeepsInv ==
  ASSUME TypeOK, SequenceInv, Environment PROVE SequenceInv'
  <1>1. UNCHANGED <<job, flagVars, historyVars>>
    BY DEF Environment, RtuHandles, RtuStopsAxes, RtuAcceptsMove,
       RtuRefusesMove, RtuDoesOther, RtuEndsMove, RtuFaults,
       TelemetryArrives, LinkDrops
  <1>2. pc' = pc
    BY DEF Environment, RtuHandles, RtuStopsAxes, RtuAcceptsMove,
       RtuRefusesMove, RtuDoesOther, RtuEndsMove, RtuFaults,
       TelemetryArrives, LinkDrops
  <1> QED
    BY <1>1, <1>2, NobodyEnters

\* With one sequence request under way a new request disturbs nothing.
LEMMA AcceptKeepsInv ==
  ASSUME TypeOK, SequenceInv, SequencesQueued,
         NEW w \in Workers, NEW k \in Requests, Accept(w, k)
  PROVE  SequenceInv'
  <1>1. /\ pc'[w] \in {"sendCmd", "closeLink", "test"}
        /\ \A v \in Workers \ {w} : pc'[v] = pc[v]
    BY DEF Accept, Goto, FirstPc, TypeOK
  <1>2. /\ job'[w].kind = k /\ job'[w].passed = 0
        /\ \A v \in Workers \ {w} : job'[v] = job[v]
    BY DEF Accept, NewJob, TypeOK
  <1>3. ~InCall(w) /\ ~InCall(w)'
    BY <1>1 DEF Accept, InCall, CallPcs
  <1>4. OneSequence'
    BY <1>2 DEF Accept, SequenceInv, OneSequence
  <1>5. ASSUME NEW v \in Workers PROVE CallState(v)'
    <2>1. CASE v = w
      BY <1>1, <1>2, <1>3, <2>1 DEF Accept, CallState, TypeOK
    <2>2. CASE v # w
      BY <1>1, <1>2, <1>3, <2>2
         DEF Accept, SequenceInv, CallState, InCall, Sequencing
    <2> QED
      BY <2>1, <2>2
  <1> QED
    BY <1>4, <1>5 DEF Accept, SequenceInv

LEMMA InitInv == Init => SequenceInv
  BY DEF Init, SequenceInv, OneSequence, CallState, InCall, CallPcs,
     Sequencing, SequenceKinds, FlagKinds, NoJob, NewJob

LEMMA NextInv ==
  ASSUME SequencesQueued PROVE TypeOK /\ SequenceInv /\ [Next]_vars
                                 => SequenceInv'
  <1> SUFFICES ASSUME TypeOK, SequenceInv, [Next]_vars PROVE SequenceInv'
    OBVIOUS
  <1>1. CASE UNCHANGED vars
    BY <1>1, NobodyEnters DEF vars
  <1>2. CASE Environment
    BY <1>2, EnvironmentKeepsInv
  <1>3. ASSUME NEW w \in Workers, NEW k \in Requests, Accept(w, k)
        PROVE  SequenceInv'
    BY <1>3, AcceptKeepsInv
  <1>4. ASSUME NEW w \in Workers, WorkerStep(w) PROVE SequenceInv'
    BY <1>4, TestKeepsInv, SequenceStepKeepsInv, HandlerStepKeepsInv
       DEF WorkerStep
  <1> QED
    BY <1>1, <1>2, <1>3, <1>4 DEF Next

\* With one sequence request under way, is_sequence_in_progress is up inside
\* every execute_sequence call and cancel loops end only between calls.
THEOREM SequenceInvariant ==
  ASSUME SequencesQueued PROVE Spec => []SequenceInv
  <1>1. Init => SequenceInv
    BY InitInv
  <1>2. TypeOK /\ SequenceInv /\ [Next]_vars => SequenceInv'
    BY NextInv
  <1> QED
    BY <1>1, <1>2, TypeCorrect, PTL DEF Spec

\* A stop is final: no execute_sequence call begun before its cancel loop
\* ended is running once its command has gone out.
THEOREM StopsAreFinal ==
  ASSUME SequencesQueued PROVE Spec => []OverruledCallsAreOver
  <1>1. SequenceInv => OverruledCallsAreOver
    BY DEF SequenceInv, CallState, OverruledCallsAreOver
  <1> QED
    BY <1>1, SequenceInvariant, PTL

\* A cancelled sequence sends at most one more move.
THEOREM CancelsAreNoticed ==
  ASSUME SequencesQueued PROVE Spec => []OneMoveAfterCancel
  <1>1. SequenceInv => OneMoveAfterCancel
    BY DEF SequenceInv, OneMoveAfterCancel
  <1> QED
    BY <1>1, SequenceInvariant, PTL

-----------------------------------------------------------------------------
(* The engine implements SequenceArbiter                                   *)

ArbiterStep == [Arbiter!Next]_(Arbiter!vars)

\* A step that begins no call and sends no stop either ends the running
\* call or is one the arbiter does not see.
LEMMA NoEntryIsArbiterStep ==
  ASSUME TypeOK, SequenceInv, UNCHANGED <<calls, overruled>>,
         \A v \in Workers : InCall(v)' => InCall(v)
  PROVE  ArbiterStep
  <1>1. CASE \E v \in Workers : InCall(v)'
    BY <1>1 DEF RunningCall, ArbiterStep, Arbiter!vars
  <1>2. CASE ~(\E v \in Workers : InCall(v)') /\ \E v \in Workers : InCall(v)
    <2>1. RunningCall = calls /\ RunningCall' = 0
      BY <1>2 DEF RunningCall
    <2>2. calls # 0
      BY <1>2 DEF SequenceInv, CallState, TypeOK
    <2> QED
      BY <2>1, <2>2 DEF ArbiterStep, Arbiter!Next, Arbiter!End
  <1>3. CASE ~(\E v \in Workers : InCall(v)') /\ ~\E v \in Workers : InCall(v)
    BY <1>3 DEF RunningCall, ArbiterStep, Arbiter!vars
  <1> QED
    BY <1>1, <1>2, <1>3

LEMMA LeavesNoEntry ==
  ASSUME TypeOK, NEW w \in Workers, Leaves(w)
  PROVE  \A v \in Workers : InCall(v)' => InCall(v)
  BY DEF TypeOK, Leaves, InCall, CallPcs

LEMMA SequenceStepIsArbiterStep ==
  ASSUME TypeOK, SequenceInv, NEW w \in Workers, SequenceStep(w)
  PROVE  ArbiterStep
  <1> USE DEF Goto
  <1>1. CASE RaiseInProgress(w)
    <2>1. \A v \in Workers : ~InCall(v)
      <3>1. Sequencing(w) /\ ~InCall(w)
        BY <1>1
           DEF RaiseInProgress, SequenceInv, CallState, InCall, CallPcs
      <3> QED
        BY <3>1
           DEF SequenceInv, OneSequence, CallState, Sequencing, FlagKinds
    <2>2. InCall(w)'
      BY <1>1 DEF RaiseInProgress, TypeOK, InCall, CallPcs
    <2>3. RunningCall = 0 /\ RunningCall' = calls'
      BY <2>1, <2>2 DEF RunningCall
    <2>4. calls' = calls + 1 /\ overruled' = overruled
      BY <1>1 DEF RaiseInProgress
    <2> QED
      BY <2>3, <2>4 DEF ArbiterStep, Arbiter!Next, Arbiter!Begin
  <1>2. CASE \/ MoveRefused(w) \/ StepCancelled(w) \/ ResetCancel(w)
    <2>1. Leaves(w) /\ UNCHANGED <<calls, overruled>>
      BY <1>2, ReturnLeaves DEF MoveRefused, StepCancelled, ResetCancel
    <2> QED
      BY <2>1, LeavesNoEntry, NoEntryIsArbiterStep
  <1>3. CASE \/ ClearCancel(w) \/ SendHalt(w) \/ HaltAnswered(w)
             \/ SendMove(w) \/ MoveAccepted(w) \/ Settle(w) \/ ReadProbe(w)
             \/ ReadCondition(w)
    <2>1. UNCHANGED <<calls, overruled>>
      BY <1>3 DEF ClearCancel, SendHalt, HaltAnswered, SendMove,
         MoveAccepted, Settle, ReadProbe, ReadCondition
    <2>2. \A v \in Workers : InCall(v)' => InCall(v)
      BY <1>3 DEF TypeOK, InCall, CallPcs, ClearCancel, SendHalt,
         HaltAnswered, SendMove, MoveAccepted, Settle, ReadProbe, ReadCondition
    <2> QED
      BY <2>1, <2>2, NoEntryIsArbiterStep
  <1>4. CASE ReadAbort(w) \/ StepExecuted(w) \/ Rest(w) \/ LowerInProgress(w)
    <2>1. UNCHANGED <<calls, overruled>>
      BY <1>4 DEF ReadAbort, StepExecuted, Rest, LowerInProgress
    <2>2. \A v \in Workers : InCall(v)' => InCall(v)
      BY <1>4 DEF TypeOK, InCall, CallPcs, ReadAbort, StepExecuted, Rest,
         LowerInProgress
    <2> QED
      BY <2>1, <2>2, NoEntryIsArbiterStep
  <1> QED
    BY <1>1, <1>2, <1>3, <1>4 DEF SequenceStep

LEMMA HandlerStepIsArbiterStep ==
  ASSUME TypeOK, SequenceInv, NEW w \in Workers,
         WorkerStep(w), ~SequenceStep(w)
  PROVE  ArbiterStep
  <1> USE DEF Goto
  <1>1. CASE SendStop(w)
    <2>1. \A v \in Workers : InCall(v)' <=> InCall(v)
      BY <1>1 DEF SendStop, TypeOK, InCall, CallPcs
    <2>2. calls' = calls /\ RunningCall' = RunningCall
      BY <1>1, <2>1 DEF SendStop, RunningCall
    <2>3. /\ job[w].passed <= calls
          /\ RunningCall # 0 => job[w].passed < RunningCall
      BY <1>1 DEF SendStop, SequenceInv, CallState, RunningCall
    <2>4. job[w].passed \in Nat /\ overruled \in Nat /\ calls \in Nat
      BY DEF TypeOK, Jobs
    <2>5. CASE job[w].passed > overruled
      <3>1. Arbiter!Stop(job[w].passed)
        BY <1>1, <2>2, <2>3, <2>4, <2>5 DEF SendStop, Arbiter!Stop
      <3>2. job[w].passed \in 1 .. calls
        BY <2>3, <2>4, <2>5
      <3> QED
        BY <3>1, <3>2 DEF ArbiterStep, Arbiter!Next
    <2>6. CASE ~(job[w].passed > overruled)
      BY <1>1, <2>2, <2>6 DEF SendStop, ArbiterStep, Arbiter!vars
    <2> QED
      BY <2>5, <2>6
  <1>2. CASE \/ TestInProgress(w) \/ RaiseCancel(w) \/ SendCommand(w)
    <2>1. UNCHANGED <<calls, overruled>>
      BY <1>2 DEF TestInProgress, RaiseCancel, SendCommand
    <2>2. \A v \in Workers : InCall(v)' => InCall(v)
      BY <1>2 DEF TypeOK, InCall, CallPcs, TestInProgress, RaiseCancel,
         SendCommand
    <2> QED
      BY <2>1, <2>2, NoEntryIsArbiterStep
  <1>3. CASE StopAnswered(w) \/ CommandAnswered(w) \/ Throw(w)
    <2>1. Leaves(w) /\ UNCHANGED <<calls, overruled>>
      BY <1>3, DoneLeaves, CommandLeaves
         DEF StopAnswered, CommandAnswered, Throw, Leaves
    <2> QED
      BY <2>1, LeavesNoEntry, NoEntryIsArbiterStep
  <1>4. CASE CloseLink(w) \/ EnterRecv(w) \/ (OpenLink(w) /\ ~Done(w))
    <2>1. UNCHANGED <<calls, overruled>>
      BY <1>4 DEF CloseLink, EnterRecv, OpenLink
    <2>2. \A v \in Workers :
            pc'[v] \in {pc[v], "throw", "openLink", "sendCmd"}
      BY <1>4 DEF CloseLink, EnterRecv, OpenLink, TypeOK
    <2> QED
      BY <2>1, <2>2, NoEntryIsArbiterStep DEF InCall, CallPcs
  <1>5. CASE OpenLink(w) /\ Done(w)
    <2>1. Leaves(w) /\ UNCHANGED <<calls, overruled>>
      BY <1>5, DoneLeaves DEF OpenLink
    <2> QED
      BY <2>1, LeavesNoEntry, NoEntryIsArbiterStep
  <1> QED
    BY <1>1, <1>2, <1>3, <1>4, <1>5 DEF WorkerStep

LEMMA NextIsArbiterStep ==
  TypeOK /\ SequenceInv /\ [Next]_vars => ArbiterStep
  <1> SUFFICES ASSUME TypeOK, SequenceInv, [Next]_vars PROVE ArbiterStep
    OBVIOUS
  <1>1. CASE UNCHANGED vars
    BY <1>1, NoEntryIsArbiterStep DEF vars, InCall
  <1>2. CASE Environment
    <2>1. /\ UNCHANGED <<calls, overruled>>
          /\ pc' = pc
      BY <1>2 DEF Environment, RtuHandles, RtuStopsAxes, RtuAcceptsMove,
         RtuRefusesMove, RtuDoesOther, RtuEndsMove, RtuFaults,
         TelemetryArrives, LinkDrops
    <2>2. \A v \in Workers : InCall(v)' => InCall(v)
      BY <2>1 DEF InCall, CallPcs
    <2> QED
      BY <2>1, <2>2, NoEntryIsArbiterStep
  <1>3. ASSUME NEW w \in Workers, NEW k \in Requests, Accept(w, k)
        PROVE  ArbiterStep
    <2>1. UNCHANGED <<calls, overruled>>
      BY <1>3 DEF Accept
    <2>2. \A v \in Workers : InCall(v)' => InCall(v)
      BY <1>3 DEF Accept, Goto, FirstPc, TypeOK, InCall, CallPcs
    <2> QED
      BY <2>1, <2>2, NoEntryIsArbiterStep
  <1>4. ASSUME NEW w \in Workers, WorkerStep(w) PROVE ArbiterStep
    BY <1>4, SequenceStepIsArbiterStep, HandlerStepIsArbiterStep
  <1> QED
    BY <1>1, <1>2, <1>3, <1>4 DEF Next

\* With one sequence request under way the threads, flags and retries of the
\* engine add up to SequenceArbiter's promise.
THEOREM EngineImplementsArbiter ==
  ASSUME SequencesQueued PROVE Spec => ArbiterSpec
  <1>1. Init => Arbiter!Init
    BY DEF Init, Arbiter!Init, RunningCall, InCall, CallPcs
  <1>2. TypeOK /\ SequenceInv /\ [Next]_vars => [Arbiter!Next]_(Arbiter!vars)
    BY NextIsArbiterStep DEF ArbiterStep
  <1> QED
    BY <1>1, <1>2, TypeCorrect, SequenceInvariant, PTL
       DEF Spec, ArbiterSpec, Arbiter!Spec

-----------------------------------------------------------------------------
(* One handler at work                                                     *)

\* Past its cancel loop a handler deals with the robot.
AtWork(w) == pc[w] \notin {"idle", "test", "raiseCancel"}

\* No two handlers do so at once.  Any number of others may be in their cancel
\* loops meanwhile and have the sequence cancelled.
OneAtWork == \A v, w \in Workers : AtWork(v) /\ AtWork(w) => v = w

\* A sample, or a reading, that says how its move has ended.
Ended(s) == s.probe \/ s.onCondition \/ s.fault

\* The command that the worker waits for.
Awaited(w) ==
  CASE pc[w] = "recvHalt" -> "AXES_HARD_STOP_ALL"
    [] pc[w] = "recvMove" -> "MOVE_CLOSED_LOOP"
    [] pc[w] = "recvStop" -> StopCommand(w)
    [] OTHER -> LastCommand(w)

Waits(w) == pc[w] \in ReceivingPcs

\* The connection carries that command, or its answer, or has lost them, and
\* nothing else; nothing is left over of one answer for the next.
ConnectionInv ==
  /\ leftover = <<>>
  /\ linkUp => isConnected
  /\ ~linkUp => cmdQ = <<>>
  /\ \A w \in reading : Waits(w)
  /\ \A w \in Workers : Waits(w) =>
       \/ cmdQ = <<[cmd |-> Awaited(w), step |-> StepOf(w)]>> /\ respQ = <<>>
       \/ /\ cmdQ = <<>> /\ isConnected
          /\ \E e \in BOOLEAN : respQ = <<[cmd |-> Awaited(w), error |-> e]>>
       \/ cmdQ = <<>> /\ respQ = <<>> /\ ~linkUp
  /\ (\A w \in Workers : ~Waits(w)) => cmdQ = <<>> /\ respQ = <<>>

\* The robot, the telemetry and what the worker has read of it are at the
\* worker's step; it leaves the step when the robot is at rest.
MoveInv(w) ==
  /\ moving => ~Ended(rtu)
  /\ pc[w] = "recvMove" /\ respQ # <<>> =>
       Head(respQ).error \/ rtu.step = StepOf(w)
  /\ pc[w] \in {"settle", "readProbe", "readCondition", "readAbort", "judge"} =>
       rtu.step = StepOf(w)
  /\ w \in sampled => pc[w] = "settle"
  /\ (\/ w \in sampled
      \/ pc[w] \in {"readProbe", "readCondition", "readAbort", "judge"}) =>
       telemetry.step = StepOf(w) /\ (Ended(telemetry) => ~moving)
  /\ pc[w] \in {"readCondition", "readAbort", "judge"} =>
       seen[w].probeOf = StepOf(w) /\ (seen[w].probe => ~moving)
  /\ pc[w] \in {"readAbort", "judge"} =>
       seen[w].conditionOf = StepOf(w) /\ (seen[w].onCondition => ~moving)
  /\ pc[w] = "judge" => (seen[w].fault => ~moving)
  /\ pc[w] = "judge" => cancelSequence \/ Ended(seen[w])
  /\ pc[w] \in {"rest", "lower", "reset"} => ~moving
  /\ Sequencing(w) /\ pc[w] \in {"sendCmd", "recvCmd"} => ~moving
  /\ pc[w] \in {"closeLink", "openLink", "sendStop", "recvStop"} => ~Sequencing(w)

\* The results so far are those of the steps before this one.
ResultsInv(w) ==
  /\ \A i \in DOMAIN results[w] :
       /\ results[w][i].probeOf = <<job[w].n, job[w].call, i>>
       /\ results[w][i].conditionOf = <<job[w].n, job[w].call, i>>
       /\ results[w][i].coordsOf = <<job[w].n, job[w].call, i>>
  /\ pc[w] = "idle" => results[w] = <<>>
  /\ pc[w] \in {"test", "raiseCancel", "clear", "raise", "sendHalt", "recvHalt",
                "sendMove", "recvMove", "settle", "readProbe", "readCondition",
                "readAbort", "judge"} => Len(results[w]) + 1 = job[w].idx
  /\ pc[w] = "rest" => Len(results[w]) = job[w].idx

StepInv ==
  /\ ConnectionInv
  /\ \A w \in Workers : MoveInv(w) /\ ResultsInv(w)

LEMMA ReturnShape ==
  ASSUME NEW w \in Workers, NEW ok \in BOOLEAN, Return(w, ok)
  PROVE  \/ Done(w)
         \/ ok /\ SetHome(w)
         \/ \E r \in {"garbage", "tubesheet"} : Call(w, r)
  BY DEF Return, TubeCenterReturn, TubesheetReturn

\* A request that is over, or another call: what was read is left behind.
LEMMA LeavingKeeps ==
  ASSUME TypeOK, NEW w \in Workers, MoveInv(w),
         \/ Done(w)
         \/ \E r \in {"garbage", "tubesheet"} : Call(w, r),
         w \in sampled' => FALSE, UNCHANGED rtuVars
  PROVE  MoveInv(w)' /\ ResultsInv(w)'
  <1>1. w \in Workers /\ pc \in [Workers -> Pcs] /\ job \in [Workers -> Jobs]
        /\ results \in [Workers -> Seq(Results)]
    BY DEF TypeOK
  <1>2. /\ pc'[w] \in {"idle", "test"} /\ results'[w] = <<>>
        /\ pc'[w] = "test" => job'[w].idx = 1
    <2>1. CASE Done(w)
      BY <1>1, <2>1 DEF Done, Goto
    <2>2. ASSUME NEW r \in {"garbage", "tubesheet"}, Call(w, r)
          PROVE  pc'[w] = "test" /\ results'[w] = <<>> /\ job'[w].idx = 1
      BY <1>1, <2>2 DEF Call, Goto, Jobs
    <2> QED
      BY <2>1, <2>2
  <1>3. MoveInv(w)'
    BY <1>1, <1>2 DEF MoveInv, Ended, Sequencing
  <1>4. ResultsInv(w)'
    BY <1>2 DEF ResultsInv
  <1> QED
    BY <1>3, <1>4

-----------------------------------------------------------------------------

\* The steps that do not touch the connection, and do not wait for it.
Aside(w) ==
  \/ TestInProgress(w) \/ RaiseCancel(w) \/ ClearCancel(w) \/ RaiseInProgress(w)
  \/ Settle(w) \/ ReadProbe(w) \/ ReadCondition(w) \/ ReadAbort(w)
  \/ StepCancelled(w) \/ StepExecuted(w) \/ Rest(w) \/ LowerInProgress(w) \/ ResetCancel(w)
  \/ \E k \in Requests : Accept(w, k)
Sends(w) == SendHalt(w) \/ SendMove(w) \/ SendStop(w) \/ SendCommand(w)
Takes(w) ==
  \/ HaltAnswered(w) \/ MoveAccepted(w) \/ MoveRefused(w) \/ StopAnswered(w)
  \/ CommandAnswered(w)
Ends(w) == Throw(w) \/ CloseLink(w) \/ OpenLink(w)

LEMMA StepKinds ==
  ASSUME [Next]_vars
  PROVE  \/ \E w \in Workers : Aside(w) \/ Sends(w) \/ Takes(w) \/ Ends(w)
         \/ \E w \in Workers : EnterRecv(w)
         \/ Environment \/ UNCHANGED vars
  BY DEF Next, WorkerStep, SequenceStep, Aside, Sends, Takes, Ends

LEMMA AsideIsOutside ==
  ASSUME TypeOK, NEW w \in Workers, Aside(w)
  PROVE  ~Waits(w) /\ ~Waits(w)' /\ UNCHANGED linkVars
  <1>1. pc \in [Workers -> Pcs]
    BY DEF TypeOK
  <1>2. CASE StepCancelled(w) \/ ResetCancel(w)
    <2>1. \E ok \in BOOLEAN : Return(w, ok)
      BY <1>2 DEF StepCancelled, ResetCancel
    <2>2. pc'[w] \in {"idle", "test", "sendCmd"}
      BY <1>1, <2>1, ReturnShape DEF Done, SetHome, Call, Goto
    <2> QED
      BY <1>2, <2>2 DEF StepCancelled, ResetCancel, Waits, ReceivingPcs
  <1>3. ASSUME NEW k \in Requests, Accept(w, k)
        PROVE  ~Waits(w) /\ ~Waits(w)' /\ UNCHANGED linkVars
    BY <1>1, <1>3 DEF Accept, FirstPc, Goto, Waits, ReceivingPcs
  <1>4. CASE \/ TestInProgress(w) \/ RaiseCancel(w) \/ ClearCancel(w)
             \/ RaiseInProgress(w) \/ Settle(w) \/ ReadProbe(w)
             \/ ReadCondition(w) \/ ReadAbort(w)
             \/ StepExecuted(w) \/ Rest(w) \/ LowerInProgress(w)
    BY <1>1, <1>4 DEF TestInProgress, RaiseCancel, ClearCancel, RaiseInProgress,
       Settle, ReadProbe, ReadCondition, ReadAbort, StepExecuted, Rest, LowerInProgress, Goto,
       Waits, ReceivingPcs
  <1> QED
    BY <1>2, <1>3, <1>4 DEF Aside

\* What a worker sends is what it then waits for.
LEMMA SendsItsOwn ==
  ASSUME TypeOK, NEW w \in Workers, Sends(w)
  PROVE  /\ ~Waits(w) /\ UNCHANGED <<linkUp, respQ, leftover, reading, job>>
         /\ isConnected' \in {isConnected, isConnected /\ linkUp}
         /\ pc'[w] \in ReceivingPcs
         /\ cmdQ' = IF linkUp
                    THEN Append(cmdQ, [cmd |-> Awaited(w)', step |-> StepOf(w)'])
                    ELSE cmdQ
  <1>1. pc \in [Workers -> Pcs]
    BY DEF TypeOK
  <1> USE <1>1 DEF Goto, Transmit, Waits, ReceivingPcs, Awaited, StepOf
  <1>2. CASE SendHalt(w)
    BY <1>2 DEF SendHalt
  <1>3. CASE SendMove(w)
    BY <1>3 DEF SendMove
  <1>4. CASE SendStop(w)
    BY <1>4 DEF SendStop, StopCommand
  <1>5. CASE SendCommand(w)
    BY <1>5 DEF SendCommand, LastCommand
  <1> QED
    BY <1>2, <1>3, <1>4, <1>5 DEF Sends

LEMMA TakesAnswer ==
  ASSUME TypeOK, NEW w \in Workers, Takes(w)
  PROVE  TakeAnswer(w) /\ pc[w] \in ReceivingPcs /\ pc'[w] \notin ReceivingPcs
  <1>1. pc \in [Workers -> Pcs]
    BY DEF TypeOK
  <1> USE <1>1 DEF ReceivingPcs
  <1>2. CASE HaltAnswered(w) \/ MoveAccepted(w)
    BY <1>2 DEF HaltAnswered, MoveAccepted, Goto
  <1>3. CASE MoveRefused(w)
    BY <1>3, ReturnShape DEF MoveRefused, Done, SetHome, Call, Goto
  <1>4. CASE StopAnswered(w)
    BY <1>4 DEF StopAnswered, Done, Goto
  <1>5. CASE CommandAnswered(w)
    BY <1>5 DEF CommandAnswered, Done, Call, Goto
  <1> QED
    BY <1>2, <1>3, <1>4, <1>5 DEF Takes

\* Who waits is at work: no other does.
LEMMA OneWaits ==
  ASSUME OneAtWork, NEW w \in Workers, AtWork(w), NEW v \in Workers, v # w
  PROVE  ~Waits(v) /\ ~AtWork(v)
  BY DEF OneAtWork, AtWork, Waits, ReceivingPcs

\* A step of one handler is none of the others.
LEMMA OthersStay ==
  ASSUME TypeOK, OneAtWork, ConnectionInv, NEW w \in Workers,
         WorkerStep(w) \/ \E k \in Requests : Accept(w, k),
         NEW v \in Workers, v # w
  PROVE  /\ pc'[v] = pc[v] /\ job'[v] = job[v]
         /\ results'[v] = results[v] /\ seen'[v] = seen[v]
  <1>1. /\ pc \in [Workers -> Pcs] /\ job \in [Workers -> Jobs]
        /\ results \in [Workers -> Seq(Results)] /\ seen \in [Workers -> Readings]
    BY DEF TypeOK
  <1> USE <1>1 DEF Goto, Done
  <1>2. ASSUME NEW ok \in BOOLEAN, Return(w, ok)
        PROVE  /\ pc'[v] = pc[v] /\ job'[v] = job[v]
               /\ results'[v] = results[v] /\ seen'[v] = seen[v]
    <2>1. CASE Done(w)
      BY <2>1
    <2>2. CASE ok /\ SetHome(w)
      BY <2>2 DEF SetHome
    <2>3. ASSUME NEW r \in {"garbage", "tubesheet"}, Call(w, r)
          PROVE  /\ pc'[v] = pc[v] /\ job'[v] = job[v]
                 /\ results'[v] = results[v] /\ seen'[v] = seen[v]
      BY <2>3 DEF Call
    <2> QED
      BY <1>2, <2>1, <2>2, <2>3, ReturnShape
  <1>3. CASE MoveRefused(w) \/ StepCancelled(w) \/ ResetCancel(w)
    BY <1>2, <1>3 DEF MoveRefused, StepCancelled, ResetCancel
  <1>4. CASE OpenLink(w)
    <2>1. AtWork(w)
      BY <1>4 DEF OpenLink, AtWork
    <2>2. v \notin reading
      BY <2>1, OneWaits DEF ConnectionInv
    <2> QED
      BY <1>4, <2>2 DEF OpenLink
  <1>5. CASE \/ ClearCancel(w) \/ RaiseInProgress(w) \/ SendHalt(w)
             \/ HaltAnswered(w) \/ SendMove(w) \/ MoveAccepted(w) \/ Settle(w)
             \/ ReadProbe(w) \/ ReadCondition(w) \/ ReadAbort(w)
    BY <1>5 DEF ClearCancel, RaiseInProgress, SendHalt, HaltAnswered, SendMove,
       MoveAccepted, Settle, ReadProbe, ReadCondition, ReadAbort
  <1>6. CASE StepExecuted(w) \/ Rest(w) \/ LowerInProgress(w)
    BY <1>6 DEF StepExecuted, Rest, LowerInProgress
  <1>7. CASE \/ TestInProgress(w) \/ RaiseCancel(w) \/ SendStop(w)
             \/ StopAnswered(w) \/ SendCommand(w)
    BY <1>7 DEF TestInProgress, RaiseCancel, SendStop, StopAnswered, SendCommand
  <1>8. CASE CommandAnswered(w) \/ Throw(w) \/ CloseLink(w) \/ EnterRecv(w)
    BY <1>8 DEF CommandAnswered, Call, Throw, CloseLink, EnterRecv
  <1>9. ASSUME NEW k \in Requests, Accept(w, k)
        PROVE  /\ pc'[v] = pc[v] /\ job'[v] = job[v]
               /\ results'[v] = results[v] /\ seen'[v] = seen[v]
    BY <1>9 DEF Accept
  <1> QED
    BY <1>3, <1>4, <1>5, <1>6, <1>7, <1>8, <1>9 DEF WorkerStep, SequenceStep

\* With one answer on the way, or none, it is taken whole or not at all.
LEMMA TakesTheAnswer ==
  ASSUME NEW w \in Workers, ConnectionInv, Waits(w), TakeAnswer(w)
  PROVE  /\ w \in reading
         /\ \E e \in BOOLEAN : respQ = <<[cmd |-> Awaited(w), error |-> e]>>
         /\ cmdQ' = <<>> /\ respQ' = <<>> /\ leftover' = <<>>
         /\ reading' = reading \ {w} /\ UNCHANGED <<linkUp, isConnected>>
  <1>1. w \in reading /\ reading' = reading \ {w}
        /\ UNCHANGED <<linkUp, cmdQ, isConnected>>
    BY DEF ConnectionInv, TakeAnswer
  <1>2. PICK k \in 1 .. Len(respQ) : /\ leftover' = SubSeq(respQ, 2, k)
                                    /\ respQ' = SubSeq(respQ, k + 1, Len(respQ))
    BY <1>1 DEF TakeAnswer
  <1>3. respQ # <<>>
    BY <1>2
  <1>4. PICK e \in BOOLEAN : respQ = <<[cmd |-> Awaited(w), error |-> e]>>
    BY <1>3 DEF ConnectionInv
  <1>5. cmdQ = <<>>
    BY <1>3 DEF ConnectionInv
  <1>6. Len(respQ) = 1 /\ k = 1
    BY <1>4
  <1>7. leftover' = <<>> /\ respQ' = <<>>
    BY <1>2, <1>4, <1>6
  <1> QED
    BY <1>1, <1>4, <1>5, <1>7

LEMMA EndsWithNothing ==
  ASSUME TypeOK, OneAtWork, NEW w \in Workers, ConnectionInv, Ends(w)
  PROVE  ConnectionInv'
  <1>1. pc \in [Workers -> Pcs]
    BY DEF TypeOK
  <1>2. AtWork(w)
    BY DEF Ends, Throw, CloseLink, OpenLink, AtWork, ReceivingPcs
  <1>3. \A v \in Workers : v # w => ~Waits(v) /\ v \notin reading
    BY <1>2, OneWaits DEF ConnectionInv
  <1>4. \A v \in Workers : v # w => pc'[v] = pc[v]
    <2>1. WorkerStep(w)
      BY DEF Ends, WorkerStep
    <2> QED
      BY <2>1, OthersStay
  <1>5. pc'[w] \notin ReceivingPcs
    BY <1>1 DEF Ends, Throw, CloseLink, OpenLink, Done, Goto, ReceivingPcs
  <1>6. \A v \in Workers : ~Waits(v)'
    BY <1>3, <1>4, <1>5 DEF Waits
  <1>7. /\ cmdQ' = <<>> /\ respQ' = <<>> /\ leftover' = <<>>
        /\ linkUp' => isConnected'
        /\ \A v \in Workers : v \notin reading'
    <2>1. CASE Throw(w) /\ pc[w] = "throw"
      <3>1. ~Waits(w) /\ w \notin reading
        BY <2>1 DEF Waits, ReceivingPcs, ConnectionInv
      <3>2. UNCHANGED linkVars
        BY <2>1 DEF Throw, ReceivingPcs, TakeAnswer
      <3> QED
        BY <1>3, <3>1, <3>2 DEF ConnectionInv
    <2>2. CASE Throw(w) /\ Waits(w) /\ TakeAnswer(w)
      BY <1>3, <2>2, TakesTheAnswer DEF ConnectionInv
    <2>3. CASE /\ Waits(w)
               /\ IF w \in reading THEN ~linkUp /\ respQ = <<>> ELSE ~isConnected
               /\ reading' = reading \ {w}
               /\ UNCHANGED <<linkUp, cmdQ, respQ, isConnected, leftover>>
      <3>1. ~linkUp /\ cmdQ = <<>> /\ respQ = <<>>
        BY <2>3 DEF ConnectionInv
      <3> QED
        BY <1>3, <2>3, <3>1 DEF ConnectionInv
    <2>4. CASE CloseLink(w) \/ OpenLink(w)
      <3>1. ~Waits(w) /\ w \notin reading
        BY <2>4 DEF CloseLink, OpenLink, Waits, ReceivingPcs, ConnectionInv
      <3>2. cmdQ = <<>> /\ respQ = <<>>
        BY <1>3, <3>1 DEF ConnectionInv
      <3>3. CASE OpenLink(w)
        BY <1>3, <3>1, <3>2, <3>3 DEF OpenLink, ConnectionInv
      <3>4. CASE CloseLink(w)
        <4>1. respQ' = <<>>
          <5>1. \E k \in 0 .. 0 : respQ' = SubSeq(<<>>, 1, k)
            BY <3>2, <3>4 DEF CloseLink, LinkEnds
          <5> QED
            BY <5>1
        <4> QED
          BY <1>3, <3>1, <3>4, <4>1 DEF CloseLink, LinkEnds, ConnectionInv
      <3> QED
        BY <2>4, <3>3, <3>4
    <2> QED
      BY <2>1, <2>2, <2>3, <2>4 DEF Ends, Throw, Waits
  <1>8. reading' \subseteq Workers
    BY DEF TypeOK, Ends, Throw, CloseLink, LinkEnds, OpenLink, TakeAnswer
  <1> QED
    BY <1>6, <1>7, <1>8 DEF ConnectionInv

\* A connection that ends has brought the one answer, or has not.
LEMMA EndsOfOne ==
  ASSUME LinkEnds, NEW r, respQ \in {<<>>, <<r>>} PROVE respQ' \in {<<>>, respQ}
  <1>1. PICK k \in 0 .. Len(respQ) : respQ' = SubSeq(respQ, 1, k)
    BY DEF LinkEnds
  <1>2. CASE respQ = <<>>
    BY <1>1, <1>2
  <1>3. CASE respQ = <<r>>
    <2>1. k = 0 \/ k = 1
      BY <1>3
    <2>2. SubSeq(<<r>>, 1, 0) = <<>>
      OBVIOUS
    <2>3. SubSeq(<<r>>, 1, 1) = <<r>>
      <3> DEFINE t == SubSeq(<<r>>, 1, 1)
      <3>1. <<r>> \in Seq({r}) /\ Len(<<r>>) = 1 /\ <<r>>[1] = r
        OBVIOUS
      <3>2. t \in Seq({r}) /\ Len(t) = 1
        BY <3>1, PartOfSeq
      <3>3. t[1] = r
        BY <3>2
      <3> HIDE DEF t
      <3>4. t = <<r>>
        BY <3>1, <3>2, <3>3
      <3> QED
        BY <3>4 DEF t
    <2> QED
      BY <1>1, <1>3, <2>1, <2>2, <2>3
  <1> QED
    BY <1>2, <1>3

LEMMA AwaitedKept ==
  ASSUME NEW w, UNCHANGED <<pc, job>>
  PROVE  Awaited(w)' = Awaited(w) /\ StepOf(w)' = StepOf(w)
  BY DEF Awaited, StopCommand, LastCommand, StepOf

LEMMA DropKeepsConnection ==
  ASSUME OneAtWork, ConnectionInv, LinkDrops PROVE ConnectionInv'
  <1>1. /\ UNCHANGED <<pc, job, leftover, reading, isConnected>>
        /\ linkUp /\ ~linkUp' /\ cmdQ' = <<>> /\ LinkEnds
    BY DEF LinkDrops, LinkEnds, workerVars
  <1>2. \A w \in Workers : /\ Awaited(w)' = Awaited(w)
                          /\ (Waits(w)' <=> Waits(w))
    BY <1>1, AwaitedKept DEF Waits
  <1>3. CASE \A w \in Workers : ~Waits(w)
    <2>1. respQ' = <<>>
      BY <1>1, <1>3, EndsOfOne DEF ConnectionInv
    <2> QED
      BY <1>1, <1>2, <1>3, <2>1 DEF ConnectionInv, Waits
  <1>4. ASSUME NEW w \in Workers, Waits(w)
        PROVE  ConnectionInv'
    <2>1. \A v \in Workers : v # w => ~Waits(v)
      BY <1>4, OneWaits DEF Waits, AtWork, ReceivingPcs
    <2>2. respQ' \in {<<>>, respQ}
      BY <1>1, <1>4, EndsOfOne DEF ConnectionInv
    <2>3. \/ respQ' = <<>>
          \/ /\ isConnected'
             /\ \E e \in BOOLEAN : respQ' = <<[cmd |-> Awaited(w)', error |-> e]>>
      BY <1>1, <1>2, <1>4, <2>2 DEF ConnectionInv
    <2>4. \A v \in reading' : Waits(v)'
      BY <1>1 DEF ConnectionInv, Waits
    <2> QED
      BY <1>1, <1>2, <1>4, <2>1, <2>3, <2>4 DEF ConnectionInv
  <1> QED
    BY <1>3, <1>4

LEMMA ConnectionStep ==
  ASSUME TypeOK, OneAtWork, ConnectionInv, [Next]_vars
  PROVE  ConnectionInv'
  <1>1. ASSUME NEW w \in Workers, Aside(w)
        PROVE  ConnectionInv'
    <2>1. ~Waits(w) /\ ~Waits(w)' /\ UNCHANGED linkVars
      BY <1>1, AsideIsOutside
    <2>2. \A v \in Workers : v # w => pc'[v] = pc[v] /\ job'[v] = job[v]
      BY <1>1, OthersStay DEF Aside, WorkerStep, SequenceStep
    <2>3. \A v \in Workers : v # w => (Waits(v)' <=> Waits(v))
                                    /\ Awaited(v)' = Awaited(v)
                                    /\ StepOf(v)' = StepOf(v)
      BY <2>1, <2>2 DEF Waits, Awaited, StopCommand, LastCommand, StepOf
    <2>4. \A v \in reading' : Waits(v)'
      BY <2>1, <2>3 DEF ConnectionInv, TypeOK
    <2> QED
      BY <2>1, <2>3, <2>4 DEF ConnectionInv
  <1>2. ASSUME NEW w \in Workers, Sends(w)
        PROVE  ConnectionInv'
    <2>1. /\ ~Waits(w) /\ UNCHANGED <<linkUp, respQ, leftover, reading>>
          /\ isConnected' \in {isConnected, isConnected /\ linkUp}
          /\ pc'[w] \in ReceivingPcs
          /\ cmdQ' = IF linkUp
                     THEN Append(cmdQ, [cmd |-> Awaited(w)', step |-> StepOf(w)'])
                     ELSE cmdQ
      BY <1>2, SendsItsOwn
    <2>2. AtWork(w)
      BY <1>2 DEF Sends, SendHalt, SendMove, SendStop, SendCommand, AtWork
    <2>3. \A v \in Workers : v # w => ~Waits(v) /\ ~Waits(v)'
      BY <1>2, <2>1, <2>2, OneWaits, OthersStay
         DEF Sends, WorkerStep, SequenceStep, Waits
    <2>4. cmdQ = <<>> /\ respQ = <<>>
      BY <2>1, <2>3 DEF ConnectionInv
    <2>5. \A c : Append(<<>>, c) = <<c>>
      OBVIOUS
    <2>6. Waits(w)' /\ reading' = {}
      BY <2>1, <2>3 DEF Waits, ConnectionInv, TypeOK
    <2> QED
      BY <2>1, <2>3, <2>4, <2>5, <2>6 DEF ConnectionInv
  <1>3. ASSUME NEW w \in Workers, Takes(w)
        PROVE  ConnectionInv'
    <2>1. TakeAnswer(w) /\ ~Waits(w)' /\ Waits(w)
      BY <1>3, TakesAnswer DEF Waits
    <2>2. AtWork(w)
      BY <2>1 DEF AtWork, Waits, ReceivingPcs
    <2>3. \A v \in Workers : v # w => ~Waits(v) /\ ~Waits(v)'
      BY <1>3, <2>1, <2>2, OneWaits, OthersStay
         DEF Takes, WorkerStep, SequenceStep, Waits
    <2>4. /\ respQ' = <<>> /\ cmdQ' = <<>> /\ leftover' = <<>>
          /\ UNCHANGED <<linkUp, isConnected>> /\ reading' = reading \ {w}
      BY <2>1, TakesTheAnswer
    <2>5. reading' = {}
      BY <2>3, <2>4 DEF ConnectionInv, TypeOK
    <2> QED
      BY <2>1, <2>3, <2>4, <2>5 DEF ConnectionInv
  <1>4. ASSUME NEW w \in Workers, Ends(w)
        PROVE  ConnectionInv'
    BY <1>4, EndsWithNothing
  <1>5. CASE LinkDrops
    BY <1>5, DropKeepsConnection
  <1>6. CASE RtuHandles
    <2>1. /\ cmdQ # <<>>
          /\ UNCHANGED <<pc, job, linkUp, isConnected, leftover, reading>>
      BY <1>6 DEF RtuHandles, RtuStopsAxes, RtuAcceptsMove, RtuRefusesMove,
         RtuDoesOther, RtuAnswers
    <2>2. PICK e \in BOOLEAN : RtuAnswers([cmd |-> Head(cmdQ).cmd, error |-> e])
      BY <1>6 DEF RtuHandles, RtuStopsAxes, RtuAcceptsMove, RtuRefusesMove,
         RtuDoesOther
    <2>3. PICK w \in Workers : Waits(w)
      BY <2>1 DEF ConnectionInv
    <2>4. /\ respQ = <<>> /\ isConnected
          /\ cmdQ = <<[cmd |-> Awaited(w), step |-> StepOf(w)]>>
      BY <2>1, <2>3 DEF ConnectionInv
    <2>5. cmdQ' = <<>> /\ respQ' = <<[cmd |-> Awaited(w), error |-> e]>>
      BY <2>2, <2>4 DEF RtuAnswers
    <2>6. Awaited(w)' = Awaited(w) /\ (Waits(w)' <=> Waits(w))
      BY <2>1, AwaitedKept DEF Waits
    <2>7. \A v \in Workers : v # w => ~Waits(v)'
      <3>1. AtWork(w)
        BY <2>3 DEF Waits, AtWork, ReceivingPcs
      <3> QED
        BY <2>1, <3>1, OneWaits DEF Waits
    <2>8. \A v \in reading' : Waits(v)'
      BY <2>1 DEF ConnectionInv, Waits
    <2> QED
      BY <2>1, <2>3, <2>4, <2>5, <2>6, <2>7, <2>8 DEF ConnectionInv
  <1>7. CASE \/ RtuEndsMove \/ RtuFaults \/ TelemetryArrives \/ UNCHANGED vars
    <2>1. UNCHANGED <<pc, job>> /\ UNCHANGED linkVars
      BY <1>7 DEF RtuEndsMove, RtuFaults, TelemetryArrives, vars, workerVars
    <2>2. \A v \in Workers : /\ Awaited(v)' = Awaited(v) /\ StepOf(v)' = StepOf(v)
                            /\ (Waits(v)' <=> Waits(v))
      BY <2>1, AwaitedKept DEF Waits
    <2>3. \A v \in reading' : Waits(v)'
      BY <2>1 DEF ConnectionInv, Waits
    <2> QED
      BY <2>1, <2>2, <2>3 DEF ConnectionInv
  <1>8. ASSUME NEW w \in Workers, EnterRecv(w)
        PROVE  ConnectionInv'
    <2>1. /\ UNCHANGED <<pc, job, linkUp, cmdQ, respQ, isConnected, leftover>>
          /\ reading' = reading \cup {w} /\ Waits(w)
      BY <1>8 DEF EnterRecv, workerVars, Waits
    <2>2. \A v \in Workers : /\ Awaited(v)' = Awaited(v) /\ StepOf(v)' = StepOf(v)
                            /\ (Waits(v)' <=> Waits(v))
      BY <2>1, AwaitedKept DEF Waits
    <2>3. \A v \in reading' : Waits(v)'
      BY <2>1 DEF ConnectionInv, Waits
    <2> QED
      BY <2>1, <2>2, <2>3 DEF ConnectionInv
  <1> QED
    BY <1>1, <1>2, <1>3, <1>4, <1>5, <1>6, <1>7, <1>8, StepKinds DEF Environment

-----------------------------------------------------------------------------

\* Where the worker goes when a call returns with all its steps done.
LEMMA ReturnKeeps ==
  ASSUME TypeOK, NEW w \in Workers, MoveInv(w), ResultsInv(w), pc[w] # "settle",
         NEW ok \in BOOLEAN, Return(w, ok), ok => ~moving,
         UNCHANGED <<rtuVars, sampled>>
  PROVE  MoveInv(w)' /\ ResultsInv(w)'
  <1>1. w \in Workers /\ pc \in [Workers -> Pcs]
    BY DEF TypeOK
  <1>2. w \notin sampled'
    BY DEF MoveInv
  <1>3. CASE ok /\ SetHome(w)
    <2>1. pc'[w] = "sendCmd" /\ UNCHANGED <<job, results, seen>>
      BY <1>1, <1>3 DEF SetHome, Goto
    <2>2. MoveInv(w)'
      BY <1>2, <1>3, <2>1 DEF MoveInv, Ended, Sequencing
    <2>3. ResultsInv(w)'
      BY <2>1 DEF ResultsInv
    <2> QED
      BY <2>2, <2>3
  <1>4. CASE Done(w) \/ \E r \in {"garbage", "tubesheet"} : Call(w, r)
    BY <1>2, <1>4, LeavingKeeps
  <1> QED
    BY <1>1, <1>3, <1>4, ReturnShape

\* Before the steps: the cancel loop and the beginning of the call.
LEMMA EntryKeeps ==
  ASSUME TypeOK, NEW w \in Workers, MoveInv(w), ResultsInv(w),
         \/ TestInProgress(w) \/ RaiseCancel(w) \/ ClearCancel(w)
         \/ RaiseInProgress(w) \/ SendHalt(w) \/ HaltAnswered(w)
  PROVE  MoveInv(w)' /\ ResultsInv(w)'
  <1>1. w \in Workers /\ pc \in [Workers -> Pcs] /\ job \in [Workers -> Jobs]
    BY DEF TypeOK
  <1>2. /\ pc'[w] \in {"raiseCancel", "clear", "sendStop", "test", "raise",
                       "sendHalt", "recvHalt", "sendMove"}
        /\ pc[w] \in {"raiseCancel", "clear", "test", "raise", "sendHalt", "recvHalt"}
        /\ UNCHANGED <<results, seen, rtu, moving, telemetry, sampled>>
    BY <1>1 DEF TestInProgress, RaiseCancel, ClearCancel, RaiseInProgress, SendHalt,
       HaltAnswered, Goto
  <1>3. /\ job'[w].n = job[w].n /\ job'[w].call = job[w].call
        /\ job'[w].idx = job[w].idx /\ job'[w].kind = job[w].kind
    BY <1>1 DEF TestInProgress, RaiseCancel, ClearCancel, RaiseInProgress, SendHalt,
       HaltAnswered, Jobs
  <1>4. pc'[w] = "sendStop" => ~Sequencing(w)
    BY <1>1 DEF TestInProgress, RaiseCancel, ClearCancel, RaiseInProgress, SendHalt,
       HaltAnswered, Goto
  <1>5. MoveInv(w)'
    BY <1>1, <1>2, <1>3, <1>4 DEF MoveInv, Ended, Sequencing
  <1>6. ResultsInv(w)'
    BY <1>2, <1>3 DEF ResultsInv
  <1> QED
    BY <1>5, <1>6

\* A step of the sequence.
LEMMA StepKeeps ==
  ASSUME TypeOK, OneAtWork, NEW w \in Workers, TelemetryTimely, StepInv,
         \/ SendMove(w) \/ MoveAccepted(w) \/ MoveRefused(w) \/ Settle(w)
         \/ ReadProbe(w) \/ ReadCondition(w) \/ ReadAbort(w) \/ StepCancelled(w)
         \/ StepExecuted(w) \/ Rest(w) \/ LowerInProgress(w) \/ ResetCancel(w)
  PROVE  MoveInv(w)' /\ ResultsInv(w)'
  <1>1. w \in Workers /\ pc \in [Workers -> Pcs] /\ job \in [Workers -> Jobs]
        /\ seen \in [Workers -> Readings] /\ results \in [Workers -> Seq(Results)]
        /\ moving \in BOOLEAN /\ telemetry \in Samples
    BY DEF TypeOK
  <1>2. ConnectionInv /\ MoveInv(w) /\ ResultsInv(w)
    BY DEF StepInv
  <1>3. CASE SendMove(w)
    <2>1. /\ pc[w] = "sendMove" /\ pc'[w] = "recvMove" /\ respQ' = respQ
          /\ UNCHANGED <<job, results, seen, rtu, moving, telemetry, sampled>>
      BY <1>1, <1>3 DEF SendMove, Transmit, Goto
    <2>2. respQ' = <<>>
      <3>1. AtWork(w) /\ ~Waits(w)
        BY <2>1 DEF AtWork, Waits, ReceivingPcs
      <3>2. \A v \in Workers : ~Waits(v)
        BY <3>1, OneWaits
      <3> QED
        BY <1>2, <2>1, <3>2 DEF ConnectionInv
    <2>3. MoveInv(w)'
      BY <1>2, <2>1, <2>2 DEF MoveInv, Ended, Sequencing, StepOf
    <2> QED
      BY <1>2, <2>1, <2>3 DEF ResultsInv
  <1>4. CASE MoveAccepted(w)
    <2>1. /\ pc[w] = "recvMove" /\ pc'[w] = "settle"
          /\ TakeAnswer(w) /\ ~Refuses(w, "MOVE_CLOSED_LOOP")
          /\ UNCHANGED <<job, results, seen, rtu, moving, telemetry, sampled>>
      BY <1>1, <1>4 DEF MoveAccepted, Goto
    <2>2. /\ w \in reading
          /\ \E e \in BOOLEAN : respQ = <<[cmd |-> Awaited(w), error |-> e]>>
      BY <1>2, <2>1, TakesTheAnswer DEF Waits, ReceivingPcs
    <2>3. rtu.step = StepOf(w)
      <3>1. Awaited(w) = "MOVE_CLOSED_LOOP"
        BY <2>1 DEF Awaited
      <3>2. PICK e \in BOOLEAN : respQ = <<[cmd |-> "MOVE_CLOSED_LOOP", error |-> e]>>
        BY <2>2, <3>1
      <3>3. ~Head(respQ).error /\ respQ # <<>>
        BY <2>1, <2>2, <3>2 DEF Refuses, AnswerOf
      <3> QED
        BY <1>2, <2>1, <3>3 DEF MoveInv
    <2>4. MoveInv(w)'
      BY <1>2, <2>1, <2>3 DEF MoveInv, Ended, Sequencing, StepOf
    <2> QED
      BY <1>2, <2>1, <2>4 DEF ResultsInv
  <1>5. CASE MoveRefused(w)
    BY <1>2, <1>5, ReturnKeeps DEF MoveRefused
  <1>6. CASE Settle(w)
    <2>1. /\ pc[w] = "settle" /\ pc'[w] = "readProbe"
          /\ w \in sampled /\ w \notin sampled'
          /\ UNCHANGED <<job, results, seen, rtu, moving, telemetry>>
      BY <1>1, <1>6 DEF Settle, Goto
    <2>2. MoveInv(w)'
      BY <1>2, <2>1 DEF MoveInv, Ended, Sequencing, StepOf
    <2> QED
      BY <1>2, <2>1, <2>2 DEF ResultsInv
  <1>7. CASE ReadProbe(w)
    <2>1. /\ pc[w] = "readProbe" /\ pc'[w] = "readCondition"
          /\ UNCHANGED <<job, results, rtu, moving, telemetry, sampled>>
      BY <1>1, <1>7 DEF ReadProbe, Goto
    <2>2. seen'[w].probe = telemetry.probe /\ seen'[w].probeOf = telemetry.step
      BY <1>1, <1>7 DEF ReadProbe, Readings
    <2>3. MoveInv(w)'
      BY <1>2, <2>1, <2>2 DEF MoveInv, Ended, Sequencing, StepOf
    <2> QED
      BY <1>2, <2>1, <2>3 DEF ResultsInv
  <1>14. CASE ReadCondition(w)
    <2>1. /\ pc[w] = "readCondition" /\ pc'[w] = "readAbort"
          /\ UNCHANGED <<job, results, rtu, moving, telemetry, sampled>>
      BY <1>1, <1>14 DEF ReadCondition, Goto
    <2>2. /\ seen'[w].onCondition = telemetry.onCondition
          /\ seen'[w].conditionOf = telemetry.step
          /\ seen'[w].probe = seen[w].probe /\ seen'[w].probeOf = seen[w].probeOf
      BY <1>1, <1>14 DEF ReadCondition, Readings
    <2>3. MoveInv(w)'
      BY <1>2, <2>1, <2>2 DEF MoveInv, Ended, Sequencing, StepOf
    <2> QED
      BY <1>2, <2>1, <2>3 DEF ResultsInv
  <1>8. CASE ReadAbort(w)
    <2>1. /\ pc[w] = "readAbort" /\ pc'[w] \in {"judge", "readProbe"}
          /\ UNCHANGED <<job, results, rtu, moving, telemetry, sampled,
                         cancelSequence>>
      BY <1>1, <1>8 DEF ReadAbort, Goto
    <2>2. pc'[w] = "judge" =>
            /\ seen'[w].probe = seen[w].probe /\ seen'[w].probeOf = seen[w].probeOf
            /\ seen'[w].onCondition = seen[w].onCondition
            /\ seen'[w].conditionOf = seen[w].conditionOf
            /\ seen'[w].fault = telemetry.fault
      BY <1>1, <1>8 DEF ReadAbort, Readings, Goto
    <2>3. pc'[w] = "judge" => cancelSequence \/ Ended(seen'[w])
      BY <1>1, <1>8, <2>2 DEF ReadAbort, Goto, Ended
    <2>4. MoveInv(w)'
      BY <1>2, <2>1, <2>2, <2>3 DEF MoveInv, Ended, Sequencing, StepOf
    <2> QED
      BY <1>2, <2>1, <2>4 DEF ResultsInv
  <1>9. CASE StepCancelled(w)
    BY <1>2, <1>9, ReturnKeeps DEF StepCancelled
  <1>10. CASE StepExecuted(w)
    <2>1. /\ pc[w] = "judge" /\ pc'[w] = "rest" /\ ~(cancelSequence \/ seen[w].fault)
          /\ UNCHANGED <<job, rtu, moving, telemetry, sampled>>
      BY <1>1, <1>10 DEF StepExecuted, Goto
    <2>2. ~moving
      BY <1>2, <2>1 DEF MoveInv, Ended
    <2>3. MoveInv(w)'
      BY <1>2, <2>1, <2>2 DEF MoveInv, Ended, Sequencing, StepOf
    <2> DEFINE r == ResultOf(seen[w], telemetry.step)
    <2>4. results'[w] = Append(results[w], r)
      BY <1>1, <1>10 DEF StepExecuted
    <2>5. /\ r.probeOf = StepOf(w) /\ r.conditionOf = StepOf(w)
          /\ r.coordsOf = StepOf(w)
      BY <1>2, <2>1 DEF MoveInv, ResultOf
    <2> HIDE DEF r
    <2>6. /\ results[w] \in Seq(Results) /\ Len(results[w]) \in Nat
          /\ Len(results[w]) + 1 = job[w].idx
      BY <1>1, <1>2, <2>1 DEF ResultsInv
    <2>7. /\ DOMAIN results'[w] = 1 .. Len(results[w]) + 1
          /\ Len(results'[w]) = Len(results[w]) + 1
          /\ \A i \in 1 .. Len(results[w]) : results'[w][i] = results[w][i]
          /\ results'[w][Len(results[w]) + 1] = r
          /\ DOMAIN results[w] = 1 .. Len(results[w])
      BY <2>4, <2>6
    <2>8. \A i \in DOMAIN results'[w] :
            /\ results'[w][i].probeOf = <<job[w].n, job[w].call, i>>
            /\ results'[w][i].conditionOf = <<job[w].n, job[w].call, i>>
            /\ results'[w][i].coordsOf = <<job[w].n, job[w].call, i>>
      <3> SUFFICES ASSUME NEW i \in 1 .. Len(results[w]) + 1
                   PROVE  /\ results'[w][i].probeOf = <<job[w].n, job[w].call, i>>
                          /\ results'[w][i].conditionOf
                               = <<job[w].n, job[w].call, i>>
                          /\ results'[w][i].coordsOf = <<job[w].n, job[w].call, i>>
        BY <2>7
      <3>1. CASE i = Len(results[w]) + 1
        BY <2>5, <2>6, <2>7, <3>1 DEF StepOf
      <3>2. CASE i \in 1 .. Len(results[w])
        BY <1>2, <2>7, <3>2 DEF ResultsInv
      <3> QED
        BY <2>6, <3>1, <3>2
    <2>9. ResultsInv(w)'
      BY <2>1, <2>6, <2>7, <2>8 DEF ResultsInv
    <2> QED
      BY <2>3, <2>9
  <1>11. CASE Rest(w)
    <2>1. /\ pc[w] = "rest" /\ pc'[w] \in {"sendMove", "lower"}
          /\ UNCHANGED <<results, seen, rtu, moving, telemetry, sampled>>
      BY <1>1, <1>11 DEF Rest, Goto
    <2>2. /\ job'[w].n = job[w].n /\ job'[w].call = job[w].call
          /\ job'[w].kind = job[w].kind
          /\ pc'[w] = "sendMove" => job'[w].idx = job[w].idx + 1
      BY <1>1, <1>11 DEF Rest, Goto, Jobs
    <2>3. MoveInv(w)'
      BY <1>2, <2>1, <2>2 DEF MoveInv, Ended, Sequencing
    <2> QED
      BY <1>2, <2>1, <2>2, <2>3 DEF ResultsInv
  <1>12. CASE LowerInProgress(w)
    <2>1. /\ pc[w] = "lower" /\ pc'[w] = "reset"
          /\ UNCHANGED <<job, results, seen, rtu, moving, telemetry, sampled>>
      BY <1>1, <1>12 DEF LowerInProgress, Goto
    <2>2. MoveInv(w)'
      BY <1>2, <2>1 DEF MoveInv, Ended, Sequencing
    <2> QED
      BY <1>2, <2>1, <2>2 DEF ResultsInv
  <1>13. CASE ResetCancel(w)
    <2>1. ~moving
      BY <1>2, <1>13 DEF ResetCancel, MoveInv
    <2> QED
      BY <1>2, <1>13, <2>1, ReturnKeeps DEF ResetCancel
  <1> QED
    BY <1>3, <1>4, <1>5, <1>6, <1>7, <1>8, <1>9, <1>10, <1>11, <1>12, <1>13, <1>14

\* Requests of one command, stops and connections.
LEMMA HandlerKeeps ==
  ASSUME TypeOK, OneAtWork, NEW w \in Workers, StepInv,
         \/ EnterRecv(w)
         \/ SendStop(w) \/ StopAnswered(w) \/ SendCommand(w) \/ CommandAnswered(w)
         \/ Throw(w) \/ CloseLink(w) \/ OpenLink(w)
         \/ \E k \in Requests : Accept(w, k)
  PROVE  MoveInv(w)' /\ ResultsInv(w)'
  <1>1. w \in Workers /\ pc \in [Workers -> Pcs] /\ job \in [Workers -> Jobs]
    BY DEF TypeOK
  <1>2. ConnectionInv /\ MoveInv(w) /\ ResultsInv(w)
    BY DEF StepInv
  <1>3. UNCHANGED <<rtu, moving, telemetry, sampled>>
    BY DEF SendStop, StopAnswered, SendCommand, CommandAnswered, Throw, CloseLink,
       OpenLink, Accept, EnterRecv
  <1>4. pc[w] # "settle" /\ w \notin sampled'
    BY <1>2, <1>3 DEF SendStop, StopAnswered, SendCommand, CommandAnswered, Throw,
       CloseLink, OpenLink, Accept, EnterRecv, MoveInv, ReceivingPcs
  <1>14. CASE EnterRecv(w)
    <2>1. UNCHANGED <<pc, job, results, seen, cancelSequence, respQ>>
      BY <1>14 DEF EnterRecv
    <2>2. MoveInv(w)'
      BY <1>2, <1>3, <2>1 DEF MoveInv, Ended, Sequencing, StepOf
    <2> QED
      BY <1>2, <2>1, <2>2 DEF ResultsInv
  <1>5. CASE \/ Done(w)
             \/ \E r \in {"garbage", "tubesheet"} : Call(w, r)
    BY <1>2, <1>3, <1>4, <1>5, LeavingKeeps
  <1>6. ASSUME UNCHANGED <<job, results, seen>>,
               \/ pc'[w] \in {"recvStop", "openLink"} /\ ~Sequencing(w)
               \/ /\ pc'[w] = "sendCmd"
                  /\ pc[w] \in {"recvStop", "openLink"} /\ ~Sequencing(w)
               \/ pc'[w] = "recvCmd" /\ pc[w] = "sendCmd"
        PROVE  MoveInv(w)' /\ ResultsInv(w)'
    <2>1. MoveInv(w)'
      BY <1>1, <1>2, <1>3, <1>4, <1>6 DEF MoveInv, Ended, Sequencing
    <2> QED
      BY <1>2, <1>6, <2>1 DEF ResultsInv
  <1>7. CASE SendStop(w) \/ SendCommand(w)
    BY <1>1, <1>2, <1>6, <1>7 DEF SendStop, SendCommand, Goto, MoveInv
  <1>8. CASE StopAnswered(w)
    BY <1>1, <1>2, <1>5, <1>6, <1>8 DEF StopAnswered, Goto, MoveInv
  <1>9. CASE CommandAnswered(w)
    <2>1. CASE /\ job[w].kind = "tools_select" /\ Goto(w, "sendCmd")
               /\ job' = [job EXCEPT ![w].idx = 2] /\ UNCHANGED <<results, seen>>
      <3>1. /\ pc'[w] = "sendCmd" /\ job'[w].kind = "tools_select"
            /\ job'[w].n = job[w].n /\ job'[w].call = job[w].call
        BY <1>1, <2>1 DEF Goto, Jobs
      <3>2. MoveInv(w)'
        BY <1>2, <1>3, <1>4, <3>1 DEF MoveInv, Ended, Sequencing, SequenceKinds
      <3> QED
        BY <1>2, <2>1, <3>1, <3>2 DEF ResultsInv
    <2> QED
      BY <1>5, <1>9, <2>1 DEF CommandAnswered
  <1>10. CASE Throw(w)
    BY <1>5, <1>10 DEF Throw
  <1>11. CASE CloseLink(w)
    BY <1>1, <1>2, <1>6, <1>11 DEF CloseLink, Goto, MoveInv
  <1>12. CASE OpenLink(w)
    BY <1>1, <1>2, <1>5, <1>6, <1>12 DEF OpenLink, MoveInv
  <1>13. ASSUME NEW k \in Requests, Accept(w, k)
         PROVE  MoveInv(w)' /\ ResultsInv(w)'
    <2>1. /\ pc[w] = "idle" /\ pc'[w] = FirstPc(k) /\ UNCHANGED <<results, seen>>
          /\ job'[w] = NewJob(k, accepted + 1)
      BY <1>1, <1>13 DEF Accept, Goto
    <2>2. /\ pc'[w] \in {"test", "sendCmd", "closeLink"} /\ job'[w].idx = 1
          /\ pc'[w] # "test" => job'[w].kind \notin SequenceKinds
      BY <2>1 DEF FirstPc, NewJob, PlainKinds, SequenceKinds
    <2>3. MoveInv(w)'
      BY <1>2, <1>3, <1>4, <2>1, <2>2 DEF MoveInv, Ended, Sequencing
    <2>4. ResultsInv(w)'
      BY <1>2, <2>1, <2>2 DEF ResultsInv
    <2> QED
      BY <2>3, <2>4
  <1> QED
    BY <1>7, <1>8, <1>9, <1>10, <1>11, <1>12, <1>13, <1>14

\* The RTU executes the command of the handler that waits: the others are in
\* their cancel loops.
LEMMA RtuKeepsOthers ==
  ASSUME TypeOK, OneAtWork, NEW w \in Workers, StepInv, RtuHandles, ~Waits(w)
  PROVE  MoveInv(w)' /\ ResultsInv(w)'
  <1>1. ConnectionInv /\ MoveInv(w) /\ ResultsInv(w)
    BY DEF StepInv
  <1>2. /\ UNCHANGED <<pc, job, results, seen, telemetry, sampled>>
        /\ cmdQ # <<>>
    BY DEF RtuHandles, RtuStopsAxes, RtuAcceptsMove, RtuRefusesMove, RtuDoesOther,
       workerVars
  <1>3. PICK v \in Workers : Waits(v)
    BY <1>1, <1>2 DEF ConnectionInv
  <1>4. AtWork(v) /\ v # w
    BY <1>3 DEF Waits, AtWork, ReceivingPcs
  <1>5. pc[w] \in {"idle", "test", "raiseCancel"}
    BY <1>4 DEF OneAtWork, AtWork
  <1>6. moving' => ~Ended(rtu')
    BY <1>1 DEF RtuHandles, RtuStopsAxes, RtuAcceptsMove, RtuRefusesMove,
       RtuDoesOther, MoveInv, Ended, NoSample, rtuVars
  <1>7. MoveInv(w)'
    BY <1>1, <1>2, <1>5, <1>6 DEF MoveInv
  <1> QED
    BY <1>1, <1>2, <1>7 DEF ResultsInv

LEMMA RtuKeepsWaiting ==
  ASSUME TypeOK, NEW w \in Workers, StepInv, RtuHandles, Waits(w)
  PROVE  MoveInv(w)' /\ ResultsInv(w)'
  <1>9. ConnectionInv /\ MoveInv(w) /\ ResultsInv(w)
    BY DEF StepInv
  <1>1. /\ UNCHANGED <<pc, job, seen, telemetry, sampled, cancelSequence>>
        /\ cmdQ # <<>>
    BY DEF RtuHandles, RtuStopsAxes, RtuAcceptsMove, RtuRefusesMove, RtuDoesOther
  <1>2. /\ pc[w] \in ReceivingPcs /\ respQ = <<>>
        /\ cmdQ = <<[cmd |-> Awaited(w), step |-> StepOf(w)]>>
    BY <1>9, <1>1 DEF ConnectionInv, Waits
  <1>3. Head(cmdQ).cmd = Awaited(w) /\ Head(cmdQ).step = StepOf(w)
    BY <1>2
  <1>4. CASE RtuAcceptsMove
    <2>1. /\ rtu'.step = StepOf(w) /\ ~Ended(rtu')
          /\ Awaited(w) \in MoveCommands
      BY <1>3, <1>4 DEF RtuAcceptsMove, NoSample, Ended
    <2>2. ~(Sequencing(w) /\ pc[w] \in {"sendCmd", "recvCmd"})
      BY <1>2, <2>1 DEF Awaited, LastCommand, MoveCommands, ReceivingPcs,
         Sequencing, SequenceKinds
    <2>3. UNCHANGED <<pc, job, results, seen, telemetry, sampled, cancelSequence>>
      BY <1>4 DEF RtuAcceptsMove
    <2>4. pc[w] \notin {"settle", "readProbe", "readCondition", "readAbort",
                       "judge", "rest", "lower", "reset"}
      BY <1>2 DEF ReceivingPcs
    <2>5. w \notin sampled
      BY <1>9, <2>4 DEF MoveInv
    <2>6. pc[w] \in {"closeLink", "openLink", "sendStop", "recvStop"}
          => ~Sequencing(w)
      BY <1>9 DEF MoveInv
    <2>8. StepOf(w)' = StepOf(w) /\ (Sequencing(w)' <=> Sequencing(w))
      BY <2>3 DEF StepOf, Sequencing
    <2>9. MoveInv(w)'
      BY <2>1, <2>3, <2>2, <2>4, <2>5, <2>6, <2>8 DEF MoveInv
    <2> QED
      BY <1>9, <2>3, <2>9 DEF ResultsInv
  <1>5. CASE RtuStopsAxes \/ RtuRefusesMove \/ RtuDoesOther
    <2>0. UNCHANGED job
      BY <1>5 DEF RtuStopsAxes, RtuRefusesMove, RtuDoesOther
    <2>1. UNCHANGED <<rtu, results>> /\ (moving' => moving)
      BY <1>5 DEF RtuStopsAxes, RtuRefusesMove, RtuDoesOther
    <2>2. pc[w] = "recvMove" => RtuRefusesMove
      BY <1>2, <1>3, <1>5 DEF Awaited, MoveCommands, RtuStopsAxes, RtuDoesOther
    <2>3. RtuRefusesMove => respQ' = <<[cmd |-> Awaited(w), error |-> TRUE]>>
      <3>1. \A r : Append(<<>>, r) = <<r>>
        OBVIOUS
      <3> QED
        BY <1>2, <1>3, <3>1 DEF RtuRefusesMove, RtuAnswers
    <2>4. pc[w] = "recvMove" => Head(respQ').error
      BY <2>2, <2>3
    <2>6. StepOf(w)' = StepOf(w) /\ (Sequencing(w)' <=> Sequencing(w))
      BY <1>1, <2>0 DEF StepOf, Sequencing
    <2>7. MoveInv(w)'
      BY <1>9, <1>1, <2>1, <2>4, <2>6 DEF MoveInv, Ended
    <2> QED
      BY <1>9, <1>1, <2>0, <2>1, <2>7 DEF ResultsInv
  <1> QED
    BY <1>4, <1>5 DEF RtuHandles

\* The robot and the telemetry.
LEMMA RobotKeeps ==
  ASSUME TypeOK, OneAtWork, NEW w \in Workers, StepInv, Environment
  PROVE  MoveInv(w)' /\ ResultsInv(w)'
  <1>1. w \in Workers /\ pc \in [Workers -> Pcs] /\ rtu \in Samples
        /\ telemetry \in Samples /\ cmdQ \in Seq(Commands)
    BY DEF TypeOK
  <1>2. ConnectionInv /\ MoveInv(w) /\ ResultsInv(w)
    BY DEF StepInv
  <1>3. CASE LinkDrops
    <2>1. /\ UNCHANGED <<pc, job, results, seen, rtu, moving, telemetry, sampled,
                         cancelSequence>>
          /\ LinkEnds
      BY <1>3 DEF LinkDrops
    <2>2. pc[w] = "recvMove" => respQ' \in {<<>>, respQ}
      BY <1>2, <2>1, EndsOfOne DEF ConnectionInv, Waits, ReceivingPcs
    <2>3. MoveInv(w)'
      BY <1>2, <2>1, <2>2 DEF MoveInv, Ended, Sequencing, StepOf
    <2> QED
      BY <1>2, <2>1, <2>3 DEF ResultsInv
  <1>6. CASE RtuHandles
    BY <1>6, RtuKeepsOthers, RtuKeepsWaiting
  <1>7. CASE RtuEndsMove \/ RtuFaults
    <2>1. /\ UNCHANGED <<pc, job, results, seen, telemetry, sampled,
                         cancelSequence, respQ>>
          /\ ~moving' /\ rtu'.step = rtu.step
      BY <1>1, <1>7 DEF RtuEndsMove, RtuFaults, Samples
    <2> QED
      BY <1>2, <2>1 DEF MoveInv, Ended, Sequencing, StepOf,
         ResultsInv
  <1>8. CASE TelemetryArrives
    <2>1. /\ UNCHANGED <<pc, job, results, seen, rtu, moving, cancelSequence, respQ>>
          /\ telemetry' = rtu /\ (w \in sampled' => pc[w] = "settle")
      BY <1>8 DEF TelemetryArrives
    <2> QED
      BY <1>2, <2>1 DEF MoveInv, Ended, Sequencing, StepOf,
         ResultsInv
  <1> QED
    BY <1>3, <1>6, <1>7, <1>8 DEF Environment

\* A handler in its cancel loop, or in none, is not touched by the one at
\* work, and touches cancel_sequence only, to set it.
LEMMA OthersKeep ==
  ASSUME TypeOK, OneAtWork, OneAtWork', NEW w \in Workers,
         WorkerStep(w) \/ \E k \in Requests : Accept(w, k),
         NEW v \in Workers, v # w, StepInv
  PROVE  MoveInv(v)' /\ ResultsInv(v)'
  <1>1. /\ pc'[v] = pc[v] /\ job'[v] = job[v]
        /\ results'[v] = results[v] /\ seen'[v] = seen[v]
    BY OthersStay DEF StepInv
  <1>2. MoveInv(v) /\ ResultsInv(v)
    BY DEF StepInv
  <1>3. UNCHANGED <<rtu, moving, telemetry>> /\ sampled' \subseteq sampled
    BY DEF WorkerStep, SequenceStep, TestInProgress, RaiseCancel, ClearCancel,
       RaiseInProgress, SendHalt, HaltAnswered, SendMove, MoveAccepted, MoveRefused,
       Settle, ReadProbe, ReadCondition, ReadAbort, StepCancelled, StepExecuted, Rest,
       LowerInProgress, ResetCancel, SendStop, StopAnswered, SendCommand,
       CommandAnswered, Throw, CloseLink, OpenLink, EnterRecv, Accept, rtuVars
  <1>4. ResultsInv(v)'
    BY <1>1, <1>2 DEF ResultsInv
  <1>5. CASE ~AtWork(v)
    <2>1. pc[v] \in {"idle", "test", "raiseCancel"}
      BY <1>5 DEF AtWork
    <2>2. v \notin sampled'
      BY <1>2, <1>3, <2>1 DEF MoveInv
    <2>3. MoveInv(v)'
      BY <1>1, <1>2, <1>3, <2>1, <2>2 DEF MoveInv, Ended
    <2> QED
      BY <1>4, <2>3
  <1>6. CASE AtWork(v)
    <2>1. ~AtWork(w) /\ ~AtWork(w)'
      <3>1. AtWork(v)'
        BY <1>1, <1>6 DEF AtWork
      <3> QED
        BY <1>6, <3>1 DEF OneAtWork
    <2>2. TestInProgress(w) \/ RaiseCancel(w) \/ \E k \in Requests : Accept(w, k)
      BY <2>1 DEF AtWork, WorkerStep, SequenceStep, ClearCancel, RaiseInProgress,
         SendHalt, HaltAnswered, SendMove, MoveAccepted, MoveRefused, Settle,
         ReadProbe, ReadCondition, ReadAbort, StepCancelled, StepExecuted, Rest, LowerInProgress,
         ResetCancel, SendStop, StopAnswered, SendCommand, CommandAnswered, Throw,
         CloseLink, OpenLink, EnterRecv, ReceivingPcs
    <2>3. /\ UNCHANGED <<respQ, sampled>>
          /\ cancelSequence => cancelSequence'
      BY <2>2 DEF TestInProgress, RaiseCancel, Accept, flagVars, linkVars
    <2>4. StepOf(v)' = StepOf(v) /\ (Sequencing(v)' <=> Sequencing(v))
      BY <1>1 DEF StepOf, Sequencing
    <2>5. MoveInv(v)'
      BY <1>1, <1>2, <1>3, <2>3, <2>4 DEF MoveInv, Ended
    <2> QED
      BY <1>4, <2>5
  <1> QED
    BY <1>4, <1>5, <1>6

LEMMA StepInit == Init => StepInv
  <1> SUFFICES ASSUME Init PROVE StepInv
    OBVIOUS
  <1>1. \A w \in Workers : pc[w] = "idle" /\ results[w] = <<>>
    BY DEF Init
  <1>2. ConnectionInv
    BY <1>1 DEF Init, ConnectionInv, Waits, ReceivingPcs
  <1>3. \A w \in Workers : MoveInv(w)
    BY <1>1 DEF Init, MoveInv
  <1>4. \A w \in Workers : ResultsInv(w)
    BY <1>1 DEF ResultsInv
  <1> QED
    BY <1>2, <1>3, <1>4 DEF StepInv

LEMMA StepNext ==
  ASSUME TypeOK, TelemetryTimely, OneAtWork, OneAtWork', StepInv, [Next]_vars
  PROVE  StepInv'
  <1>1. ConnectionInv'
    BY ConnectionStep DEF StepInv
  <1>2. CASE UNCHANGED vars
    <2> SUFFICES ASSUME NEW w \in Workers
                 PROVE  MoveInv(w)' /\ ResultsInv(w)'
      BY <1>1 DEF StepInv
    <2>1. MoveInv(w)'
      BY <1>2 DEF vars, flagVars, linkVars, rtuVars, workerVars, StepInv, MoveInv,
         Ended, Sequencing, StepOf
    <2> QED
      BY <1>2, <2>1 DEF vars, workerVars, StepInv, ResultsInv
  <1>3. CASE Environment
    BY <1>1, <1>3, RobotKeeps DEF StepInv
  <1>4. ASSUME NEW w \in Workers,
               WorkerStep(w) \/ \E k \in Requests : Accept(w, k)
        PROVE  StepInv'
    <2>1. MoveInv(w)' /\ ResultsInv(w)'
      BY <1>4, EntryKeeps, StepKeeps, HandlerKeeps
         DEF WorkerStep, SequenceStep, StepInv
    <2>2. \A v \in Workers : v # w => MoveInv(v)' /\ ResultsInv(v)'
      BY <1>4, OthersKeep
    <2> QED
      BY <1>1, <2>1, <2>2 DEF StepInv
  <1> QED
    BY <1>2, <1>3, <1>4 DEF Next

LEMMA StepInvariant ==
  ASSUME TelemetryTimely PROVE Spec /\ []OneAtWork => []StepInv
  <1>1. TypeOK /\ OneAtWork /\ OneAtWork' /\ StepInv /\ [Next]_vars => StepInv'
    BY StepNext
  <1> QED
    BY <1>1, StepInit, TypeCorrect, PTL DEF Spec

\* With one handler at work at a time and timely telemetry the flags and
\* coordinates that a handler computes with are of the step they are recorded
\* for (execute_step), over cancels by any number of others, refused and
\* failed moves, lost connections and reconnections.
THEOREM ResultsAreTheSteps ==
  ASSUME TelemetryTimely
  PROVE  Spec /\ []OneAtWork => []StepResultsAreTheirOwn
  <1>1. StepInv => StepResultsAreTheirOwn
    BY DEF StepInv, ResultsInv, StepResultsAreTheirOwn
  <1> QED
    BY <1>1, StepInvariant, PTL

\* Under the same assumptions the home position is set while no axis moves
\* (determine_tube_center, determine_tubesheet_z).
THEOREM HomeAtRest ==
  ASSUME TelemetryTimely
  PROVE  Spec /\ []OneAtWork => []HomeIsSetAtRest
  <1>1. StepInv => HomeIsSetAtRest
    BY DEF StepInv, MoveInv, HomeIsSetAtRest
  <1> QED
    BY <1>1, StepInvariant, PTL

-----------------------------------------------------------------------------
(* The flag and its owner                                                  *)

\* An exception out of an execute_sequence call.
Exception ==
  \E w \in Workers : InCall(w) /\ (Throw(w) \/ pc'[w] = "throw")

\* Otherwise a call is left only by lowering the flag.
LEMMA CallsAreKept ==
  ASSUME TypeOK, ~Exception, [Next]_vars
  PROVE  \/ ~isSequenceInProgress'
         \/ \E w \in Workers : InCall(w)'
         \/ /\ isSequenceInProgress' = isSequenceInProgress
            /\ \A w \in Workers : InCall(w) => InCall(w)'
  <1>1. pc \in [Workers -> Pcs]
    BY DEF TypeOK
  <1>0. isSequenceInProgress \in BOOLEAN
    BY DEF TypeOK
  <1> USE <1>1 DEF InCall, CallPcs, Goto, flagVars
  <1>2. ASSUME NEW w \in Workers,
               \/ RaiseInProgress(w) \/ SendHalt(w) \/ HaltAnswered(w)
               \/ SendMove(w) \/ MoveAccepted(w) \/ Settle(w) \/ ReadProbe(w)
               \/ ReadCondition(w) \/ ReadAbort(w) \/ StepExecuted(w) \/ Rest(w)
        PROVE  InCall(w)'
    BY <1>2 DEF RaiseInProgress, SendHalt, HaltAnswered, SendMove, MoveAccepted,
       Settle, ReadProbe, ReadCondition, ReadAbort, StepExecuted, Rest
  <1>3. ASSUME NEW w \in Workers,
               MoveRefused(w) \/ StepCancelled(w) \/ LowerInProgress(w)
        PROVE  ~isSequenceInProgress'
    BY <1>3 DEF MoveRefused, StepCancelled, LowerInProgress
  <1>4. ASSUME NEW w \in Workers, Leaves(w), pc[w] \notin CallPcs
        PROVE  \A v \in Workers : InCall(v) => InCall(v)'
    BY <1>4 DEF Leaves
  <1>5. ASSUME NEW w \in Workers,
               \/ StopAnswered(w) \/ CommandAnswered(w) \/ ResetCancel(w)
               \/ Throw(w)
        PROVE  /\ isSequenceInProgress' \in {isSequenceInProgress, FALSE}
               /\ \A v \in Workers : InCall(v) => InCall(v)'
    <2>1. Leaves(w)
      BY <1>5, DoneLeaves, CommandLeaves, ReturnLeaves
         DEF StopAnswered, ResetCancel, Throw, Leaves
    <2>2. pc[w] \notin CallPcs
      BY <1>5 DEF StopAnswered, CommandAnswered, ResetCancel, Exception
    <2>3. isSequenceInProgress' \in {isSequenceInProgress, FALSE}
      BY <1>0, <1>5 DEF StopAnswered, CommandAnswered, ResetCancel, Throw
    <2> QED
      BY <1>4, <2>1, <2>2, <2>3
  <1>6. ASSUME NEW w \in Workers,
               \/ TestInProgress(w) \/ RaiseCancel(w) \/ ClearCancel(w)
               \/ SendStop(w) \/ SendCommand(w) \/ CloseLink(w) \/ EnterRecv(w)
               \/ \E k \in Requests : Accept(w, k)
        PROVE  /\ isSequenceInProgress' = isSequenceInProgress
               /\ \A v \in Workers : InCall(v) => InCall(v)'
    BY <1>6 DEF TestInProgress, RaiseCancel, ClearCancel, SendStop, SendCommand,
       CloseLink, EnterRecv, Accept
  <1>7. ASSUME NEW w \in Workers, OpenLink(w)
        PROVE  /\ isSequenceInProgress' = isSequenceInProgress
               /\ \A v \in Workers : InCall(v) => InCall(v)'
    <2>1. pc[w] \notin CallPcs /\ isSequenceInProgress' = isSequenceInProgress
      BY <1>7 DEF OpenLink
    <2>2. CASE Done(w)
      BY <1>4, <2>1, <2>2, DoneLeaves
    <2>3. CASE ~Done(w)
      <3>1. pc' = [v \in Workers |-> IF v = w THEN "sendCmd"
                    ELSE IF v \in reading THEN "throw" ELSE pc[v]]
        BY <1>7, <2>3 DEF OpenLink
      <3>2. ASSUME NEW v \in Workers, InCall(v) PROVE InCall(v)'
        BY <2>1, <3>1, <3>2 DEF Exception
      <3> QED
        BY <2>1, <3>2
    <2> QED
      BY <2>1, <2>2, <2>3
  <1>8. CASE Environment \/ UNCHANGED vars
    BY <1>8 DEF Environment, RtuHandles, RtuStopsAxes, RtuAcceptsMove,
       RtuRefusesMove, RtuDoesOther, RtuEndsMove, RtuFaults, TelemetryArrives,
       LinkDrops, workerVars, vars
  <1> QED
    BY <1>0, <1>2, <1>3, <1>5, <1>6, <1>7, <1>8 DEF Next, WorkerStep, SequenceStep

\* For any requests beside each other, over lost and renewed connections, only
\* an exception leaves is_sequence_in_progress up with nobody to lower it.
THEOREM FlagIsNotLeftUp == Spec => OnlyExceptionsLeaveItUp
  <1>1. TypeOK /\ [Next]_vars
          => [FlagHasOwner /\ ~FlagHasOwner' => Exception]_vars
    BY CallsAreKept DEF FlagHasOwner
  <1> QED
    BY <1>1, TypeCorrect, PTL DEF Spec, OnlyExceptionsLeaveItUp, Exception

=============================================================================
