------------------------- MODULE TelemetryLink_proofs -------------------------
(***************************************************************************)
(* The watchdog's patience, for every timeout, every length of select()    *)
(* and any number of reconnections.                                        *)
(***************************************************************************)
EXTENDS TelemetryLink, TLAPS

\* Unless the watchdog has paused itself or a reset is outstanding, its wait is
\* as long as the time since the last reset.
WaitIsSinceReset ==
  /\ watchdog = "wait" /\ ~pauseFlag /\ ~resetFlag => waited = unfed
  /\ resetFlag /\ started => unfed = 0
  /\ started => watchdog # "off"
  /\ ~started => ~pauseFlag
  /\ ~started /\ caller \in {"notify", "start"} => resetFlag /\ unfed = 0
  /\ watchdog \in {"closeFlag", "closeSocket"} => pauseFlag /\ ~resetFlag

\* The watchdog does not stay paused beside an open connection.
ConnectionIsWatched ==
  isConnected /\ started /\ caller # "resume"
    => ~pauseFlag \/ watchdog = "closeFlag"

PatienceInv ==
  TypeOK /\ WaitIsSinceReset /\ WatchdogIsPatient /\ ConnectionIsWatched

\* TypeOK in two parts: the flags, and where threads and time are.
Flags ==
  /\ isConnected \in BOOLEAN /\ data \in BOOLEAN /\ sending \in BOOLEAN
  /\ started \in BOOLEAN /\ resetFlag \in BOOLEAN /\ pauseFlag \in BOOLEAN

Places ==
  /\ sock \in SocketStates /\ caller \in CallerPcs
  /\ loop \in LoopPcs /\ watchdog \in WatchdogPcs
  /\ selecting \in 0 .. ConnectTicks /\ reconnects \in 0 .. MaxReconnects
  /\ waited \in 0 .. WatchdogTicks /\ unfed \in 0 .. WatchdogTicks + 1
  /\ ~started => loop = "off" /\ watchdog = "off"

LEMMA TypeParts == (TypeOK <=> Flags /\ Places) /\ (TypeOK' <=> Flags' /\ Places')
  BY DEF TypeOK, Flags, Places

\* No thread is started, and nothing has been waited for, at the beginning.
LEMMA PatienceInit == Init => PatienceInv
  <1> SUFFICES ASSUME Init PROVE PatienceInv
    OBVIOUS
  <1>1. Flags
    BY Zenon DEF Init, Flags
  <1>2. Places
    BY TicksPositive, MaxReconnectsNat
       DEF Init, Places, SocketStates, CallerPcs, LoopPcs, WatchdogPcs
  <1>3. WaitIsSinceReset /\ WatchdogIsPatient /\ ConnectionIsWatched
    BY DEF Init, WaitIsSinceReset, WatchdogIsPatient, ConnectionIsWatched
  <1> QED
    BY <1>1, <1>2, <1>3, TypeParts DEF PatienceInv

\* The connecting thread feeds the watchdog or leaves it alone, and starts
\* it once.
LEMMA CallerKeepsPatience ==
  ASSUME PatienceInv, Reconnect \/ CallerStep
  PROVE  PatienceInv'
  <1>0. Flags /\ Places /\ WaitIsSinceReset /\ WatchdogIsPatient /\ ConnectionIsWatched
    BY TypeParts DEF PatienceInv
  <1> SUFFICES Flags' /\ Places' /\ WaitIsSinceReset' /\ WatchdogIsPatient' /\ ConnectionIsWatched'
    BY TypeParts DEF PatienceInv
  <1> USE DEF linkVars, callerVars, watchdogVars
  <1>1. CASE Reconnect
    <2>1. Flags'
      BY <1>0, <1>1, Zenon DEF Flags, Reconnect
    <2>2. Places'
      BY <1>0, <1>1, TicksPositive, MaxReconnectsNat
         DEF Places, Reconnect, SocketStates, CallerPcs, LoopPcs,
             WatchdogPcs
    <2>3. WaitIsSinceReset' /\ WatchdogIsPatient' /\ ConnectionIsWatched'
      BY <1>0, <1>1, TicksPositive
         DEF Places, WaitIsSinceReset, WatchdogIsPatient, ConnectionIsWatched, Reconnect
    <2> QED
      BY <2>1, <2>2, <2>3
  <1>2. CASE CloseFlag
    <2>1. Flags'
      BY <1>0, <1>2, Zenon DEF Flags, CloseFlag
    <2>2. Places'
      BY <1>0, <1>2, TicksPositive, MaxReconnectsNat
         DEF Places, CloseFlag, SocketStates, CallerPcs, LoopPcs,
             WatchdogPcs
    <2>3. WaitIsSinceReset' /\ WatchdogIsPatient' /\ ConnectionIsWatched'
      BY <1>0, <1>2, TicksPositive
         DEF Places, WaitIsSinceReset, WatchdogIsPatient, ConnectionIsWatched, CloseFlag
    <2> QED
      BY <2>1, <2>2, <2>3
  <1>3. CASE CloseSocket
    <2>1. Flags'
      BY <1>0, <1>3, Zenon DEF Flags, CloseSocket
    <2>2. Places'
      BY <1>0, <1>3, TicksPositive, MaxReconnectsNat
         DEF Places, CloseSocket, Shut, SocketStates, CallerPcs, LoopPcs,
             WatchdogPcs
    <2>3. WaitIsSinceReset' /\ WatchdogIsPatient' /\ ConnectionIsWatched'
      BY <1>0, <1>3, TicksPositive
         DEF Places, WaitIsSinceReset, WatchdogIsPatient, ConnectionIsWatched, CloseSocket, Shut
    <2> QED
      BY <2>1, <2>2, <2>3
  <1>4. CASE OpenSocket
    <2>1. Flags'
      BY <1>0, <1>4, Zenon DEF Flags, OpenSocket
    <2>2. Places'
      BY <1>0, <1>4, TicksPositive, MaxReconnectsNat
         DEF Places, OpenSocket, SocketStates, CallerPcs, LoopPcs,
             WatchdogPcs
    <2>3. WaitIsSinceReset' /\ WatchdogIsPatient' /\ ConnectionIsWatched'
      BY <1>0, <1>4, TicksPositive
         DEF Places, WaitIsSinceReset, WatchdogIsPatient, ConnectionIsWatched, OpenSocket
    <2> QED
      BY <2>1, <2>2, <2>3
  <1>5. CASE Established
    <2>1. Flags'
      BY <1>0, <1>5, Zenon DEF Flags, Established
    <2>2. Places'
      BY <1>0, <1>5, TicksPositive, MaxReconnectsNat
         DEF Places, Established, SocketStates, CallerPcs, LoopPcs,
             WatchdogPcs
    <2>3. WaitIsSinceReset' /\ WatchdogIsPatient' /\ ConnectionIsWatched'
      BY <1>0, <1>5, TicksPositive
         DEF Places, WaitIsSinceReset, WatchdogIsPatient, ConnectionIsWatched, Established
    <2> QED
      BY <2>1, <2>2, <2>3
  <1>6. CASE NotEstablished
    <2>1. Flags'
      BY <1>0, <1>6, Zenon DEF Flags, NotEstablished
    <2>2. Places'
      BY <1>0, <1>6, TicksPositive, MaxReconnectsNat
         DEF Places, NotEstablished, SocketStates, CallerPcs, LoopPcs,
             WatchdogPcs
    <2>3. WaitIsSinceReset' /\ WatchdogIsPatient' /\ ConnectionIsWatched'
      BY <1>0, <1>6, TicksPositive
         DEF Places, WaitIsSinceReset, WatchdogIsPatient, ConnectionIsWatched, NotEstablished
    <2> QED
      BY <2>1, <2>2, <2>3
  <1>7. CASE SetConnected
    <2>1. Flags'
      BY <1>0, <1>7, Zenon DEF Flags, SetConnected
    <2>2. Places'
      BY <1>0, <1>7, TicksPositive, MaxReconnectsNat
         DEF Places, SetConnected, SocketStates, CallerPcs, LoopPcs,
             WatchdogPcs
    <2>3. WaitIsSinceReset' /\ WatchdogIsPatient' /\ ConnectionIsWatched'
      BY <1>0, <1>7, TicksPositive
         DEF Places, WaitIsSinceReset, WatchdogIsPatient, ConnectionIsWatched, SetConnected
    <2> QED
      BY <2>1, <2>2, <2>3
  <1>8. CASE Resume
    <2>1. Flags'
      BY <1>0, <1>8, Zenon DEF Flags, Resume
    <2>2. Places'
      BY <1>0, <1>8, TicksPositive, MaxReconnectsNat
         DEF Places, Resume, WatchdogUnlocked, SocketStates, CallerPcs, LoopPcs,
             WatchdogPcs
    <2>3. WaitIsSinceReset' /\ WatchdogIsPatient' /\ ConnectionIsWatched'
      BY <1>0, <1>8, TicksPositive
         DEF Places, WaitIsSinceReset, WatchdogIsPatient, ConnectionIsWatched, Resume, WatchdogUnlocked
    <2> QED
      BY <2>1, <2>2, <2>3
  <1>9. CASE Notify
    <2>1. Flags'
      BY <1>0, <1>9, Zenon DEF Flags, Notify
    <2>2. Places'
      BY <1>0, <1>9, TicksPositive, MaxReconnectsNat
         DEF Places, Notify, SocketStates, CallerPcs, LoopPcs,
             WatchdogPcs
    <2>3. WaitIsSinceReset' /\ WatchdogIsPatient' /\ ConnectionIsWatched'
      BY <1>0, <1>9, TicksPositive
         DEF Places, WaitIsSinceReset, WatchdogIsPatient, ConnectionIsWatched, Notify
    <2> QED
      BY <2>1, <2>2, <2>3
  <1>10. CASE Start
    <2>1. Flags'
      BY <1>0, <1>10, Zenon DEF Flags, Start
    <2>2. Places'
      BY <1>0, <1>10, TicksPositive, MaxReconnectsNat
         DEF Places, Start, SocketStates, CallerPcs, LoopPcs,
             WatchdogPcs
    <2>3. WaitIsSinceReset' /\ WatchdogIsPatient' /\ ConnectionIsWatched'
      BY <1>0, <1>10, TicksPositive
         DEF Places, WaitIsSinceReset, WatchdogIsPatient, ConnectionIsWatched, Start
    <2> QED
      BY <2>1, <2>2, <2>3
  <1> QED
    BY <1>1, <1>2, <1>3, <1>4, <1>5, <1>6, <1>7, <1>8, <1>9, <1>10
       DEF CallerStep

\* The loop thread feeds the watchdog only while it waits.
LEMMA LoopKeepsPatience ==
  ASSUME PatienceInv, LoopStep
  PROVE  PatienceInv'
  <1>0. Flags /\ Places /\ WaitIsSinceReset /\ WatchdogIsPatient /\ ConnectionIsWatched
    BY TypeParts DEF PatienceInv
  <1> SUFFICES Flags' /\ Places' /\ WaitIsSinceReset' /\ WatchdogIsPatient' /\ ConnectionIsWatched'
    BY TypeParts DEF PatienceInv
  <1> USE DEF linkVars, callerVars, watchdogVars
  <1>1. CASE CheckConnected
    <2>1. Flags'
      BY <1>0, <1>1, Zenon DEF Flags, CheckConnected
    <2>2. Places'
      BY <1>0, <1>1, TicksPositive, MaxReconnectsNat
         DEF Places, CheckConnected, SocketStates, CallerPcs, LoopPcs,
             WatchdogPcs
    <2>3. WaitIsSinceReset' /\ WatchdogIsPatient' /\ ConnectionIsWatched'
      BY <1>0, <1>1, TicksPositive
         DEF Places, WaitIsSinceReset, WatchdogIsPatient, ConnectionIsWatched, CheckConnected
    <2> QED
      BY <2>1, <2>2, <2>3
  <1>2. CASE Park
    <2>1. Flags'
      BY <1>0, <1>2, Zenon DEF Flags, Park
    <2>2. Places'
      BY <1>0, <1>2, TicksPositive, MaxReconnectsNat
         DEF Places, Park, SocketStates, CallerPcs, LoopPcs,
             WatchdogPcs
    <2>3. WaitIsSinceReset' /\ WatchdogIsPatient' /\ ConnectionIsWatched'
      BY <1>0, <1>2, TicksPositive
         DEF Places, WaitIsSinceReset, WatchdogIsPatient, ConnectionIsWatched, Park
    <2> QED
      BY <2>1, <2>2, <2>3
  <1>3. CASE ReceiveData
    <2>1. Flags'
      BY <1>0, <1>3, Zenon DEF Flags, ReceiveData
    <2>2. Places'
      BY <1>0, <1>3, TicksPositive, MaxReconnectsNat
         DEF Places, ReceiveData, SocketStates, CallerPcs, LoopPcs,
             WatchdogPcs
    <2>3. WaitIsSinceReset' /\ WatchdogIsPatient' /\ ConnectionIsWatched'
      BY <1>0, <1>3, TicksPositive
         DEF Places, WaitIsSinceReset, WatchdogIsPatient, ConnectionIsWatched, ReceiveData
    <2> QED
      BY <2>1, <2>2, <2>3
  <1>4. CASE ReceiveNothing
    <2>1. Flags'
      BY <1>0, <1>4, Zenon DEF Flags, ReceiveNothing
    <2>2. Places'
      BY <1>0, <1>4, TicksPositive, MaxReconnectsNat
         DEF Places, ReceiveNothing, SocketStates, CallerPcs, LoopPcs,
             WatchdogPcs
    <2>3. WaitIsSinceReset' /\ WatchdogIsPatient' /\ ConnectionIsWatched'
      BY <1>0, <1>4, TicksPositive
         DEF Places, WaitIsSinceReset, WatchdogIsPatient, ConnectionIsWatched, ReceiveNothing
    <2> QED
      BY <2>1, <2>2, <2>3
  <1>5. CASE ResetWatchdog
    <2>1. Flags'
      BY <1>0, <1>5, Zenon DEF Flags, ResetWatchdog
    <2>2. Places'
      BY <1>0, <1>5, TicksPositive, MaxReconnectsNat
         DEF Places, ResetWatchdog, WatchdogUnlocked, SocketStates, CallerPcs, LoopPcs,
             WatchdogPcs
    <2>3. WaitIsSinceReset' /\ WatchdogIsPatient' /\ ConnectionIsWatched'
      BY <1>0, <1>5, TicksPositive
         DEF Places, WaitIsSinceReset, WatchdogIsPatient, ConnectionIsWatched, ResetWatchdog, WatchdogUnlocked
    <2> QED
      BY <2>1, <2>2, <2>3
  <1> QED
    BY <1>1, <1>2, <1>3, <1>4, <1>5
       DEF LoopStep

\* The watchdog expires at the end of a wait that no reset has cut short.
LEMMA WatchdogKeepsPatience ==
  ASSUME PatienceInv, WatchdogStep
  PROVE  PatienceInv'
  <1>0. Flags /\ Places /\ WaitIsSinceReset /\ WatchdogIsPatient /\ ConnectionIsWatched
    BY TypeParts DEF PatienceInv
  <1> SUFFICES Flags' /\ Places' /\ WaitIsSinceReset' /\ WatchdogIsPatient' /\ ConnectionIsWatched'
    BY TypeParts DEF PatienceInv
  <1> USE DEF linkVars, callerVars, watchdogVars
  <1>1. CASE Feed
    <2>1. Flags'
      BY <1>0, <1>1, Zenon DEF Flags, Feed
    <2>2. Places'
      BY <1>0, <1>1, TicksPositive, MaxReconnectsNat
         DEF Places, Feed, SocketStates, CallerPcs, LoopPcs,
             WatchdogPcs
    <2>3. WaitIsSinceReset' /\ WatchdogIsPatient' /\ ConnectionIsWatched'
      BY <1>0, <1>1, TicksPositive
         DEF Places, WaitIsSinceReset, WatchdogIsPatient, ConnectionIsWatched, Feed
    <2> QED
      BY <2>1, <2>2, <2>3
  <1>2. CASE ExpirePaused
    <2>1. Flags'
      BY <1>0, <1>2, Zenon DEF Flags, ExpirePaused
    <2>2. Places'
      BY <1>0, <1>2, TicksPositive, MaxReconnectsNat
         DEF Places, ExpirePaused, TimedOut, SocketStates, CallerPcs, LoopPcs,
             WatchdogPcs
    <2>3. WaitIsSinceReset' /\ WatchdogIsPatient' /\ ConnectionIsWatched'
      BY <1>0, <1>2, TicksPositive
         DEF Places, WaitIsSinceReset, WatchdogIsPatient, ConnectionIsWatched, ExpirePaused, TimedOut
    <2> QED
      BY <2>1, <2>2, <2>3
  <1>3. CASE Expire
    <2>1. Flags'
      BY <1>0, <1>3, Zenon DEF Flags, Expire
    <2>2. Places'
      BY <1>0, <1>3, TicksPositive, MaxReconnectsNat
         DEF Places, Expire, TimedOut, SocketStates, CallerPcs, LoopPcs,
             WatchdogPcs
    <2>3. unfed = WatchdogTicks
      BY <1>0, <1>3, TicksPositive
         DEF Places, WaitIsSinceReset, Expire, TimedOut
    <2>4. started /\ ~resetFlag
      BY <1>0, <1>3 DEF Places, Expire, TimedOut
    <2>5. WatchdogIsPatient'
      BY <1>3, <2>3 DEF WatchdogIsPatient, Expire
    <2>6. WaitIsSinceReset' /\ ConnectionIsWatched'
      BY <1>3, <2>4 DEF WaitIsSinceReset, ConnectionIsWatched, Expire
    <2> QED
      BY <2>1, <2>2, <2>5, <2>6
  <1>4. CASE WatchdogClosesFlag
    <2>1. Flags'
      BY <1>0, <1>4, Zenon DEF Flags, WatchdogClosesFlag
    <2>2. Places'
      BY <1>0, <1>4, TicksPositive, MaxReconnectsNat
         DEF Places, WatchdogClosesFlag, SocketStates, CallerPcs, LoopPcs,
             WatchdogPcs
    <2>3. WaitIsSinceReset' /\ WatchdogIsPatient' /\ ConnectionIsWatched'
      BY <1>0, <1>4, TicksPositive
         DEF Places, WaitIsSinceReset, WatchdogIsPatient, ConnectionIsWatched, WatchdogClosesFlag
    <2> QED
      BY <2>1, <2>2, <2>3
  <1>5. CASE WatchdogClosesSocket
    <2>1. Flags'
      BY <1>0, <1>5, Zenon DEF Flags, WatchdogClosesSocket
    <2>2. Places'
      BY <1>0, <1>5, TicksPositive, MaxReconnectsNat
         DEF Places, WatchdogClosesSocket, Shut, SocketStates, CallerPcs, LoopPcs,
             WatchdogPcs
    <2>3. WaitIsSinceReset' /\ WatchdogIsPatient' /\ ConnectionIsWatched'
      BY <1>0, <1>5, TicksPositive
         DEF Places, WaitIsSinceReset, WatchdogIsPatient, ConnectionIsWatched, WatchdogClosesSocket, Shut
    <2> QED
      BY <2>1, <2>2, <2>3
  <1> QED
    BY <1>1, <1>2, <1>3, <1>4, <1>5
       DEF WatchdogStep

\* A tick counts for the wait and for the time since the reset alike.
LEMMA TimeKeepsPatience ==
  ASSUME PatienceInv, FallSilent \/ SendAgain \/ Tick
  PROVE  PatienceInv'
  <1>0. Flags /\ Places /\ WaitIsSinceReset /\ WatchdogIsPatient /\ ConnectionIsWatched
    BY TypeParts DEF PatienceInv
  <1> SUFFICES Flags' /\ Places' /\ WaitIsSinceReset' /\ WatchdogIsPatient' /\ ConnectionIsWatched'
    BY TypeParts DEF PatienceInv
  <1> USE DEF linkVars, callerVars, watchdogVars
  <1>1. CASE FallSilent
    <2>1. Flags'
      BY <1>0, <1>1, Zenon DEF Flags, FallSilent
    <2>2. Places'
      BY <1>0, <1>1, TicksPositive, MaxReconnectsNat
         DEF Places, FallSilent, SocketStates, CallerPcs, LoopPcs,
             WatchdogPcs
    <2>3. WaitIsSinceReset' /\ WatchdogIsPatient' /\ ConnectionIsWatched'
      BY <1>0, <1>1, TicksPositive
         DEF Places, WaitIsSinceReset, WatchdogIsPatient, ConnectionIsWatched, FallSilent
    <2> QED
      BY <2>1, <2>2, <2>3
  <1>2. CASE SendAgain
    <2>1. Flags'
      BY <1>0, <1>2, Zenon DEF Flags, SendAgain
    <2>2. Places'
      BY <1>0, <1>2, TicksPositive, MaxReconnectsNat
         DEF Places, SendAgain, SocketStates, CallerPcs, LoopPcs,
             WatchdogPcs
    <2>3. WaitIsSinceReset' /\ WatchdogIsPatient' /\ ConnectionIsWatched'
      BY <1>0, <1>2, TicksPositive
         DEF Places, WaitIsSinceReset, WatchdogIsPatient, ConnectionIsWatched, SendAgain
    <2> QED
      BY <2>1, <2>2, <2>3
  <1>3. CASE Tick
    <2>1. Flags'
      BY <1>0, <1>3, Zenon DEF Flags, Tick
    <2>2. Places'
      BY <1>0, <1>3, TicksPositive, MaxReconnectsNat
         DEF Places, Tick, AllWait, SocketStates, CallerPcs, LoopPcs,
             WatchdogPcs
    <2>3. /\ watchdog = "off" \/ (watchdog = "wait" /\ ~resetFlag)
          /\ caller \in {"idle", "select"}
          /\ watchdog' = watchdog /\ resetFlag' = resetFlag
          /\ pauseFlag' = pauseFlag /\ started' = started /\ caller' = caller
          /\ isConnected' = isConnected
      <3>1. UNCHANGED <<isConnected, caller, started, watchdog, resetFlag,
                        pauseFlag>>
        BY <1>3, Zenon DEF Tick
      <3>2. /\ watchdog \in {"off", "wait"} /\ ~(watchdog = "wait" /\ resetFlag)
            /\ caller \in {"idle", "select"}
        BY <1>3, Zenon DEF Tick, AllWait
      <3> QED
        BY <3>1, <3>2, Zenon
    <2>4. watchdog = "wait" /\ ~pauseFlag /\ ~resetFlag => waited' = unfed'
      BY <1>0, <1>3, TicksPositive DEF Places, WaitIsSinceReset, Tick, AllWait
    <2>5. WaitIsSinceReset'
      BY <1>0, <2>3, <2>4 DEF WaitIsSinceReset
    <2>6. WatchdogIsPatient' /\ ConnectionIsWatched'
      BY <1>0, <2>3 DEF WatchdogIsPatient, ConnectionIsWatched
    <2> QED
      BY <2>1, <2>2, <2>5, <2>6
  <1> QED
    BY <1>1, <1>2, <1>3

\* PatienceInv is inductive.
LEMMA PatienceHolds == Spec => []PatienceInv
  <1>1. PatienceInv /\ [Next]_vars => PatienceInv'
    <2> SUFFICES ASSUME PatienceInv, [Next]_vars PROVE PatienceInv'
      OBVIOUS
    <2>1. CASE UNCHANGED vars
      BY <2>1 DEF vars, linkVars, callerVars, watchdogVars, PatienceInv,
         TypeOK, WaitIsSinceReset, WatchdogIsPatient, ConnectionIsWatched
    <2> QED
      BY <2>1, CallerKeepsPatience, LoopKeepsPatience, WatchdogKeepsPatience,
         TimeKeepsPatience DEF Next
  <1> QED
    BY PatienceInit, <1>1, PTL DEF Spec

\* The threads and the watchdog's counts are where they should be: the two
\* threads are off until start() has been called.
THEOREM LinkTypeCorrect == Spec => []TypeOK
  <1>1. PatienceInv => TypeOK
    BY DEF PatienceInv
  <1> QED
    BY PatienceHolds, <1>1, PTL

\* However resets, resumptions and expiry interleave (watchdogLoop), the
\* watchdog closes a connection only after a whole timeout without either.
THEOREM WatchdogPatience == Spec => []WatchdogIsPatient
  <1>1. PatienceInv => WatchdogIsPatient
    BY DEF PatienceInv
  <1> QED
    BY PatienceHolds, <1>1, PTL

\* An open connection is never beside a paused watchdog: connect() resumes it
\* even when the watchdog was closing the connection before, and a reset it
\* has not yet seen is no older than its wait.  So beside an open connection
\* there is never more than a timeout without a reset() (watchdogLoop).
THEOREM SilenceIsNoticedInTime == Spec => []SilenceHasADeadline
  <1>1. PatienceInv => SilenceHasADeadline
    <2> SUFFICES ASSUME PatienceInv, isConnected, started, caller # "resume"
                 PROVE  unfed <= WatchdogTicks
      BY DEF SilenceHasADeadline
    <2>1. Flags /\ Places /\ WaitIsSinceReset
      BY TypeParts DEF PatienceInv
    <2>2. ~pauseFlag \/ watchdog = "closeFlag"
      BY DEF PatienceInv, ConnectionIsWatched
    <2>3. CASE watchdog = "closeFlag"
      BY <2>3, TicksPositive DEF PatienceInv, WatchdogIsPatient
    <2>4. CASE resetFlag
      BY <2>1, <2>4, TicksPositive DEF WaitIsSinceReset
    <2>5. CASE ~pauseFlag /\ ~resetFlag
      <3>1. watchdog = "wait"
        BY <2>1, <2>5 DEF WaitIsSinceReset, Places, WatchdogPcs
      <3>2. waited = unfed
        BY <2>1, <2>5, <3>1 DEF WaitIsSinceReset
      <3> QED
        BY <2>1, <3>2, TicksPositive DEF Places
    <2> QED
      BY <2>1, <2>2, <2>3, <2>4, <2>5 DEF Flags
  <1> QED
    BY PatienceHolds, <1>1, PTL

=============================================================================
