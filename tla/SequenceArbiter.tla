--------------------------- MODULE SequenceArbiter ---------------------------
(***************************************************************************)
(* What cancel_sequence_in_progress and is_sequence_in_progress are for,   *)
(* without threads, flags or a robot: at most one execute_sequence call    *)
(* runs at a time, and a stop goes out only when every call begun before   *)
(* it was granted has ended.                                               *)
(***************************************************************************)
EXTENDS Naturals

VARIABLES running,   \* the number of the call that runs, 0 for none
          begun,     \* calls begun
          barrier    \* calls numbered up to this have been stopped

vars == <<running, begun, barrier>>

Init == running = 0 /\ begun = 0 /\ barrier = 0

Begin ==
  /\ running = 0
  /\ begun' = begun + 1
  /\ running' = begun + 1
  /\ UNCHANGED barrier

End ==
  /\ running # 0
  /\ running' = 0
  /\ UNCHANGED <<begun, barrier>>

\* A stop covers the calls begun up to b; none of them may still run.
Stop(b) ==
  /\ barrier < b
  /\ running # 0 => b < running
  /\ barrier' = b
  /\ UNCHANGED <<running, begun>>

Next == Begin \/ End \/ \E b \in 1 .. begun : Stop(b)

Spec == Init /\ [][Next]_vars

=============================================================================
