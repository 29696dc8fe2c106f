----------------------------- MODULE SerialQueue -----------------------------
(***************************************************************************)
(* What $.ajaxQueue promises, whatever its fx queue, its sentinel and its  *)
(* timers: of the calls made, one is under way while the others wait, each *)
(* has its turn once, in the order of their making, and the end of one is  *)
(* the beginning of the next.                                              *)
(***************************************************************************)
EXTENDS Sequences

CONSTANT Calls

VARIABLES made,      \* the calls made so far
          waiting,   \* those still to be sent, in order
          active     \* the one under way, if there is one

vars == <<made, waiting, active>>

Init == made = {} /\ waiting = <<>> /\ active = {}

Make(c) ==
  /\ c \notin made
  /\ made' = made \cup {c}
  /\ IF active = {}
     THEN active' = {c} /\ UNCHANGED waiting
     ELSE waiting' = Append(waiting, c) /\ UNCHANGED active

Over ==
  /\ active # {}
  /\ IF waiting = <<>>
     THEN active' = {} /\ UNCHANGED waiting
     ELSE active' = {Head(waiting)} /\ waiting' = Tail(waiting)
  /\ UNCHANGED made

Next == Over \/ \E c \in Calls : Make(c)

Spec == Init /\ [][Next]_vars

=============================================================================
