----------------------------- MODULE CommandLine -----------------------------
(***************************************************************************)
(* What the page's connection to the joystick server is, whatever sockets  *)
(* and timers it is made of: one line with one queue.  Commands arrive in  *)
(* the order of sending and at most once; a line that breaks while it is   *)
(* open loses what it carries, one that has not opened yet loses nothing;  *)
(* while it is down, what is sent is lost.  It is tried again a given      *)
(* number of times in a row, and not after that.                           *)
(***************************************************************************)
EXTENDS Naturals, Sequences

CONSTANTS Commands, MaxTries, Nothing

VARIABLES state,      \* "opening", "up", "waiting" or "over"
          tries,      \* since the line was last up
          queue,      \* sent and neither received nor lost
          sent,       \* the number of commands sent
          received    \* the last command received

vars == <<state, tries, queue, sent, received>>

Init ==
  /\ state = "opening" /\ tries = 0
  /\ queue = <<>> /\ sent = 0 /\ received = Nothing

Send(c) ==
  /\ sent' = sent + 1
  /\ queue' = IF state \in {"opening", "up"}
              THEN Append(queue, [cmd |-> c, n |-> sent + 1])
              ELSE queue
  /\ UNCHANGED <<state, tries, received>>

Open ==
  /\ state = "opening"
  /\ state' = "up" /\ tries' = 0
  /\ UNCHANGED <<queue, sent, received>>

Break ==
  /\ state \in {"opening", "up"}
  /\ queue' = IF state = "up" THEN <<>> ELSE queue
  /\ IF tries < MaxTries
     THEN state' = "waiting" /\ tries' = tries + 1
     ELSE state' = "over" /\ UNCHANGED tries
  /\ UNCHANGED <<sent, received>>

Retry ==
  /\ state = "waiting"
  /\ state' = "opening"
  /\ UNCHANGED <<tries, queue, sent, received>>

Receive ==
  /\ state = "up"
  /\ queue # <<>>
  /\ received' = Head(queue)
  /\ queue' = Tail(queue)
  /\ UNCHANGED <<state, tries, sent>>

Next == Open \/ Break \/ Retry \/ Receive \/ \E c \in Commands : Send(c)

Spec == Init /\ [][Next]_vars

=============================================================================
