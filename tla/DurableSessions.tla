--------------------------- MODULE DurableSessions ---------------------------
(***************************************************************************)
(* What the session files are for, without handlers that copy member by    *)
(* member and files that are opened before they are written: each of       *)
(* create, load, save and delete is one step, a session is only ever saved *)
(* under its own name, and only a crash loses marks: those in memory, and  *)
(* at most one file that was being written.                                *)
(***************************************************************************)
CONSTANTS Names, NoName, Tubes

VARIABLES stored,    \* the sessions on disk
          session    \* the one in memory

vars == <<stored, session>>

Gone(state) == [state |-> state, tubes |-> {}]
Kept(tubes) == [state |-> "whole", tubes |-> tubes]
NoSession == [of |-> NoName, tubes |-> {}]

Init ==
  /\ stored \in [Names -> {Gone("absent"), Kept({})}]
  /\ session = NoSession

Put(n, f) == stored' = [stored EXCEPT ![n] = f]

\* A session that is created is the one in memory, too.
Create(n) == Put(n, Kept({})) /\ session' = [of |-> n, tubes |-> {}]
Delete(n) == Put(n, Gone("absent")) /\ UNCHANGED session

Load(n) ==
  /\ stored[n].state = "whole"
  /\ session' = [of |-> n, tubes |-> stored[n].tubes]
  /\ UNCHANGED stored

\* One tube is marked or unmarked, or a plan goes with all its marks.
Change ==
  /\ \/ session' = [session EXCEPT !.tubes = {}]
     \/ \E t \in Tubes : \/ session' = [session EXCEPT !.tubes = @ \cup {t}]
                         \/ session' = [session EXCEPT !.tubes = @ \ {t}]
  /\ UNCHANGED stored

Save == /\ session.of \in Names
        /\ Put(session.of, Kept(session.tubes))
        /\ UNCHANGED session

Crash ==
  /\ session' = NoSession
  /\ stored' = stored \/ \E n \in Names : Put(n, Gone("empty"))

Next ==
  \/ \E n \in Names : Create(n) \/ Delete(n) \/ Load(n)
  \/ Change \/ Save \/ Crash

Spec == Init /\ [][Next]_vars

=============================================================================
