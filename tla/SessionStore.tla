------------------------------ MODULE SessionStore ------------------------------
(***************************************************************************)
(* current_session and its file (session.cpp): requests change it in       *)
(* memory, load, create and delete sessions.  When they are saved is in    *)
(* EventStream.  Handlers run on the threads of one pool; nothing is       *)
(* locked.                                                                 *)
(*                                                                         *)
(* Of a session's data the model keeps the tubes marked as executed; a     *)
(* calibration point is changed and flagged in the same way.  The data is  *)
(* read and replaced as a whole; every other member, and the opening and   *)
(* the writing of a file, is a step of its own.                            *)
(***************************************************************************)
EXTENDS Naturals

CONSTANTS Workers,       \* threads of the pool (hardware_concurrency())
          Names, NoName, \* session names, and the empty one
          Tubes,
          MaxRequests    \* bound: requests in a behaviour

ASSUME NoNameIsNone == NoName \notin Names
ASSUME MaxRequestsNat == MaxRequests \in Nat
ASSUME SomeWorker == Workers # {}

VARIABLES
  name, data, is_loaded, is_changed,  \* current_session
  file,                               \* the session files
  job,                                \* what each worker is doing
  requests                            \* requests so far

memory == <<name, data, is_loaded, is_changed>>
storeVars == <<memory, file, job, requests>>

\* The marks, with the session they were made in.
Contents == [of : Names \cup {NoName}, tubes : SUBSET Tubes]
Fresh(n) == [of |-> n, tubes |-> {}]
\* The empty name has a file, too: sessions/.json.
Files == Names \cup {NoName}
\* Opening a file to write it empties it; one that two have written is no
\* more use than an empty one.
Absent == [state |-> "absent", data |-> Fresh(NoName)]
Empty == [state |-> "empty", data |-> Fresh(NoName)]
Whole(d) == [state |-> "whole", data |-> d]

TickPcs == {"tickOpen", "tickWrite", "tickDone", "tickSend"}
LoadPcs == {"loadLoaded", "loadName"}
CopyPcs == {"createName", "createLoaded", "createChanged", "createData"}
CreatePcs == {"createWrite"} \cup CopyPcs
Pcs == {"idle", "flag", "uploadOpen", "uploadWrite"}
         \cup LoadPcs \cup CreatePcs \cup TickPcs
Free == [pc |-> "idle", of |-> NoName]
AllFree == \A w \in Workers : job[w] = Free

Blank == /\ name = NoName /\ data = Fresh(NoName)
         /\ is_loaded = FALSE /\ is_changed = FALSE

StoreInit ==
  /\ Blank
  /\ file \in [Files -> {Absent} \cup {Whole(Fresh(n)) : n \in Names}]
  /\ \A n \in Files : file[n].state = "whole" => file[n].data.of = n
  /\ job = [w \in Workers |-> Free]
  /\ requests = 0

GoTo(w, pc) == job' = [job EXCEPT ![w].pc = pc]
Return(w) == job' = [job EXCEPT ![w] = Free]
At(w, pc) == job[w].pc = pc /\ UNCHANGED requests
Accept(w) == /\ job[w] = Free
             /\ requests < MaxRequests
             /\ requests' = requests + 1

\* What the file may hold once w has written d to what it has opened: d,
\* nothing new when the file has been deleted, and a mixture when another
\* has it open, or has written it meanwhile.
Writing(w) == job[w].pc \in {"createWrite", "uploadWrite", "tickWrite"}
Sole(w) == \A v \in Workers \ {w} : ~(Writing(v) /\ job[v].of = job[w].of)
Written(w, d) ==
  LET f == file[job[w].of]
  IN IF f.state = "absent" THEN {f}
     ELSE IF f.state = "empty" /\ Sole(w) THEN {Whole(d)}
     ELSE {f, Whole(d), Empty}
WriteFile(w, d) ==
  \E f \in Written(w, d) : file' = [file EXCEPT ![job[w].of] = f]

-----------------------------------------------------------------------------
(* Actions below with one defect each, to try the properties on.           *)

\* A change is not flagged.
FlagForgotten(w) ==
  /\ At(w, "flag")
  /\ Return(w)
  /\ UNCHANGED <<memory, file>>

\* to_json_to_disk leaves the plans out.
WriteWithoutPlans(w) ==
  /\ \/ At(w, "uploadWrite") /\ Return(w)
     \/ At(w, "tickWrite") /\ GoTo(w, "tickDone")
  /\ WriteFile(w, Fresh(data.of))
  /\ UNCHANGED memory

\* load() does not set the name.
LoadWithoutName(w) ==
  /\ At(w, "loadName")
  /\ Return(w)
  /\ UNCHANGED <<memory, file>>

-----------------------------------------------------------------------------
\* sessions_load: from_json_from_disk, or the exception of a file that
\* json::parse does not take; then is_loaded and name.
LoadData(w, n) ==
  /\ Accept(w)
  /\ IF file[n].state = "whole"
     THEN data' = file[n].data /\ job' = [job EXCEPT ![w] =
                                            [pc |-> "loadLoaded", of |-> n]]
     ELSE UNCHANGED <<data, job>>
  /\ UNCHANGED <<name, is_loaded, is_changed, file>>

LoadLoaded(w) ==
  /\ At(w, "loadLoaded")
  /\ is_loaded' = TRUE
  /\ GoTo(w, "loadName")
  /\ UNCHANGED <<name, data, is_changed, file>>

LoadName(w) ==
  /\ At(w, "loadName")
  /\ name' = job[w].of
  /\ Return(w)
  /\ UNCHANGED <<data, is_loaded, is_changed, file>>

\* sessions_create: the new session is saved, then copied, member by member
\* from name to plans, over current_session.
CreateOpen(w, n) ==
  /\ Accept(w)
  /\ file' = [file EXCEPT ![n] = Empty]
  /\ job' = [job EXCEPT ![w] = [pc |-> "createWrite", of |-> n]]
  /\ UNCHANGED memory

CreateWrite(w) ==
  /\ At(w, "createWrite")
  /\ WriteFile(w, Fresh(job[w].of))
  /\ GoTo(w, "createName")
  /\ UNCHANGED memory

CreateName(w) ==
  /\ At(w, "createName")
  /\ name' = job[w].of
  /\ GoTo(w, "createLoaded")
  /\ UNCHANGED <<data, is_loaded, is_changed, file>>

CreateLoaded(w) ==
  /\ At(w, "createLoaded")
  /\ is_loaded' = TRUE
  /\ GoTo(w, "createChanged")
  /\ UNCHANGED <<name, data, is_changed, file>>

CreateChanged(w) ==
  /\ At(w, "createChanged")
  /\ is_changed' = FALSE
  /\ GoTo(w, "createData")
  /\ UNCHANGED <<name, data, is_loaded, file>>

CreateData(w) ==
  /\ At(w, "createData")
  /\ data' = Fresh(job[w].of)
  /\ Return(w)
  /\ UNCHANGED <<name, is_loaded, is_changed, file>>

\* tubes_set_status: set_tube_executed sets the mark, then the flag.
MarkTube(w, t) ==
  /\ Accept(w)
  /\ \/ data' = [data EXCEPT !.tubes = @ \cup {t}]
     \/ data' = [data EXCEPT !.tubes = @ \ {t}]
  /\ GoTo(w, "flag")
  /\ UNCHANGED <<name, is_loaded, is_changed, file>>

FlagChanged(w) ==
  /\ At(w, "flag")
  /\ is_changed' = TRUE
  /\ Return(w)
  /\ UNCHANGED <<name, data, is_loaded, file>>

\* A plan uploaded again starts with no tube executed, and is saved at once.
UploadPlan(w) ==
  /\ Accept(w)
  /\ is_loaded
  /\ data' = [data EXCEPT !.tubes = {}]
  /\ GoTo(w, "uploadOpen")
  /\ UNCHANGED <<name, is_loaded, is_changed, file>>

\* plan_remove does not set is_changed.
RemovePlan(w) ==
  /\ Accept(w)
  /\ data' = [data EXCEPT !.tubes = {}]
  /\ UNCHANGED <<name, is_loaded, is_changed, file, job>>

DeleteSession(w, n) ==
  /\ Accept(w)
  /\ file' = [file EXCEPT ![n] = Absent]
  /\ UNCHANGED <<memory, job>>

\* save_to_disk opens the file that name says, then takes the data.
SaveOpen(w) ==
  /\ \E pcs \in {<<"tickOpen", "tickWrite">>, <<"uploadOpen", "uploadWrite">>} :
       /\ At(w, pcs[1])
       /\ job' = [job EXCEPT ![w] = [pc |-> pcs[2], of |-> name]]
  /\ file' = [file EXCEPT ![name] = Empty]
  /\ UNCHANGED memory

SaveWrite(w) ==
  /\ \/ At(w, "uploadWrite") /\ Return(w)
     \/ At(w, "tickWrite") /\ GoTo(w, "tickDone")
  /\ WriteFile(w, data)
  /\ UNCHANGED memory

\* The proxy is stopped and started again.
RestartStore ==
  /\ name' = NoName /\ data' = Fresh(NoName)
  /\ is_loaded' = FALSE /\ is_changed' = FALSE
  /\ job' = [w \in Workers |-> Free]
  /\ UNCHANGED <<file, requests>>

Request(w) ==
  \/ \E n \in Names : LoadData(w, n) \/ CreateOpen(w, n) \/ DeleteSession(w, n)
  \/ \E t \in Tubes : MarkTube(w, t)
  \/ UploadPlan(w) \/ RemovePlan(w)

StoreStep(w) ==
  \/ LoadLoaded(w) \/ LoadName(w)
  \/ CreateWrite(w) \/ CreateName(w) \/ CreateLoaded(w) \/ CreateChanged(w)
  \/ CreateData(w)
  \/ FlagChanged(w) \/ SaveOpen(w) \/ SaveWrite(w)

-----------------------------------------------------------------------------
\* The variables have their types, and a loaded session has a name, or load()
\* is about to set it.
Named == is_loaded => name # NoName \/ \E w \in Workers : job[w].pc = "loadName"
StoreTypeOK ==
  /\ name \in Files /\ Named
  /\ data \in Contents
  /\ is_loaded \in BOOLEAN /\ is_changed \in BOOLEAN
  /\ file \in [Files -> {Absent, Empty} \cup {Whole(d) : d \in Contents}]
  /\ job \in [Workers -> [pc : Pcs, of : Files]]
  /\ requests \in 0 .. MaxRequests

\* The file of a session holds that session: no save, while sessions are
\* loaded and created, puts the data of one under the name of another
\* (save_to_disk).
FilesKeepTheirSession ==
  \A n \in Names : file[n].state = "whole" => file[n].data.of = n

=============================================================================
