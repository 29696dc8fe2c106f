-------------------------- MODULE EventStream_proofs --------------------------
(***************************************************************************)
(* The session's file and the marks, for any sessions, tubes and pages.    *)
(* The types, and HIDE_CONNECT, hold with any number of workers and any    *)
(* interleaving of them.  That a file keeps its session needs loads and    *)
(* creations that overlap nothing that saves or changes; that no mark is   *)
(* forgotten needs saves apart from each other, too, and no mark between   *)
(* the tick's save and its is_changed = false; and that the handlers are   *)
(* atomic (DurableSessions) needs them one at a time.                      *)
(***************************************************************************)
EXTENDS EventStream, SequenceTheorems, TLAPS

\* A load or a creation overlaps no mark, upload or tick that saves.
Switching(w) == job[w].pc \in LoadPcs \cup CreatePcs
SwitchesAlone ==
  \A v, w \in Workers :
    v # w /\ Switching(v) => job[w].pc \in {"idle", "tickSend"}

\* No two saves overlap, and no mark falls between the tick's and its
\* is_changed = false.
Saving(w) == job[w].pc \in {"uploadWrite", "tickWrite"}
SavesApart == \A v, w \in Workers : Saving(v) /\ Saving(w) => v = w
MarksApart ==
  \A v, w \in Workers : job[v].pc = "tickDone" => job[w].pc # "flag"

\* No request and no tick begins while a handler is at work.
BeginsAlone == (\E w \in Workers : Request(w) \/ Tick(w)) => AllFree
OneHandlerAtATime == [][BeginsAlone]_vars

Jobs == [pc : Pcs, of : Files]
FileStates == {Absent, Empty} \cup {Whole(d) : d \in Contents}

\* A handler that loads or creates has a name, a session half created too,
\* and what is saved has been loaded.
JobNames ==
  \A w \in Workers :
    /\ Switching(w) => job[w].of \in Names
    /\ job[w].pc \in {"createLoaded", "createChanged", "createData"}
         => name # NoName
    /\ job[w].pc \in {"tickOpen", "uploadOpen"} \/ Saving(w) => is_loaded

-----------------------------------------------------------------------------
(* Data, files and handlers                                                *)

LEMMA FreshIsContents ==
  ASSUME NEW n \in Files
  PROVE  Fresh(n) \in Contents /\ Fresh(n).of = n /\ Fresh(n).tubes = {}
  BY DEF Fresh, Contents, Files

LEMMA MarkedContents ==
  ASSUME NEW d \in Contents, NEW ts \in SUBSET Tubes
  PROVE  /\ [d EXCEPT !.tubes = ts] \in Contents
         /\ [d EXCEPT !.tubes = ts].of = d.of
         /\ [d EXCEPT !.tubes = ts].tubes = ts
  BY DEF Contents

LEMMA FileFields ==
  /\ Absent.state = "absent" /\ Empty.state = "empty"
  /\ \A d : Whole(d).state = "whole" /\ Whole(d).data = d
  BY DEF Absent, Empty, Whole

LEMMA WholeFile ==
  ASSUME NEW f \in FileStates, f.state = "whole"
  PROVE  f.data \in Contents
  BY FileFields DEF FileStates

LEMMA JobFields ==
  ASSUME NEW j \in Jobs
  PROVE  j.pc \in Pcs /\ j.of \in Files
  BY DEF Jobs

LEMMA JobGoes ==
  ASSUME job \in [Workers -> Jobs], NEW w \in Workers, NEW pc \in Pcs, GoTo(w, pc)
  PROVE  /\ job' \in [Workers -> Jobs]
         /\ job'[w].pc = pc /\ job'[w].of = job[w].of
         /\ \A v \in Workers \ {w} : job'[v] = job[v]
  <1>1. job[w] \in Jobs
    OBVIOUS
  <1>2. /\ [job[w] EXCEPT !.pc = pc] \in Jobs /\ [job[w] EXCEPT !.pc = pc].pc = pc
        /\ [job[w] EXCEPT !.pc = pc].of = job[w].of
    BY <1>1 DEF Jobs
  <1>3. job' = [job EXCEPT ![w] = [job[w] EXCEPT !.pc = pc]]
    BY DEF GoTo
  <1> QED
    BY <1>2, <1>3

LEMMA JobBegins ==
  ASSUME job \in [Workers -> Jobs], NEW w \in Workers, NEW pc \in Pcs,
         NEW n \in Files, job' = [job EXCEPT ![w] = [pc |-> pc, of |-> n]]
  PROVE  /\ job' \in [Workers -> Jobs]
         /\ job'[w].pc = pc /\ job'[w].of = n
         /\ \A v \in Workers \ {w} : job'[v] = job[v]
  <1>1. [pc |-> pc, of |-> n] \in Jobs
    BY DEF Jobs
  <1> QED
    BY <1>1

LEMMA JobReturns ==
  ASSUME job \in [Workers -> Jobs], NEW w \in Workers, Return(w)
  PROVE  /\ job' \in [Workers -> Jobs]
         /\ job'[w].pc = "idle" /\ job'[w] = Free
         /\ \A v \in Workers \ {w} : job'[v] = job[v]
  <1>1. Free \in Jobs /\ Free.pc = "idle"
    BY DEF Free, Jobs, Pcs, Files
  <1> QED
    BY <1>1 DEF Return

-----------------------------------------------------------------------------
(* Places                                                                  *)

Busy(w) == Request(w) \/ StoreStep(w) \/ Tick(w) \/ TickDone(w) \/ TickSend(w)

LEMMA OthersStay ==
  ASSUME job \in [Workers -> Jobs], NEW w \in Workers, Busy(w)
  PROVE  \A v \in Workers \ {w} : job'[v] = job[v]
  <1>1. CASE Request(w)
    BY <1>1 DEF Request, LoadData, CreateOpen, DeleteSession, MarkTube, UploadPlan,
       RemovePlan, GoTo
  <1>2. CASE StoreStep(w)
    BY <1>2 DEF StoreStep, LoadLoaded, LoadName, CreateWrite, CreateName,
       CreateLoaded, CreateChanged, CreateData, FlagChanged, SaveOpen, SaveWrite,
       GoTo, Return
  <1>3. CASE Tick(w) \/ TickDone(w) \/ TickSend(w)
    BY <1>3 DEF Tick, TickDone, TickSend, GoTo, Return
  <1> QED
    BY <1>1, <1>2, <1>3 DEF Busy

\* Where a request begins, and what it leaves alone.
LEMMA RequestPlaces ==
  ASSUME job \in [Workers -> Jobs], NEW w \in Workers, Request(w)
  PROVE  /\ job[w] = Free /\ job[w].pc = "idle" /\ job' \in [Workers -> Jobs]
         /\ UNCHANGED <<name, is_loaded, is_changed>>
         /\ job'[w].pc \in {"idle", "flag", "uploadOpen", "loadLoaded", "createWrite"}
         /\ job'[w].pc = "uploadOpen" => is_loaded
         /\ \A n \in Names :
              /\ LoadData(w, n) /\ file[n].state = "whole"
                   => job'[w].pc = "loadLoaded" /\ job'[w].of = n
              /\ CreateOpen(w, n) => job'[w].pc = "createWrite" /\ job'[w].of = n
         /\ \A t \in Tubes : MarkTube(w, t) => job'[w].pc = "flag"
         /\ UploadPlan(w) => job'[w].pc = "uploadOpen"
         /\ job'[w].pc \in {"loadLoaded", "createWrite"} => job'[w].of \in Names
  <1>1. job[w] = Free /\ job[w].pc = "idle"
    BY DEF Request, LoadData, CreateOpen, DeleteSession, MarkTube, UploadPlan,
       RemovePlan, Accept, Free
  <1>2. UNCHANGED <<name, is_loaded, is_changed>>
    BY DEF Request, LoadData, CreateOpen, DeleteSession, MarkTube, UploadPlan,
       RemovePlan, memory
  <1>3. ASSUME NEW pc \in {"flag", "uploadOpen"}, GoTo(w, pc)
        PROVE  job' \in [Workers -> Jobs] /\ job'[w].pc = pc
    <2>1. pc \in Pcs
      BY DEF Pcs
    <2> QED
      BY <1>3, <2>1, JobGoes
  <1>4. ASSUME NEW pc \in {"loadLoaded", "createWrite"}, NEW n \in Names,
               job' = [job EXCEPT ![w] = [pc |-> pc, of |-> n]]
        PROVE  job' \in [Workers -> Jobs] /\ job'[w].pc = pc /\ job'[w].of = n
    <2>1. pc \in Pcs /\ n \in Files
      BY DEF Pcs, Files, LoadPcs, CreatePcs
    <2> QED
      BY <1>4, <2>1, JobBegins
  <1>5. ASSUME NEW n \in Names, LoadData(w, n)
        PROVE  IF file[n].state = "whole"
               THEN job' = [job EXCEPT ![w] = [pc |-> "loadLoaded", of |-> n]]
               ELSE job' = job
    BY <1>5 DEF LoadData
  <1>6. ASSUME NEW n \in Names
        PROVE  /\ CreateOpen(w, n)
                    => job' = [job EXCEPT ![w] = [pc |-> "createWrite", of |-> n]]
               /\ DeleteSession(w, n) => job' = job
    BY DEF CreateOpen, DeleteSession
  <1>7. /\ \A t \in Tubes : MarkTube(w, t) => GoTo(w, "flag")
        /\ UploadPlan(w) => GoTo(w, "uploadOpen") /\ is_loaded
        /\ RemovePlan(w) => job' = job
    BY DEF MarkTube, UploadPlan, RemovePlan
  <1>8. /\ job' \in [Workers -> Jobs]
        /\ \/ job'[w].pc \in {"idle", "flag"}
           \/ job'[w].pc = "uploadOpen" /\ is_loaded
           \/ job'[w].pc \in {"loadLoaded", "createWrite"} /\ job'[w].of \in Names
    BY <1>1, <1>3, <1>4, <1>5, <1>6, <1>7 DEF Request
  <1> QED
    BY <1>1, <1>2, <1>3, <1>4, <1>5, <1>6, <1>7, <1>8

\* Where every step begins and ends.
LEMMA StepPlaces ==
  ASSUME job \in [Workers -> Jobs], name \in Files, NEW w \in Workers, StoreStep(w)
  PROVE  /\ job' \in [Workers -> Jobs]
         /\ \/ job'[w].of = job[w].of \/ job'[w].pc = "idle"
            \/ SaveOpen(w) /\ job'[w].of = name
         /\ LoadLoaded(w) => job[w].pc = "loadLoaded" /\ job'[w].pc = "loadName"
         /\ LoadName(w) => job[w].pc = "loadName" /\ job'[w].pc = "idle"
         /\ CreateWrite(w) => job[w].pc = "createWrite" /\ job'[w].pc = "createName"
         /\ CreateName(w) => job[w].pc = "createName" /\ job'[w].pc = "createLoaded"
         /\ CreateLoaded(w)
              => job[w].pc = "createLoaded" /\ job'[w].pc = "createChanged"
         /\ CreateChanged(w)
              => job[w].pc = "createChanged" /\ job'[w].pc = "createData"
         /\ CreateData(w) => job[w].pc = "createData" /\ job'[w].pc = "idle"
         /\ FlagChanged(w) => job[w].pc = "flag" /\ job'[w].pc = "idle"
         /\ SaveOpen(w) =>
              /\ job'[w].of = name
              /\ \/ job[w].pc = "tickOpen" /\ job'[w].pc = "tickWrite"
                 \/ job[w].pc = "uploadOpen" /\ job'[w].pc = "uploadWrite"
         /\ SaveWrite(w) =>
              \/ job[w].pc = "tickWrite" /\ job'[w].pc = "tickDone"
              \/ job[w].pc = "uploadWrite" /\ job'[w].pc = "idle"
  <1>1. ASSUME NEW pc \in Pcs, GoTo(w, pc)
        PROVE  /\ job' \in [Workers -> Jobs]
               /\ job'[w].pc = pc /\ job'[w].of = job[w].of
    BY <1>1, JobGoes
  <1>2. ASSUME Return(w)
        PROVE  job' \in [Workers -> Jobs] /\ job'[w].pc = "idle"
    BY <1>2, JobReturns
  <1>3. {"loadName", "createName", "createLoaded", "createChanged", "createData",
         "tickWrite", "uploadWrite", "tickDone"} \subseteq Pcs
    BY DEF Pcs, LoadPcs, CreatePcs, CopyPcs, TickPcs
  <1>4. ASSUME SaveOpen(w)
        PROVE  /\ job' \in [Workers -> Jobs] /\ job'[w].of = name
               /\ \/ job[w].pc = "tickOpen" /\ job'[w].pc = "tickWrite"
                  \/ job[w].pc = "uploadOpen" /\ job'[w].pc = "uploadWrite"
    <2>1. PICK pcs \in {<<"tickOpen", "tickWrite">>, <<"uploadOpen", "uploadWrite">>} :
            /\ job[w].pc = pcs[1]
            /\ job' = [job EXCEPT ![w] = [pc |-> pcs[2], of |-> name]]
      BY <1>4 DEF SaveOpen, At
    <2>2. \/ pcs[1] = "tickOpen" /\ pcs[2] = "tickWrite"
          \/ pcs[1] = "uploadOpen" /\ pcs[2] = "uploadWrite"
      OBVIOUS
    <2>3. pcs[2] \in Pcs
      BY <1>3, <2>2
    <2> QED
      BY <2>1, <2>2, <2>3, JobBegins
  <1>5. CASE LoadLoaded(w) \/ LoadName(w)
    BY <1>1, <1>2, <1>3, <1>5 DEF LoadLoaded, LoadName, At, CreateWrite, CreateName,
       CreateLoaded, CreateChanged, CreateData, FlagChanged, SaveOpen, SaveWrite
  <1>6. CASE CreateWrite(w) \/ CreateName(w) \/ CreateLoaded(w)
    BY <1>1, <1>2, <1>3, <1>6 DEF LoadLoaded, LoadName, At, CreateWrite, CreateName,
       CreateLoaded, CreateChanged, CreateData, FlagChanged, SaveOpen, SaveWrite
  <1>7. CASE CreateChanged(w) \/ CreateData(w) \/ FlagChanged(w)
    BY <1>1, <1>2, <1>3, <1>7 DEF LoadLoaded, LoadName, At, CreateWrite, CreateName,
       CreateLoaded, CreateChanged, CreateData, FlagChanged, SaveOpen, SaveWrite
  <1>8. CASE SaveOpen(w)
    BY <1>4, <1>8 DEF LoadLoaded, LoadName, At, CreateWrite, CreateName,
       CreateLoaded, CreateChanged, CreateData, FlagChanged, SaveWrite
  <1>9. CASE SaveWrite(w)
    BY <1>1, <1>2, <1>3, <1>9 DEF LoadLoaded, LoadName, At, CreateWrite, CreateName,
       CreateLoaded, CreateChanged, CreateData, FlagChanged, SaveOpen, SaveWrite
  <1> QED
    BY <1>5, <1>6, <1>7, <1>8, <1>9 DEF StoreStep

LEMMA TickPlaces ==
  ASSUME job \in [Workers -> Jobs], NEW w \in Workers,
         Tick(w) \/ TickDone(w) \/ TickSend(w)
  PROVE  /\ job' \in [Workers -> Jobs]
         /\ Tick(w) => /\ job[w] = Free /\ job[w].pc = "idle"
                       /\ \A v \in Workers : job[v].pc \notin TickPcs
                       /\ \/ job'[w].pc = "tickOpen" /\ is_loaded
                          \/ job'[w].pc = "tickSend"
         /\ TickDone(w) => job[w].pc = "tickDone" /\ job'[w].pc = "tickSend"
         /\ TickSend(w) => job[w].pc = "tickSend" /\ job'[w].pc = "idle"
  <1>1. {"tickOpen", "tickSend"} \subseteq Pcs
    BY DEF Pcs, TickPcs
  <1>2. CASE Tick(w)
    <2>1. \/ GoTo(w, "tickOpen") /\ is_loaded
          \/ GoTo(w, "tickSend")
      BY <1>2 DEF Tick
    <2>2. job[w] = Free /\ job[w].pc = "idle"
      BY <1>2 DEF Tick, Free
    <2> QED
      BY <1>1, <1>2, <2>1, <2>2, JobGoes DEF Tick, TickDone, TickSend, At
  <1>3. CASE TickDone(w)
    BY <1>1, <1>3, JobGoes DEF Tick, TickDone, TickSend, At, Free
  <1>4. CASE TickSend(w)
    BY <1>4, JobReturns DEF Tick, TickDone, TickSend, At, Free
  <1> QED
    BY <1>2, <1>3, <1>4

-----------------------------------------------------------------------------
(* Types                                                                   *)

LEMMA StoreTypes ==
  /\ StoreTypeOK <=> /\ name \in Files /\ Named
                     /\ data \in Contents
                     /\ is_loaded \in BOOLEAN /\ is_changed \in BOOLEAN
                     /\ file \in [Files -> FileStates]
                     /\ job \in [Workers -> Jobs]
                     /\ requests \in 0 .. MaxRequests
  /\ StoreTypeOK' <=> /\ name' \in Files /\ Named'
                      /\ data' \in Contents
                      /\ is_loaded' \in BOOLEAN /\ is_changed' \in BOOLEAN
                      /\ file' \in [Files -> FileStates]
                      /\ job' \in [Workers -> Jobs]
                      /\ requests' \in 0 .. MaxRequests
  BY DEF StoreTypeOK, FileStates, Jobs

\* What a file becomes when it is opened, deleted or written.
LEMMA FileChanged ==
  ASSUME file \in [Files -> FileStates], NEW n \in Files, NEW f \in FileStates,
         file' = [file EXCEPT ![n] = f]
  PROVE  /\ file' \in [Files -> FileStates]
         /\ file'[n] = f /\ \A m \in Files \ {n} : file'[m] = file[m]
  OBVIOUS

LEMMA StatesOfFiles ==
  /\ Absent \in FileStates /\ Empty \in FileStates
  /\ \A d \in Contents : Whole(d) \in FileStates
  /\ \A f \in FileStates : f = Absent \/ f = Empty \/ \E d \in Contents : f = Whole(d)
  BY DEF FileStates

LEMMA FileWritten ==
  ASSUME file \in [Files -> FileStates], NEW w \in Workers, job[w].of \in Files,
         NEW d \in Contents, WriteFile(w, d)
  PROVE  /\ file' \in [Files -> FileStates]
         /\ file'[job[w].of] \in Written(w, d)
         /\ Written(w, d) \subseteq {file[job[w].of], Whole(d), Empty}
         /\ \A m \in Files \ {job[w].of} : file'[m] = file[m]
  <1>1. PICK f \in Written(w, d) : file' = [file EXCEPT ![job[w].of] = f]
    BY DEF WriteFile
  <1>2. Written(w, d) \subseteq {file[job[w].of], Whole(d), Empty}
    BY DEF Written
  <1>3. f \in FileStates
    BY <1>1, <1>2, StatesOfFiles
  <1> QED
    BY <1>1, <1>2, <1>3, FileChanged

LEMMA JobNamesAfter ==
  ASSUME JobNames, NEW w \in Workers, \A v \in Workers \ {w} : job'[v] = job[v],
         name' = name \/ name' # NoName, is_loaded' = is_loaded \/ is_loaded',
         Switching(w)' => job'[w].of \in Names,
         job'[w].pc \in {"createLoaded", "createChanged", "createData"}
           => name' # NoName,
         job'[w].pc \in {"tickOpen", "uploadOpen"} \/ Saving(w)' => is_loaded'
  PROVE  JobNames'
  BY DEF JobNames, Switching, Saving

LEMMA NamedAfter ==
  ASSUME Named, NEW w \in Workers, \A v \in Workers \ {w} : job'[v] = job[v],
         UNCHANGED <<name, is_loaded>>, job[w].pc # "loadName"
  PROVE  Named'
  BY DEF Named

LEMMA RequestType ==
  ASSUME StoreTypeOK, JobNames, NEW w \in Workers, Request(w)
  PROVE  StoreTypeOK' /\ JobNames'
  <1>0. /\ name \in Files /\ Named
        /\ data \in Contents /\ is_loaded \in BOOLEAN /\ is_changed \in BOOLEAN
        /\ file \in [Files -> FileStates] /\ job \in [Workers -> Jobs]
        /\ requests \in 0 .. MaxRequests /\ Names \subseteq Files
    BY StoreTypes DEF Files
  <1>1. requests' \in 0 .. MaxRequests
    <2>1. Accept(w)
      BY DEF Request, LoadData, CreateOpen, DeleteSession, MarkTube, UploadPlan,
         RemovePlan
    <2> QED
      BY <1>0, <2>1, MaxRequestsNat DEF Accept
  <1>2. /\ job[w].pc = "idle" /\ job' \in [Workers -> Jobs]
        /\ UNCHANGED <<name, is_loaded, is_changed>>
        /\ job'[w].pc \in {"idle", "flag", "uploadOpen", "loadLoaded", "createWrite"}
        /\ job'[w].pc = "uploadOpen" => is_loaded
        /\ job'[w].pc \in {"loadLoaded", "createWrite"} => job'[w].of \in Names
        /\ \A v \in Workers \ {w} : job'[v] = job[v]
    BY <1>0, RequestPlaces, OthersStay DEF Busy
  <1>3. Named'
    BY <1>0, <1>2, NamedAfter
  <1>4. JobNames'
    BY <1>2, JobNamesAfter DEF Switching, Saving, LoadPcs, CreatePcs, CopyPcs
  <1>5. data' \in Contents
    <2>1. data.tubes \subseteq Tubes
      BY <1>0 DEF Contents
    <2>2. ASSUME NEW n \in Names, LoadData(w, n)
          PROVE  data' \in Contents
      BY <1>0, <2>2, WholeFile DEF LoadData
    <2>3. ASSUME NEW t \in Tubes, MarkTube(w, t)
          PROVE  data' \in Contents
      <3>1. \/ data' = [data EXCEPT !.tubes = data.tubes \cup {t}]
            \/ data' = [data EXCEPT !.tubes = data.tubes \ {t}]
        BY <2>3 DEF MarkTube
      <3>2. data.tubes \cup {t} \in SUBSET Tubes /\ data.tubes \ {t} \in SUBSET Tubes
        BY <2>1
      <3> QED
        BY <1>0, <3>1, <3>2, MarkedContents
    <2>4. CASE UploadPlan(w) \/ RemovePlan(w)
      BY <1>0, <2>4, MarkedContents DEF UploadPlan, RemovePlan
    <2>5. ASSUME NEW n \in Names, CreateOpen(w, n) \/ DeleteSession(w, n)
          PROVE  data' \in Contents
      BY <1>0, <2>5 DEF CreateOpen, DeleteSession, memory
    <2> QED
      BY <2>2, <2>3, <2>4, <2>5 DEF Request
  <1>6. file' \in [Files -> FileStates]
    <2>1. \/ UNCHANGED file
          \/ \E n \in Names, f \in {Absent, Empty} : file' = [file EXCEPT ![n] = f]
      BY DEF Request, LoadData, CreateOpen, DeleteSession, MarkTube, UploadPlan,
         RemovePlan
    <2> QED
      BY <1>0, <2>1, FileChanged, StatesOfFiles
  <1> QED
    BY <1>0, <1>1, <1>2, <1>3, <1>4, <1>5, <1>6, StoreTypes

LEMMA StepType ==
  ASSUME StoreTypeOK, JobNames, NEW w \in Workers, StoreStep(w)
  PROVE  StoreTypeOK' /\ JobNames'
  <1>0. /\ name \in Files /\ Named
        /\ data \in Contents /\ is_loaded \in BOOLEAN /\ is_changed \in BOOLEAN
        /\ file \in [Files -> FileStates] /\ job \in [Workers -> Jobs]
        /\ requests \in 0 .. MaxRequests
        /\ job[w] \in Jobs /\ job[w].of \in Files /\ Names \subseteq Files
        /\ NoName \notin Names
    BY StoreTypes, JobFields, NoNameIsNone DEF Files
  <1>1. requests' = requests
    BY DEF StoreStep, LoadLoaded, LoadName, CreateWrite, CreateName, CreateLoaded,
       CreateChanged, CreateData, FlagChanged, SaveOpen, SaveWrite, At
  <1>2. job' \in [Workers -> Jobs] /\ \A v \in Workers \ {w} : job'[v] = job[v]
    BY <1>0, StepPlaces, OthersStay DEF Busy
  <1>3. CASE LoadLoaded(w) \/ LoadName(w)
    <2>1. /\ job[w].pc \in LoadPcs /\ job[w].of \in Names
          /\ UNCHANGED <<data, is_changed, file>>
      BY <1>0, <1>3, StepPlaces
      DEF LoadLoaded, LoadName, JobNames, Switching, LoadPcs
    <2>2. /\ is_loaded' \in BOOLEAN /\ (is_loaded' = is_loaded \/ is_loaded')
          /\ name' \in Files /\ (name' = name \/ name' # NoName)
          /\ job'[w].pc \in {"loadName", "idle"}
          /\ job'[w].pc = "loadName" => job'[w].of \in Names
          /\ name' # NoName \/ job'[w].pc = "loadName"
      BY <1>0, <1>3, <2>1, StepPlaces DEF LoadLoaded, LoadName, SaveOpen, At
    <2>3. Named'
      BY <2>2 DEF Named
    <2>4. JobNames'
      BY <1>2, <2>2, JobNamesAfter DEF Switching, Saving, LoadPcs, CreatePcs, CopyPcs
    <2> QED
      BY <1>0, <1>1, <1>2, <2>1, <2>2, <2>3, <2>4, StoreTypes
  <1>4. CASE CreateWrite(w)
    <2>1. /\ job[w].pc = "createWrite" /\ job'[w].pc = "createName"
          /\ job[w].of \in Names /\ job'[w].of \in Names
          /\ UNCHANGED <<name, data, is_loaded, is_changed>>
      BY <1>0, <1>4, StepPlaces
      DEF CreateWrite, memory, JobNames, Switching, CreatePcs, SaveOpen, At
    <2>2. file' \in [Files -> FileStates]
      BY <1>0, <1>4, <2>1, FreshIsContents, FileWritten DEF CreateWrite
    <2>3. Named'
      BY <1>0, <1>2, <2>1, NamedAfter
    <2>4. JobNames'
      BY <1>2, <2>1, JobNamesAfter DEF Switching, Saving
    <2> QED
      BY <1>0, <1>1, <1>2, <2>1, <2>2, <2>3, <2>4, StoreTypes
  <1>5. CASE CreateName(w) \/ CreateLoaded(w) \/ CreateChanged(w)
    <2>1. /\ job[w].pc \in {"createName", "createLoaded", "createChanged"}
          /\ job'[w].pc \in {"createLoaded", "createChanged", "createData"}
          /\ job[w].of \in Names /\ job'[w].of \in Names
          /\ UNCHANGED <<data, file>>
      BY <1>0, <1>5, StepPlaces
      DEF CreateName, CreateLoaded, CreateChanged, JobNames, Switching, CreatePcs,
          CopyPcs, SaveOpen, At
    <2>2. /\ name' \in Files /\ name' # NoName
          /\ is_loaded' \in BOOLEAN /\ (is_loaded' = is_loaded \/ is_loaded')
          /\ is_changed' \in BOOLEAN
      BY <1>0, <1>5, <2>1 DEF CreateName, CreateLoaded, CreateChanged, JobNames, At
    <2>3. Named'
      BY <2>2 DEF Named
    <2>4. JobNames'
      BY <1>2, <2>1, <2>2, JobNamesAfter DEF Switching, Saving
    <2> QED
      BY <1>0, <1>1, <1>2, <2>1, <2>2, <2>3, <2>4, StoreTypes
  <1>6. CASE CreateData(w) \/ FlagChanged(w)
    <2>1. /\ job[w].pc \in {"createData", "flag"} /\ job'[w].pc = "idle"
          /\ UNCHANGED <<name, is_loaded, file>>
      BY <1>0, <1>6, StepPlaces DEF CreateData, FlagChanged
    <2>2. data' \in Contents /\ is_changed' \in BOOLEAN
      BY <1>0, <1>6, FreshIsContents DEF CreateData, FlagChanged
    <2>3. Named'
      BY <1>0, <1>2, <2>1, NamedAfter
    <2>4. JobNames'
      BY <1>2, <2>1, JobNamesAfter DEF Switching, Saving, LoadPcs, CreatePcs, CopyPcs
    <2> QED
      BY <1>0, <1>1, <1>2, <2>1, <2>2, <2>3, <2>4, StoreTypes
  <1>7. CASE SaveOpen(w) \/ SaveWrite(w)
    <2>1. /\ job[w].pc \in {"tickOpen", "uploadOpen", "tickWrite", "uploadWrite"}
          /\ job'[w].pc \in {"tickWrite", "uploadWrite", "tickDone", "idle"}
          /\ UNCHANGED <<name, data, is_loaded, is_changed>>
      BY <1>0, <1>7, StepPlaces DEF SaveOpen, SaveWrite, memory
    <2>2. file' \in [Files -> FileStates]
      <3>1. CASE SaveOpen(w)
        BY <1>0, <3>1, FileChanged, StatesOfFiles DEF SaveOpen
      <3>2. CASE SaveWrite(w)
        BY <1>0, <3>2, FileWritten DEF SaveWrite
      <3> QED
        BY <1>7, <3>1, <3>2
    <2>3. Named'
      BY <1>0, <1>2, <2>1, NamedAfter
    <2>4. is_loaded'
      BY <2>1 DEF JobNames, Saving
    <2>5. JobNames'
      BY <1>2, <2>1, <2>4, JobNamesAfter DEF Switching, Saving, LoadPcs, CreatePcs,
         CopyPcs
    <2> QED
      BY <1>0, <1>1, <1>2, <2>1, <2>2, <2>3, <2>5, StoreTypes
  <1> QED
    BY <1>3, <1>4, <1>5, <1>6, <1>7 DEF StoreStep

\* The streams and the pages.
StreamTypeOK ==
  /\ linked \in BOOLEAN /\ hide_sent \in BOOLEAN /\ closed_left \in BOOLEAN
  /\ res \in Messages
  /\ sse_sessions \subseteq Pages
  /\ stream \in [Pages -> Seq(Messages)]
  /\ \A p \in Pages \ sse_sessions : stream[p] = <<>>
  /\ reconnect_dialog_shown \in [Pages -> BOOLEAN]
  /\ broken \in [Pages -> BOOLEAN]

LEMMA TypeParts ==
  /\ TypeOK <=> StoreTypeOK /\ StreamTypeOK
  /\ TypeOK' <=> StoreTypeOK' /\ StreamTypeOK'
  BY DEF TypeOK, StreamTypeOK

LEMMA StoreStays ==
  ASSUME StoreTypeOK, JobNames, UNCHANGED storeVars
  PROVE  StoreTypeOK' /\ JobNames'
  BY StoreTypes DEF storeVars, memory, JobNames, Switching, Saving, Named

LEMMA StreamsStay ==
  ASSUME StreamTypeOK, UNCHANGED <<streamVars, pageVars>>
  PROVE  StreamTypeOK'
  BY DEF StreamTypeOK, streamVars, pageVars

LEMMA TickTypes ==
  ASSUME TypeOK, JobNames, NEW w \in Workers, Tick(w) \/ TickDone(w) \/ TickSend(w)
  PROVE  TypeOK' /\ JobNames'
  <1>0. /\ StreamTypeOK /\ StoreTypeOK /\ Named /\ job \in [Workers -> Jobs]
        /\ \A v \in Workers \ {w} : job'[v] = job[v]
    BY TypeParts, StoreTypes, OthersStay DEF Busy
  <1>1. /\ job' \in [Workers -> Jobs]
        /\ job[w].pc \in {"idle", "tickDone", "tickSend"}
        /\ \/ job'[w].pc = "tickOpen" /\ is_loaded
           \/ job'[w].pc \in {"tickSend", "idle"}
    BY <1>0, TickPlaces
  <1>2. UNCHANGED <<name, data, is_loaded, file, requests>>
    BY DEF Tick, TickDone, TickSend, memory, At
  <1>3. Named'
    BY <1>0, <1>1, <1>2, NamedAfter
  <1>4. JobNames'
    BY <1>0, <1>1, <1>2, JobNamesAfter
    DEF Switching, Saving, LoadPcs, CreatePcs, CopyPcs
  <1>5. is_changed' \in BOOLEAN
    BY <1>0, StoreTypes DEF Tick, TickDone, TickSend, memory
  <1>6. StoreTypeOK'
    BY <1>0, <1>1, <1>2, <1>3, <1>5, StoreTypes
  <1>7. CASE Tick(w)
    <2>1. res' \in Messages /\ hide_sent' \in BOOLEAN
      <3>1. /\ res' = [show |-> ~linked, hide |-> linked /\ ~hide_sent]
            /\ hide_sent' = linked
        BY <1>7 DEF Tick
      <3>2. (~linked) \in BOOLEAN /\ (linked /\ ~hide_sent) \in BOOLEAN
        OBVIOUS
      <3> QED
        BY <1>0, <3>1, <3>2 DEF Messages, StreamTypeOK
    <2>2. UNCHANGED <<linked, sse_sessions, closed_left, pageVars>>
      BY <1>7 DEF Tick
    <2>3. StreamTypeOK'
      BY <1>0, <2>1, <2>2 DEF StreamTypeOK, pageVars
    <2> QED
      BY <1>4, <1>6, <2>3, TypeParts
  <1>8. CASE TickDone(w)
    <2>1. StreamTypeOK'
      BY <1>0, <1>8, StreamsStay DEF TickDone
    <2> QED
      BY <1>4, <1>6, <2>1, TypeParts
  <1>9. CASE TickSend(w)
    <2>1. res' \in Messages
      BY <1>9 DEF TickSend, NoRes, Messages
    <2>2. /\ stream' \in [Pages -> Seq(Messages)]
          /\ \A p \in Pages \ sse_sessions : stream'[p] = <<>>
      <3>1. stream' = [p \in Pages |-> IF p \in sse_sessions
                                       THEN Append(stream[p], res) ELSE stream[p]]
        BY <1>9 DEF TickSend
      <3>2. \A p \in Pages : Append(stream[p], res) \in Seq(Messages)
        BY <1>0, AppendProperties DEF StreamTypeOK
      <3> QED
        BY <1>0, <3>1, <3>2 DEF StreamTypeOK
    <2>3. closed_left' \in BOOLEAN
      BY <1>0, <1>9 DEF TickSend, StreamTypeOK
    <2>4. UNCHANGED <<linked, hide_sent, sse_sessions, reconnect_dialog_shown, broken>>
      BY <1>9 DEF TickSend
    <2>5. StreamTypeOK'
      BY <1>0, <2>1, <2>2, <2>3, <2>4 DEF StreamTypeOK
    <2> QED
      BY <1>4, <1>6, <2>5, TypeParts
  <1> QED
    BY <1>7, <1>8, <1>9

LEMMA EndType ==
  ASSUME StreamTypeOK, NEW ps \in SUBSET Pages, EndStreams(ps)
  PROVE  /\ sse_sessions' \subseteq Pages
         /\ stream' \in [Pages -> Seq(Messages)]
         /\ \A p \in Pages \ sse_sessions' : stream'[p] = <<>>
  <1>1. <<>> \in Seq(Messages)
    BY EmptySeq
  <1> QED
    BY <1>1 DEF EndStreams, StreamTypeOK

LEMMA PageTypes ==
  ASSUME StreamTypeOK, NEW p \in Pages,
         \/ \E w \in Workers : Register(w, p)
         \/ StreamBreaks(p) \/ Receive(p) \/ LeavePage(p)
  PROVE  StreamTypeOK'
  <1>1. CASE \E w \in Workers : Register(w, p)
    BY <1>1 DEF Register, StreamTypeOK, pageVars
  <1>2. CASE StreamBreaks(p)
    <2>1. {p} \in SUBSET Pages /\ EndStreams({p})
      BY <1>2 DEF StreamBreaks
    <2>2. broken' \in [Pages -> BOOLEAN] /\ closed_left' \in BOOLEAN
      BY <1>2 DEF StreamBreaks, StreamTypeOK
    <2> QED
      BY <1>2, <2>1, <2>2, EndType DEF StreamBreaks, StreamTypeOK
  <1>3. CASE Receive(p)
    <2>1. stream[p] \in Seq(Messages) /\ stream[p] # <<>>
      BY <1>3 DEF Receive, StreamTypeOK
    <2>2. Tail(stream[p]) \in Seq(Messages)
      BY <2>1, HeadTailProperties
    <2>3. stream' = [stream EXCEPT ![p] = Tail(stream[p])]
      BY <1>3 DEF Receive
    <2>4. stream' \in [Pages -> Seq(Messages)]
      BY <2>2, <2>3 DEF StreamTypeOK
    <2>5. \A q \in Pages \ sse_sessions : stream'[q] = <<>>
      BY <2>1, <2>3 DEF StreamTypeOK
    <2>6. \E b, c \in BOOLEAN :
            /\ reconnect_dialog_shown' = [reconnect_dialog_shown EXCEPT ![p] = b]
            /\ broken' = [broken EXCEPT ![p] = c]
      <3> DEFINE m == Head(stream[p])
                 b == (reconnect_dialog_shown[p] \/ m.show) /\ ~m.hide
                 c == broken[p] /\ ~m.hide
      <3>1. /\ reconnect_dialog_shown' = [reconnect_dialog_shown EXCEPT ![p] = b]
            /\ broken' = [broken EXCEPT ![p] = c]
        BY <1>3 DEF Receive
      <3>2. b \in BOOLEAN /\ c \in BOOLEAN
        OBVIOUS
      <3> HIDE DEF b, c
      <3> QED
        BY <3>1, <3>2
    <2>7. /\ reconnect_dialog_shown' \in [Pages -> BOOLEAN]
          /\ broken' \in [Pages -> BOOLEAN]
      BY <2>6 DEF StreamTypeOK
    <2>8. UNCHANGED streamVars
      BY <1>3 DEF Receive
    <2> QED
      BY <2>4, <2>5, <2>7, <2>8 DEF StreamTypeOK, streamVars
  <1>4. CASE LeavePage(p)
    <2>1. {p} \in SUBSET Pages /\ EndStreams({p})
      BY <1>4 DEF LeavePage
    <2>2. /\ broken' \in [Pages -> BOOLEAN]
          /\ reconnect_dialog_shown' \in [Pages -> BOOLEAN]
      BY <1>4 DEF LeavePage, StreamTypeOK
    <2>3. closed_left' \in BOOLEAN
      <3>1. closed_left' = (closed_left \/ p \in sse_sessions)
        BY <1>4 DEF LeavePage
      <3>2. (closed_left \/ p \in sse_sessions) \in BOOLEAN
        OBVIOUS
      <3> QED
        BY <3>1, <3>2, Zenon
    <2>4. UNCHANGED <<linked, hide_sent, res>>
      BY <1>4 DEF LeavePage
    <2> QED
      BY <2>1, <2>2, <2>3, <2>4, EndType DEF StreamTypeOK
  <1> QED
    BY <1>1, <1>2, <1>3, <1>4

LEMMA RestartTypes ==
  ASSUME TypeOK, JobNames, Restart
  PROVE  TypeOK' /\ JobNames'
  <1>0. StreamTypeOK /\ StoreTypeOK
    BY TypeParts
  <1>1. Free \in Jobs /\ Free.pc = "idle"
    BY DEF Free, Jobs, Pcs, Files
  <1>2. job' = [w \in Workers |-> Free]
    BY DEF Restart, RestartStore
  <1>3. job' \in [Workers -> Jobs] /\ JobNames'
    BY <1>1, <1>2 DEF JobNames, Switching, Saving, LoadPcs, CreatePcs, CopyPcs
  <1>4. Fresh(NoName) \in Contents
    BY FreshIsContents DEF Files
  <1>5. StoreTypeOK'
    BY <1>0, <1>3, <1>4, StoreTypes DEF Restart, RestartStore, Named, Files
  <1>6. res' \in Messages
    BY DEF Restart, NoRes, Messages
  <1>7. Pages \in SUBSET Pages /\ EndStreams(Pages)
    BY DEF Restart
  <1>8. /\ linked' \in BOOLEAN /\ hide_sent' \in BOOLEAN /\ closed_left' \in BOOLEAN
        /\ reconnect_dialog_shown' \in [Pages -> BOOLEAN]
        /\ broken' \in [Pages -> BOOLEAN]
    BY <1>0 DEF Restart, StreamTypeOK
  <1>9. StreamTypeOK'
    BY <1>0, <1>6, <1>7, <1>8, EndType DEF StreamTypeOK
  <1> QED
    BY <1>3, <1>5, <1>9, TypeParts

LEMMA StoreTyped ==
  ASSUME TypeOK, JobNames, [Next]_vars
  PROVE  TypeOK' /\ JobNames'
  <1>0. StreamTypeOK /\ StoreTypeOK
    BY TypeParts
  <1>1. CASE UNCHANGED vars
    BY <1>0, <1>1, StoreStays, StreamsStay, TypeParts DEF vars
  <1>2. CASE LinkChanges
    <2>1. StreamTypeOK'
      BY <1>0, <1>2 DEF LinkChanges, StreamTypeOK, pageVars
    <2> QED
      BY <1>0, <1>2, <2>1, StoreStays, TypeParts DEF LinkChanges
  <1>3. ASSUME NEW w \in Workers,
               Request(w) \/ StoreStep(w), UNCHANGED <<streamVars, pageVars>>
        PROVE  TypeOK' /\ JobNames'
    BY <1>0, <1>3, RequestType, StepType, StreamsStay, TypeParts
  <1>4. ASSUME NEW p \in Pages,
               \/ \E w \in Workers : Register(w, p)
               \/ StreamBreaks(p) \/ Receive(p) \/ LeavePage(p)
        PROVE  TypeOK' /\ JobNames'
    <2>1. UNCHANGED storeVars
      BY <1>4 DEF Register, StreamBreaks, Receive, LeavePage
    <2> QED
      BY <1>0, <1>4, <2>1, PageTypes, StoreStays, TypeParts
  <1> QED
    BY <1>1, <1>2, <1>3, <1>4, TickTypes, RestartTypes DEF Next, Step

LEMMA InitTyped ==
  ASSUME Init
  PROVE  TypeOK /\ JobNames
  <1>1. Free \in Jobs /\ Free.pc = "idle"
    BY DEF Free, Jobs, Pcs, Files
  <1>2. job \in [Workers -> Jobs] /\ JobNames
    BY <1>1 DEF Init, StoreInit, JobNames, Switching, Saving, LoadPcs, CreatePcs,
       CopyPcs
  <1>3. Fresh(NoName) \in Contents
    BY FreshIsContents DEF Files
  <1>4. file \in [Files -> FileStates]
    <2>1. \A n \in Names : Whole(Fresh(n)) \in FileStates
      BY FreshIsContents, StatesOfFiles DEF Files
    <2>2. {Absent} \cup {Whole(Fresh(n)) : n \in Names} \subseteq FileStates
      BY <2>1, StatesOfFiles
    <2> QED
      BY <2>2 DEF Init, StoreInit
  <1>5. StoreTypeOK
    <2>1. requests \in 0 .. MaxRequests
      BY MaxRequestsNat DEF Init, StoreInit
    <2>2. /\ name \in Files /\ data \in Contents
          /\ is_loaded = FALSE /\ is_changed = FALSE
      BY <1>3 DEF Init, StoreInit, Blank, Files
    <2> QED
      BY <1>2, <1>4, <2>1, <2>2, StoreTypes DEF Named
  <1>6. res \in Messages
    BY DEF Init, NoRes, Messages
  <1>7. StreamTypeOK
    BY <1>6, EmptySeq DEF Init, StreamTypeOK
  <1> QED
    BY <1>2, <1>5, <1>7, TypeParts

LEMMA TypeInvariant == Spec => [](TypeOK /\ JobNames)
  BY InitTyped, StoreTyped, PTL DEF Spec

\* The variables of the proxy, its files and its pages have their types, with
\* any number of threads and whatever they interleave; a loaded session has a
\* name but within load(), and no message is on its way to a page that does
\* not listen (session.cpp, event_stream_handler).
THEOREM StreamTypeCorrect == Spec => []TypeOK
  BY TypeInvariant, PTL

-----------------------------------------------------------------------------
(* Files keep their session                                                *)

\* What has been read or written so far, for what is going to be written: the
\* data in memory belong to the name, but for a switch that is half done.
Quiet == \A w \in Workers : ~Switching(w)
NamesInv ==
  /\ FilesKeepTheirSession
  /\ Quiet => data.of = name
  /\ \A w \in Workers :
       /\ job[w].pc \in LoadPcs => data.of = job[w].of
       /\ job[w].pc \in {"createWrite", "createName"} => data.of = name
       /\ job[w].pc \in {"createLoaded", "createChanged", "createData"}
            => name = job[w].of
       /\ Saving(w) => job[w].of = name

\* The file that was written holds its session, or nothing that can be read.
LEMMA WrittenKeeps ==
  ASSUME FilesKeepTheirSession, file \in [Files -> FileStates], NEW w \in Workers,
         job[w].of \in Files, NEW d \in Contents, WriteFile(w, d), d.of = job[w].of
  PROVE  FilesKeepTheirSession'
  <1>1. /\ file'[job[w].of] \in {file[job[w].of], Whole(d), Empty}
        /\ \A m \in Files \ {job[w].of} : file'[m] = file[m]
    BY FileWritten
  <1> QED
    BY <1>1, FileFields DEF FilesKeepTheirSession, Files

LEMMA RequestKeepsNames ==
  ASSUME StoreTypeOK, NamesInv, SwitchesAlone, SwitchesAlone',
         NEW w \in Workers, Request(w)
  PROVE  NamesInv'
  <1>0. /\ data \in Contents /\ file \in [Files -> FileStates]
        /\ job \in [Workers -> Jobs] /\ Names \subseteq Files
    BY StoreTypes DEF Files
  <1>1. /\ job[w].pc = "idle" /\ name' = name
        /\ job'[w].pc \in {"idle", "flag", "uploadOpen", "loadLoaded", "createWrite"}
        /\ \A v \in Workers \ {w} : job'[v] = job[v]
    BY <1>0, RequestPlaces, OthersStay DEF Busy
  <1>2. ASSUME FilesKeepTheirSession', data'.of = data.of,
               job'[w].pc # "loadLoaded"
        PROVE  NamesInv'
    <2>1. Quiet' => Quiet
      BY <1>1 DEF Quiet, Switching, LoadPcs, CreatePcs, CopyPcs
    <2>2. job'[w].pc = "createWrite" => Quiet
      BY <1>1 DEF SwitchesAlone, Quiet, Switching, LoadPcs, CreatePcs, CopyPcs
    <2> QED
      BY <1>1, <1>2, <2>1, <2>2
      DEF NamesInv, Saving, LoadPcs
  <1>3. ASSUME NEW n \in Names, LoadData(w, n)
        PROVE  NamesInv'
    <2>1. CASE file[n].state = "whole"
      <3>1. /\ data'.of = n /\ job'[w].pc = "loadLoaded" /\ job'[w].of = n
            /\ UNCHANGED file
        BY <1>0, <1>3, <2>1, RequestPlaces
        DEF LoadData, NamesInv, FilesKeepTheirSession
      <3>2. \A v \in Workers \ {w} : job'[v].pc \in {"idle", "tickSend"}
        BY <3>1 DEF SwitchesAlone, Switching, LoadPcs
      <3> QED
        BY <1>1, <3>1, <3>2 DEF NamesInv, FilesKeepTheirSession, Quiet, Switching,
           Saving, LoadPcs, CreatePcs, CopyPcs
    <2>2. CASE file[n].state # "whole"
      <3>1. UNCHANGED <<data, job, file, name>>
        BY <1>3, <2>2 DEF LoadData
      <3> QED
        BY <3>1 DEF NamesInv, FilesKeepTheirSession, Quiet, Switching, Saving
    <2> QED
      BY <2>1, <2>2
  <1>4. ASSUME NEW n \in Names, CreateOpen(w, n) \/ DeleteSession(w, n)
        PROVE  NamesInv'
    <2>1. \E f \in {Absent, Empty} : file' = [file EXCEPT ![n] = f]
      BY <1>4 DEF CreateOpen, DeleteSession
    <2>2. FilesKeepTheirSession'
      BY <1>0, <2>1, FileFields DEF NamesInv, FilesKeepTheirSession
    <2>3. data' = data /\ job'[w].pc # "loadLoaded"
      BY <1>0, <1>1, <1>4, RequestPlaces DEF CreateOpen, DeleteSession, memory
    <2> QED
      BY <1>2, <2>2, <2>3
  <1>5. CASE (\E t \in Tubes : MarkTube(w, t)) \/ UploadPlan(w) \/ RemovePlan(w)
    <2>1. file' = file /\ data'.of = data.of
      BY <1>0, <1>5 DEF MarkTube, UploadPlan, RemovePlan, Contents
    <2>2. job'[w].pc # "loadLoaded"
      BY <1>0, <1>1, <1>5, RequestPlaces DEF RemovePlan
    <2> QED
      BY <1>2, <2>1, <2>2 DEF NamesInv, FilesKeepTheirSession
  <1> QED
    BY <1>3, <1>4, <1>5 DEF Request

LEMMA StepKeepsNames ==
  ASSUME StoreTypeOK, JobNames, NamesInv, SwitchesAlone,
         NEW w \in Workers, StoreStep(w)
  PROVE  NamesInv'
  <1>0. /\ name \in Files /\ data \in Contents /\ file \in [Files -> FileStates]
        /\ job \in [Workers -> Jobs] /\ job[w].of \in Files /\ Names \subseteq Files
        /\ \A v \in Workers \ {w} : job'[v] = job[v]
    BY StoreTypes, JobFields, OthersStay DEF Files, Busy
  <1>1. CASE LoadLoaded(w)
    <2>1. /\ job[w].pc = "loadLoaded" /\ job'[w].pc = "loadName"
          /\ job'[w].of = job[w].of /\ UNCHANGED <<name, data, file>>
      BY <1>0, <1>1, StepPlaces DEF LoadLoaded, SaveOpen, At
    <2> QED
      BY <1>0, <2>1 DEF NamesInv, FilesKeepTheirSession, Quiet, Switching, Saving, LoadPcs
  <1>2. CASE LoadName(w) \/ CreateName(w)
    <2>1. /\ name' = job[w].of /\ UNCHANGED <<data, file>>
          /\ \/ job[w].pc = "loadName" /\ job'[w].pc = "idle"
             \/ /\ job[w].pc = "createName" /\ job'[w].pc = "createLoaded"
                /\ job'[w].of = job[w].of
      BY <1>0, <1>2, StepPlaces DEF LoadName, CreateName, SaveOpen, At
    <2>2. \A v \in Workers \ {w} : job'[v].pc \in {"idle", "tickSend"}
      BY <1>0, <2>1 DEF SwitchesAlone, Switching, LoadPcs, CreatePcs, CopyPcs
    <2>3. job[w].pc = "loadName" => data.of = job[w].of
      BY DEF NamesInv, LoadPcs
    <2> QED
      BY <2>1, <2>2, <2>3 DEF NamesInv, FilesKeepTheirSession, Quiet, Switching, Saving,
         LoadPcs, CreatePcs, CopyPcs
  <1>3. CASE CreateWrite(w)
    <2>1. /\ job[w].pc = "createWrite" /\ job'[w].pc = "createName"
          /\ UNCHANGED <<name, data>>
      BY <1>0, <1>3, StepPlaces DEF CreateWrite, memory
    <2>2. FilesKeepTheirSession'
      BY <1>0, <1>3, FreshIsContents, WrittenKeeps DEF NamesInv, CreateWrite
    <2> QED
      BY <1>0, <2>1, <2>2 DEF NamesInv, Quiet, Switching, Saving, LoadPcs, CreatePcs,
         CopyPcs
  <1>4. CASE CreateLoaded(w) \/ CreateChanged(w) \/ FlagChanged(w)
    <2>1. /\ UNCHANGED <<name, data, file>>
          /\ \/ /\ job[w].pc \in {"createLoaded", "createChanged"}
                /\ job'[w].pc \in {"createChanged", "createData"}
                /\ job'[w].of = job[w].of
             \/ job[w].pc = "flag" /\ job'[w].pc = "idle"
      BY <1>0, <1>4, StepPlaces
      DEF CreateLoaded, CreateChanged, FlagChanged, SaveOpen, At
    <2> QED
      BY <1>0, <2>1 DEF NamesInv, FilesKeepTheirSession, Quiet, Switching, Saving, LoadPcs,
         CreatePcs, CopyPcs
  <1>5. CASE CreateData(w)
    <2>1. /\ job[w].pc = "createData" /\ job'[w].pc = "idle"
          /\ data' = Fresh(job[w].of) /\ UNCHANGED <<name, file>>
      BY <1>0, <1>5, StepPlaces DEF CreateData
    <2>2. data'.of = name
      BY <1>0, <2>1, FreshIsContents DEF NamesInv
    <2>3. \A v \in Workers \ {w} : job'[v].pc \in {"idle", "tickSend"}
      BY <1>0, <2>1 DEF SwitchesAlone, Switching, LoadPcs, CreatePcs, CopyPcs
    <2> QED
      BY <2>1, <2>2, <2>3 DEF NamesInv, FilesKeepTheirSession, Quiet, Switching, Saving,
         LoadPcs, CreatePcs, CopyPcs
  <1>6. CASE SaveOpen(w)
    <2>1. /\ job[w].pc \in {"tickOpen", "uploadOpen"} /\ job'[w].of = name
          /\ job'[w].pc \in {"tickWrite", "uploadWrite"}
          /\ file' = [file EXCEPT ![name] = Empty] /\ UNCHANGED <<name, data>>
      BY <1>0, <1>6, StepPlaces DEF SaveOpen, memory
    <2>2. FilesKeepTheirSession'
      BY <1>0, <2>1, FileFields DEF NamesInv, FilesKeepTheirSession
    <2> QED
      BY <1>0, <2>1, <2>2 DEF NamesInv, Quiet, Switching, Saving, LoadPcs, CreatePcs,
         CopyPcs
  <1>7. CASE SaveWrite(w)
    <2>1. /\ Saving(w) /\ job'[w].pc \in {"tickDone", "idle"}
          /\ UNCHANGED <<name, data>>
      BY <1>0, <1>7, StepPlaces DEF SaveWrite, Saving, memory
    <2>2. Quiet
      BY <2>1 DEF SwitchesAlone, Quiet, Switching, Saving, LoadPcs, CreatePcs, CopyPcs
    <2>3. FilesKeepTheirSession'
      BY <1>0, <1>7, <2>1, <2>2, WrittenKeeps DEF NamesInv, SaveWrite
    <2> QED
      BY <1>0, <2>1, <2>2, <2>3 DEF NamesInv, Quiet, Switching, Saving, LoadPcs, CreatePcs,
         CopyPcs
  <1> QED
    BY <1>1, <1>2, <1>3, <1>4, <1>5, <1>6, <1>7 DEF StoreStep

LEMMA NamesKept ==
  ASSUME StoreTypeOK, JobNames, NamesInv, SwitchesAlone, SwitchesAlone', [Next]_vars
  PROVE  NamesInv'
  <1>0. job \in [Workers -> Jobs]
    BY StoreTypes
  <1>1. CASE UNCHANGED <<name, data, job, file>>
    BY <1>1 DEF NamesInv, FilesKeepTheirSession, Quiet, Switching, Saving
  <1>2. ASSUME NEW w \in Workers, Tick(w) \/ TickDone(w) \/ TickSend(w)
        PROVE  NamesInv'
    <2>1. /\ job[w].pc \in {"idle", "tickDone", "tickSend"}
          /\ job'[w].pc \in {"idle", "tickOpen", "tickSend"}
          /\ \A v \in Workers \ {w} : job'[v] = job[v]
      BY <1>0, <1>2, TickPlaces, OthersStay DEF Busy
    <2>2. UNCHANGED <<name, data, file>>
      BY <1>2 DEF Tick, TickDone, TickSend, memory
    <2> QED
      BY <2>1, <2>2 DEF NamesInv, FilesKeepTheirSession, Quiet, Switching, Saving, LoadPcs,
         CreatePcs, CopyPcs
  <1>3. CASE Restart
    <2>1. /\ name' = NoName /\ data'.of = NoName /\ UNCHANGED file
          /\ \A w \in Workers : job'[w].pc = "idle"
      BY <1>3, FreshIsContents DEF Restart, RestartStore, Free, Files
    <2> QED
      BY <2>1 DEF NamesInv, FilesKeepTheirSession, Saving, LoadPcs
  <1> QED
    BY <1>1, <1>2, <1>3, RequestKeepsNames, StepKeepsNames
    DEF Next, Step, vars, storeVars, memory, LinkChanges, Register, StreamBreaks, Receive,
        LeavePage

LEMMA NamesHold == Spec /\ []SwitchesAlone => []NamesInv
  <1>1. ASSUME Init
        PROVE  NamesInv
    <2>1. /\ data.of = name /\ \A w \in Workers : job[w].pc = "idle"
      BY <1>1, FreshIsContents DEF Init, StoreInit, Blank, Free, Files
    <2>2. FilesKeepTheirSession
      BY <1>1 DEF Init, StoreInit, FilesKeepTheirSession, Files
    <2> QED
      BY <2>1, <2>2 DEF NamesInv, Saving, LoadPcs
  <1>2. /\ TypeOK /\ JobNames /\ NamesInv /\ SwitchesAlone /\ SwitchesAlone' /\ [Next]_vars
        => NamesInv'
    BY NamesKept, TypeParts
  <1> QED
    BY <1>1, <1>2, TypeInvariant, PTL DEF Spec

\* While loads and creations overlap no mark, upload or save, a session's
\* file holds that session, whatever else goes on at once (marks, uploads,
\* the tick's saves, deletions, on any number of threads) and however often
\* the proxy is started again (save_to_disk).
THEOREM FilesBelong == Spec /\ []SwitchesAlone => []FilesKeepTheirSession
  <1>1. NamesInv => FilesKeepTheirSession
    BY DEF NamesInv
  <1> QED
    BY <1>1, NamesHold, PTL

-----------------------------------------------------------------------------
(* Marks                                                                   *)

Apart == SwitchesAlone /\ SavesApart /\ MarksApart

\* Of the marks of the loaded session: they are saved, or flagged with no
\* tick about to take the flag down, or about to be flagged or written.
MarksKept ==
  \/ file[name].state = "absent"
  \/ data.tubes \subseteq file[name].data.tubes
  \/ is_changed /\ \A w \in Workers : job[w].pc # "tickDone"
  \/ \E w \in Workers : job[w].pc = "flag" \/ Saving(w)

\* The session that is being loaded is the one in its file, and a file that
\* is being saved has nothing in it.
MarksInv ==
  /\ Quiet /\ is_loaded => MarksKept
  /\ \A w \in Workers :
       /\ job[w].pc \in LoadPcs =>
            \/ file[job[w].of].state = "absent"
            \/ data.tubes \subseteq file[job[w].of].data.tubes
       /\ Saving(w) => file[job[w].of].state # "whole"

LEMMA RequestKeepsMarks ==
  ASSUME StoreTypeOK, JobNames, MarksInv, SwitchesAlone, SwitchesAlone',
         NEW w \in Workers, Request(w)
  PROVE  MarksInv'
  <1>0. /\ data \in Contents /\ file \in [Files -> FileStates] /\ name \in Files
        /\ job \in [Workers -> Jobs] /\ Names \subseteq Files
        /\ \A v \in Workers : job[v].of \in Files
    BY StoreTypes, JobFields DEF Files
  <1>1. /\ job[w].pc = "idle" /\ UNCHANGED <<name, is_loaded, is_changed>>
        /\ job'[w].pc \in {"idle", "flag", "uploadOpen", "loadLoaded", "createWrite"}
        /\ \A v \in Workers \ {w} : job'[v] = job[v]
    BY <1>0, RequestPlaces, OthersStay DEF Busy
  <1>2. job'[w].pc \in {"loadLoaded", "createWrite"} =>
          /\ ~Quiet' /\ \A v \in Workers \ {w} : job'[v].pc \in {"idle", "tickSend"}
    BY DEF SwitchesAlone, Quiet, Switching, LoadPcs, CreatePcs
  <1>3. ASSUME NEW n \in Names, LoadData(w, n)
        PROVE  MarksInv'
    <2>1. CASE file[n].state = "whole"
      <3>1. /\ data' = file[n].data /\ UNCHANGED file
            /\ job'[w].pc = "loadLoaded" /\ job'[w].of = n
        BY <1>0, <1>3, <2>1, RequestPlaces DEF LoadData
      <3> QED
        BY <1>2, <3>1 DEF MarksInv, LoadPcs, Saving
    <2>2. CASE file[n].state # "whole"
      <3>1. UNCHANGED <<data, job, file, name, is_loaded, is_changed>>
        BY <1>3, <2>2 DEF LoadData
      <3> QED
        BY <3>1 DEF MarksInv, MarksKept, Quiet, Switching, Saving
    <2> QED
      BY <2>1, <2>2
  <1>4. ASSUME NEW n \in Names, CreateOpen(w, n)
        PROVE  MarksInv'
    <2>1. job'[w].pc = "createWrite"
      BY <1>0, <1>4, RequestPlaces
    <2> QED
      BY <1>2, <2>1 DEF MarksInv, LoadPcs, Saving
  <1>5. ASSUME NEW n \in Names, DeleteSession(w, n)
        PROVE  MarksInv'
    <2>1. UNCHANGED <<data, job, name, is_loaded, is_changed>>
      BY <1>5 DEF DeleteSession, memory
    <2>2. /\ file'[n].state = "absent" /\ \A m \in Files \ {n} : file'[m] = file[m]
      BY <1>0, <1>5, FileChanged, StatesOfFiles, FileFields DEF DeleteSession
    <2> QED
      BY <1>0, <2>1, <2>2 DEF MarksInv, MarksKept, Quiet, Switching, Saving
  <1>6. ASSUME NEW t \in Tubes, MarkTube(w, t)
        PROVE  MarksInv'
    <2>1. job'[w].pc = "flag" /\ UNCHANGED file
      BY <1>0, <1>6, RequestPlaces DEF MarkTube
    <2>2. \A v \in Workers : job'[v].pc \notin LoadPcs
      BY <2>1 DEF SwitchesAlone, Switching, LoadPcs
    <2> QED
      BY <1>1, <2>1, <2>2 DEF MarksInv, MarksKept, Saving
  <1>7. CASE UploadPlan(w) \/ RemovePlan(w)
    <2>1. data'.tubes = {} /\ UNCHANGED file
      BY <1>0, <1>7, MarkedContents DEF UploadPlan, RemovePlan
    <2>2. job'[w].pc \in {"idle", "uploadOpen"}
      BY <1>0, <1>1, <1>7, RequestPlaces DEF RemovePlan, UploadPlan
    <2> QED
      BY <1>1, <2>1, <2>2 DEF MarksInv, MarksKept, LoadPcs, Saving
  <1> QED
    BY <1>3, <1>4, <1>5, <1>6, <1>7 DEF Request

LEMMA StepKeepsMarks ==
  ASSUME StoreTypeOK, JobNames, NamesInv, MarksInv, Apart, Apart',
         NEW w \in Workers, StoreStep(w)
  PROVE  MarksInv'
  <1>0. /\ name \in Files /\ data \in Contents /\ file \in [Files -> FileStates]
        /\ job \in [Workers -> Jobs] /\ job[w].of \in Files
        /\ \A v \in Workers \ {w} : job'[v] = job[v]
    BY StoreTypes, JobFields, OthersStay DEF Busy
  <1>1. CASE LoadLoaded(w)
    <2>1. /\ job[w].pc = "loadLoaded" /\ job'[w].pc = "loadName"
          /\ job'[w].of = job[w].of /\ UNCHANGED <<data, file>>
      BY <1>0, <1>1, StepPlaces DEF LoadLoaded, SaveOpen, At
    <2>2. ~Quiet'
      BY <2>1 DEF Quiet, Switching, LoadPcs
    <2> QED
      BY <1>0, <2>1, <2>2 DEF MarksInv, LoadPcs, Saving
  <1>2. CASE LoadName(w)
    <2>1. /\ job[w].pc = "loadName" /\ job'[w].pc = "idle"
          /\ name' = job[w].of /\ UNCHANGED <<data, file>>
      BY <1>0, <1>2, StepPlaces DEF LoadName
    <2> QED
      BY <1>0, <2>1 DEF MarksInv, MarksKept, LoadPcs, Saving
  <1>3. CASE CreateWrite(w) \/ CreateName(w) \/ CreateLoaded(w) \/ CreateChanged(w)
    <2>1. job[w].pc \in CreatePcs /\ job'[w].pc \in CopyPcs
      BY <1>0, <1>3, StepPlaces DEF CreatePcs, CopyPcs
    <2>2. /\ ~Quiet'
          /\ \A v \in Workers \ {w} : job'[v].pc \in {"idle", "tickSend"}
      BY <2>1 DEF Apart, SwitchesAlone, Quiet, Switching, CreatePcs
    <2> QED
      BY <2>1, <2>2 DEF MarksInv, LoadPcs, CopyPcs, Saving
  <1>4. CASE CreateData(w)
    <2>1. /\ job[w].pc = "createData" /\ job'[w].pc = "idle"
          /\ data' = Fresh(job[w].of) /\ UNCHANGED <<name, file>>
      BY <1>0, <1>4, StepPlaces DEF CreateData
    <2>2. data'.tubes = {}
      BY <1>0, <2>1, FreshIsContents
    <2> QED
      BY <1>0, <2>1, <2>2 DEF MarksInv, MarksKept, LoadPcs, Saving
  <1>5. CASE FlagChanged(w)
    <2>1. /\ job[w].pc = "flag" /\ job'[w].pc = "idle"
          /\ is_changed' = TRUE /\ UNCHANGED <<name, data, file>>
      BY <1>0, <1>5, StepPlaces DEF FlagChanged
    <2>2. \A v \in Workers : job'[v].pc # "tickDone"
      BY <1>0, <2>1 DEF Apart, MarksApart
    <2> QED
      BY <1>0, <2>1, <2>2 DEF MarksInv, MarksKept, LoadPcs, Saving
  <1>6. CASE SaveOpen(w)
    <2>1. /\ job'[w].pc \in {"tickWrite", "uploadWrite"} /\ job'[w].of = name
          /\ file'[name] = Empty
      BY <1>0, <1>6, StepPlaces, FileChanged, StatesOfFiles DEF SaveOpen
    <2>2. /\ \A v \in Workers : job'[v].pc \notin LoadPcs
          /\ \A v \in Workers \ {w} : ~Saving(v)' /\ Saving(w)'
      BY <2>1 DEF Apart, SwitchesAlone, SavesApart, Switching, LoadPcs, Saving
    <2> QED
      BY <2>1, <2>2, FileFields DEF MarksInv, MarksKept, Saving
  <1>7. CASE SaveWrite(w)
    <2>1. /\ Saving(w) /\ job'[w].pc \in {"tickDone", "idle"}
          /\ UNCHANGED <<name, data>>
      BY <1>0, <1>7, StepPlaces DEF SaveWrite, Saving, memory
    <2>2. /\ \A v \in Workers : ~Switching(v)
          /\ \A v \in Workers \ {w} : ~Saving(v)
      BY <2>1 DEF Apart, SwitchesAlone, SavesApart, Switching, Saving, LoadPcs, CreatePcs,
         CopyPcs
    <2>3. Sole(w)
      BY <2>2 DEF Sole, Writing, Saving, Switching, CreatePcs
    <2>4. file[job[w].of].state \in {"absent", "empty"} /\ job[w].of = name
      BY <1>0, <2>1, StatesOfFiles, FileFields DEF MarksInv, NamesInv
    <2>5. file'[name].state = "absent" \/ file'[name] = Whole(data)
      BY <1>0, <1>7, <2>3, <2>4, FileWritten DEF SaveWrite, Written
    <2>6. /\ \A v \in Workers : ~Saving(v)' /\ job'[v].pc \notin LoadPcs
      BY <1>0, <2>1, <2>2 DEF Saving, Switching, LoadPcs
    <2> QED
      BY <2>1, <2>5, <2>6, FileFields DEF MarksInv, MarksKept
  <1> QED
    BY <1>1, <1>2, <1>3, <1>4, <1>5, <1>6, <1>7 DEF StoreStep

LEMMA MarksStay ==
  ASSUME StoreTypeOK, JobNames, NamesInv, MarksInv, Apart, Apart', [Next]_vars
  PROVE  MarksInv'
  <1>0. job \in [Workers -> Jobs]
    BY StoreTypes
  <1>1. CASE UNCHANGED <<memory, job, file>>
    BY <1>1 DEF MarksInv, MarksKept, Quiet, Switching, Saving, memory
  <1>2. ASSUME NEW w \in Workers, Tick(w) \/ TickSend(w)
        PROVE  MarksInv'
    <2>1. /\ job[w].pc \in {"idle", "tickSend"}
          /\ job'[w].pc \in {"idle", "tickOpen", "tickSend"}
          /\ \A v \in Workers \ {w} : job'[v] = job[v]
      BY <1>0, <1>2, TickPlaces, OthersStay DEF Busy
    <2>2. UNCHANGED <<name, data, is_loaded, is_changed, file>>
      BY <1>2 DEF Tick, TickSend, memory
    <2>3. Quiet' => Quiet
      BY <2>1 DEF Quiet, Switching, LoadPcs, CreatePcs, CopyPcs
    <2>4. MarksKept => MarksKept'
      BY <2>1, <2>2 DEF MarksKept, Saving
    <2> QED
      BY <2>1, <2>2, <2>3, <2>4 DEF MarksInv, LoadPcs, Saving
  <1>3. ASSUME NEW w \in Workers, TickDone(w)
        PROVE  MarksInv'
    <2>1. /\ job[w].pc = "tickDone" /\ job'[w].pc = "tickSend"
          /\ \A v \in Workers \ {w} : job'[v] = job[v]
      BY <1>0, <1>3, TickPlaces, OthersStay DEF Busy
    <2>2. UNCHANGED <<name, data, is_loaded, file>>
      BY <1>3 DEF TickDone
    <2>3. Quiet /\ \A v \in Workers : job[v].pc # "flag"
      BY <2>1 DEF Apart, SwitchesAlone, MarksApart, Quiet, Switching, LoadPcs, CreatePcs,
         CopyPcs
    <2>4. MarksKept => MarksKept'
      BY <2>1, <2>2, <2>3 DEF MarksKept, Saving
    <2> QED
      BY <2>1, <2>2, <2>3, <2>4 DEF MarksInv, LoadPcs, Saving
  <1>4. CASE Restart
    <2>1. is_loaded' = FALSE /\ \A w \in Workers : job'[w].pc = "idle"
      BY <1>4 DEF Restart, RestartStore, Free
    <2> QED
      BY <2>1 DEF MarksInv, LoadPcs, Saving
  <1> QED
    BY <1>1, <1>2, <1>3, <1>4, RequestKeepsMarks, StepKeepsMarks
    DEF Next, Step, vars, storeVars, LinkChanges, Register, StreamBreaks, Receive,
        LeavePage, Apart

\* With any number of threads: while, besides, no two saves overlap and no
\* mark falls between the tick's save and its is_changed = false, every mark
\* of the loaded session is in its file or flagged to be saved whenever no
\* handler is at work (event_stream_handler).
THEOREM MarksAreNotForgotten == Spec /\ []Apart => []MarksAreSavedOrFlagged
  <1>1. ASSUME Init
        PROVE  MarksInv
    <2>1. is_loaded = FALSE /\ \A w \in Workers : job[w].pc = "idle"
      BY <1>1 DEF Init, StoreInit, Blank, Free
    <2> QED
      BY <2>1 DEF MarksInv, LoadPcs, Saving
  <1>2. /\ TypeOK /\ JobNames /\ NamesInv /\ MarksInv /\ Apart /\ Apart' /\ [Next]_vars
        => MarksInv'
    BY MarksStay, TypeParts
  <1>3. ASSUME MarksInv
        PROVE  MarksAreSavedOrFlagged
    <2>1. AllFree => \A w \in Workers : job[w].pc = "idle"
      <3>1. Free.pc = "idle"
        BY DEF Free
      <3> QED
        BY <3>1 DEF AllFree
    <2> QED
      BY <1>3, <2>1 DEF MarksInv, MarksKept, MarksAreSavedOrFlagged, Quiet, Switching,
         Saving, LoadPcs, CreatePcs, CopyPcs
  <1>4. Apart => SwitchesAlone
    BY DEF Apart
  <1> QED
    BY <1>1, <1>2, <1>3, <1>4, TypeInvariant, NamesHold, PTL DEF Spec

-----------------------------------------------------------------------------
(* The handlers are atomic                                                 *)

\* One handler at a time, and the file that it writes is open.
Alone(w) == \A v \in Workers \ {w} : job[v] = Free
HandlerInv ==
  /\ \A v, w \in Workers : job[v] # Free /\ job[w] # Free => v = w
  /\ \A w \in Workers : Writing(w) => file[job[w].of] = Empty

\* A worker that begins, or goes on, is the only one at work.
LEMMA StepsAreAlone ==
  ASSUME StoreTypeOK, HandlerInv, [BeginsAlone]_vars, ~UNCHANGED storeVars,
         NEW w \in Workers, Busy(w)
  PROVE  Alone(w)
  <1>1. CASE Request(w) \/ Tick(w)
    <2>1. ~UNCHANGED vars
      BY DEF vars
    <2> QED
      BY <1>1, <2>1 DEF BeginsAlone, AllFree, Alone
  <1>2. CASE StoreStep(w) \/ TickDone(w) \/ TickSend(w)
    <2>1. job[w].pc # "idle"
      BY <1>2, StoreTypes, StepPlaces, TickPlaces DEF StoreStep
    <2> QED
      BY <2>1 DEF Free, HandlerInv, Alone
  <1> QED
    BY <1>1, <1>2 DEF Busy

LEMMA AloneIsApart ==
  ASSUME \A v, w \in Workers : job[v] # Free /\ job[w] # Free => v = w
  PROVE  SwitchesAlone
  <1>1. Free.pc = "idle"
    BY DEF Free
  <1> QED
    BY <1>1 DEF SwitchesAlone, Switching, LoadPcs, CreatePcs, CopyPcs

\* A handler that is alone saves under the name of the session, which it has.
LEMMA SavesByName ==
  ASSUME StoreTypeOK, JobNames, NamesInv, NEW w \in Workers, Alone(w),
         job[w].pc \in {"tickOpen", "uploadOpen"} \/ Saving(w)
  PROVE  name \in Names /\ data.of = name /\ (Saving(w) => job[w].of = name)
  <1>1. \A v \in Workers : ~Switching(v)
    <2>1. Free.pc = "idle"
      BY DEF Free
    <2> QED
      BY <2>1 DEF Alone, Switching, Saving, LoadPcs, CreatePcs, CopyPcs
  <1>2. is_loaded /\ Named /\ name \in Files
    BY StoreTypes DEF JobNames
  <1>3. name # NoName
    BY <1>1, <1>2 DEF Named, Switching, LoadPcs
  <1> QED
    BY <1>1, <1>2, <1>3 DEF Files, NamesInv, Quiet

LEMMA OpenKept ==
  ASSUME StoreTypeOK, JobNames, NamesInv, HandlerInv, NEW w \in Workers, Alone(w),
         Busy(w)
  PROVE  Writing(w)' => file'[job'[w].of] = Empty
  <1>0. /\ name \in Files /\ file \in [Files -> FileStates]
        /\ job \in [Workers -> Jobs] /\ Names \subseteq Files
    BY StoreTypes DEF Files
  <1>1. CASE Request(w)
    <2>1. ASSUME Writing(w)'
          PROVE  \E n \in Names : CreateOpen(w, n)
      <3>1. job'[w].pc = "createWrite" /\ job[w].pc = "idle"
        BY <1>0, <1>1, <2>1, RequestPlaces DEF Writing
      <3> QED
        BY <1>0, <1>1, <3>1, RequestPlaces
        DEF Request, LoadData, DeleteSession, RemovePlan
    <2>2. ASSUME NEW n \in Names, CreateOpen(w, n)
          PROVE  file'[n] = Empty /\ job'[w].of = n
      BY <1>0, <1>1, <2>2, RequestPlaces, FileChanged, StatesOfFiles DEF CreateOpen
    <2> QED
      BY <2>1, <2>2
  <1>2. CASE SaveOpen(w)
    BY <1>0, <1>2, StepPlaces, FileChanged, StatesOfFiles DEF SaveOpen, StoreStep
  <1>3. CASE StoreStep(w) /\ ~SaveOpen(w)
    BY <1>0, <1>3, StepPlaces DEF StoreStep, Writing
  <1>4. CASE Tick(w) \/ TickDone(w) \/ TickSend(w)
    BY <1>0, <1>4, TickPlaces DEF Writing
  <1> QED
    BY <1>1, <1>2, <1>3, <1>4 DEF Busy

LEMMA HandlerKept ==
  ASSUME StoreTypeOK, JobNames, NamesInv, HandlerInv, [Next]_vars, [BeginsAlone]_vars
  PROVE  HandlerInv'
  <1>0. job \in [Workers -> Jobs] /\ Free.pc = "idle"
    BY StoreTypes DEF Free
  <1>1. CASE UNCHANGED storeVars
    BY <1>1 DEF storeVars, HandlerInv, Writing
  <1>2. CASE Restart
    <2>1. \A w \in Workers : job'[w] = Free
      BY <1>2 DEF Restart, RestartStore
    <2> QED
      BY <1>0, <2>1 DEF HandlerInv, Writing
  <1>3. ASSUME NEW w \in Workers, Busy(w), ~UNCHANGED storeVars
        PROVE  HandlerInv'
    <2>1. Alone(w)
      BY <1>3, StepsAreAlone
    <2>2. Writing(w)' => file'[job'[w].of] = Empty
      BY <1>3, <2>1, OpenKept
    <2>3. \A v \in Workers \ {w} : job'[v] = Free
      BY <1>0, <1>3, <2>1, OthersStay DEF Alone
    <2> QED
      BY <1>0, <2>2, <2>3 DEF HandlerInv, Writing
  <1> QED
    BY <1>1, <1>2, <1>3 DEF Next, Step, Busy, vars, LinkChanges, Register, StreamBreaks,
       Receive, LeavePage

LEMMA HandlerHolds ==
  Spec /\ OneHandlerAtATime => [](HandlerInv /\ NamesInv)
  <1>1. ASSUME Init
        PROVE  HandlerInv /\ NamesInv
    <2>1. /\ data.of = name /\ \A w \in Workers : job[w] = Free
          /\ Free.pc = "idle"
      BY <1>1, FreshIsContents DEF Init, StoreInit, Blank, Files, Free
    <2>2. FilesKeepTheirSession
      BY <1>1 DEF Init, StoreInit, FilesKeepTheirSession, Files
    <2> QED
      BY <2>1, <2>2 DEF HandlerInv, NamesInv, Writing, Saving, LoadPcs
  <1>2. ASSUME TypeOK, JobNames, HandlerInv, NamesInv, [Next]_vars, [BeginsAlone]_vars
        PROVE  HandlerInv' /\ NamesInv'
    <2>1. StoreTypeOK /\ HandlerInv'
      BY <1>2, HandlerKept, TypeParts
    <2>2. SwitchesAlone
      BY <1>2, AloneIsApart DEF HandlerInv
    <2>3. SwitchesAlone'
      <3>1. Free.pc = "idle"
        BY DEF Free
      <3>2. \A v, w \in Workers : job'[v] # Free /\ job'[w] # Free => v = w
        BY <2>1 DEF HandlerInv
      <3> QED
        BY <3>1, <3>2 DEF SwitchesAlone, Switching, LoadPcs, CreatePcs, CopyPcs
    <2> QED
      BY <1>2, <2>1, <2>2, <2>3, NamesKept
  <1> QED
    BY <1>1, <1>2, TypeInvariant, PTL DEF Spec, OneHandlerAtATime

OnDisk(f) == [state |-> f.state, tubes |-> f.data.tubes]
Disk == [n \in Names |-> OnDisk(file[n])]

LEMMA OnDiskOf ==
  /\ OnDisk(Absent) = Durable!Gone("absent")
  /\ OnDisk(Empty) = Durable!Gone("empty")
  /\ \A d : OnDisk(Whole(d)) = Durable!Kept(d.tubes)
  BY DEF OnDisk, Absent, Empty, Whole, Fresh, Durable!Gone, Durable!Kept

\* What the files stand for when no worker but w is at work.
LEMMA StoredAlone ==
  ASSUME NEW w \in Workers
  PROVE  /\ Alone(w) =>
              /\ job[w].pc \notin {"createWrite", "tickWrite", "uploadWrite"}
                   => Stored = Disk
              /\ job[w].pc = "createWrite"
                   => Stored = [Disk EXCEPT ![job[w].of] = Durable!Kept({})]
              /\ job[w].pc \in {"tickWrite", "uploadWrite"}
                   => Stored = [Disk EXCEPT ![job[w].of] = Durable!Kept(data.tubes)]
         /\ Alone(w)' =>
              /\ job'[w].pc \notin {"createWrite", "tickWrite", "uploadWrite"}
                   => Stored' = Disk'
              /\ job'[w].pc = "createWrite"
                   => Stored' = [Disk' EXCEPT ![job'[w].of] = Durable!Kept({})]
              /\ job'[w].pc \in {"tickWrite", "uploadWrite"}
                   => Stored' = [Disk' EXCEPT ![job'[w].of] =
                                                Durable!Kept(data'.tubes)]
  <1>1. ASSUME Alone(w)
        PROVE  \A pcs, n : "idle" \notin pcs =>
                 ((\E v \in Workers : Writes(v, pcs, n)) <=> Writes(w, pcs, n))
    BY <1>1 DEF Alone, Writes, Free
  <1>2. ASSUME Alone(w)'
        PROVE  \A pcs, n : "idle" \notin pcs =>
                 ((\E v \in Workers : Writes(v, pcs, n)') <=> Writes(w, pcs, n)')
    BY <1>2 DEF Alone, Writes, Free
  <1>3. "idle" \notin {"createWrite"} /\ "idle" \notin {"tickWrite", "uploadWrite"}
    OBVIOUS
  <1>4. Alone(w) =>
          Stored = [n \in Names |->
                      IF Writes(w, {"createWrite"}, n) THEN Durable!Kept({})
                      ELSE IF Writes(w, {"tickWrite", "uploadWrite"}, n)
                      THEN Durable!Kept(data.tubes) ELSE OnDisk(file[n])]
    BY <1>1, <1>3 DEF Stored, OnDisk, Durable!Kept
  <1>5. Alone(w)' =>
          Stored' = [n \in Names |->
                       IF Writes(w, {"createWrite"}, n)' THEN Durable!Kept({})
                       ELSE IF Writes(w, {"tickWrite", "uploadWrite"}, n)'
                       THEN Durable!Kept(data'.tubes) ELSE OnDisk(file'[n])]
    BY <1>2, <1>3 DEF Stored, OnDisk, Durable!Kept
  <1> QED
    BY <1>4, <1>5 DEF Disk, Writes

\* And which session is the one in memory.
LEMMA SessionAlone ==
  ASSUME NEW w \in Workers
  PROVE  /\ Alone(w) =>
              /\ Creates(w) => Session = Fresh(job[w].of)
              /\ ~Creates(w) => Session = data
         /\ Alone(w)' =>
              /\ Creates(w)' => Session' = Fresh(job'[w].of)
              /\ ~Creates(w)' => Session' = data'
  <1>1. ASSUME Alone(w)
        PROVE  \A v \in Workers : Creates(v) => v = w
    BY <1>1 DEF Alone, Creates, CreatePcs, CopyPcs, Free
  <1>2. ASSUME Alone(w)'
        PROVE  \A v \in Workers : Creates(v)' => v = w
    BY <1>2 DEF Alone, Creates, CreatePcs, CopyPcs, Free
  <1>3. ASSUME Alone(w), Creates(w)
        PROVE  Session = Fresh(job[w].of)
    <2>1. (CHOOSE v \in Workers : Creates(v)) = w
      BY <1>1, <1>3
    <2> QED
      BY <1>3, <2>1 DEF Session
  <1>4. ASSUME Alone(w)', Creates(w)'
        PROVE  Session' = Fresh(job'[w].of)
    <2>1. (CHOOSE v \in Workers : Creates(v)') = w
      BY <1>2, <1>4
    <2> QED
      BY <1>4, <2>1 DEF Session
  <1>5. ASSUME Alone(w), ~Creates(w)
        PROVE  Session = data
    BY <1>1, <1>5 DEF Session
  <1>6. ASSUME Alone(w)', ~Creates(w)'
        PROVE  Session' = data'
    BY <1>2, <1>6 DEF Session
  <1> QED
    BY <1>3, <1>4, <1>5, <1>6

LEMMA DiskWritten ==
  ASSUME NEW n \in Files, NEW f, file \in [Files -> FileStates],
         file' = [file EXCEPT ![n] = f]
  PROVE  Disk' = [Disk EXCEPT ![n] = OnDisk(f)]
  BY DEF Disk, Files

\* A writer that is alone writes what it means to.
LEMMA AloneWrites ==
  ASSUME HandlerInv, NEW w \in Workers, Alone(w), Writing(w), NEW d, WriteFile(w, d)
  PROVE  file' = [file EXCEPT ![job[w].of] = Whole(d)]
  <1>1. Sole(w)
    <2>1. Free.pc = "idle"
      BY DEF Free
    <2> QED
      BY <2>1 DEF Alone, Sole, Writing
  <1>2. file[job[w].of].state = "empty"
    BY FileFields DEF HandlerInv
  <1>3. Written(w, d) = {Whole(d)}
    BY <1>1, <1>2 DEF Written
  <1> QED
    BY <1>3 DEF WriteFile

LEMMA DiskStays ==
  ASSUME UNCHANGED file PROVE Disk' = Disk
  BY DEF Disk

LEMMA RequestIsDurable ==
  ASSUME StoreTypeOK, NamesInv, NEW w \in Workers, Alone(w), Alone(w)', Request(w)
  PROVE  [Durable!Next]_(Durable!vars)
  <1>0. /\ data \in Contents /\ file \in [Files -> FileStates]
        /\ job \in [Workers -> Jobs] /\ FilesKeepTheirSession
        /\ Names \subseteq Files
    BY StoreTypes DEF NamesInv, Files
  <1>1. job[w].pc = "idle"
    BY <1>0, RequestPlaces
  <1>2. Stored = Disk /\ Session = data
    BY <1>1, StoredAlone, SessionAlone DEF Creates, CreatePcs, CopyPcs
  <1>3. ASSUME NEW n \in Names, LoadData(w, n)
        PROVE  [Durable!Next]_(Durable!vars)
    <2>1. Disk' = Disk
      BY <1>3, DiskStays DEF LoadData
    <2>2. CASE file[n].state = "whole"
      <3>1. data' = file[n].data /\ data'.of = n
        BY <1>0, <1>3, <2>2 DEF LoadData, FilesKeepTheirSession
      <3>2. data' = [of |-> n, tubes |-> file[n].data.tubes]
        BY <1>0, <2>2, <3>1, WholeFile DEF Contents
      <3>3. job'[w].pc = "loadLoaded"
        BY <1>0, <1>3, <2>2, RequestPlaces
      <3>4. Stored' = Disk /\ Session' = data'
        BY <2>1, <3>3, StoredAlone, SessionAlone DEF Creates, CreatePcs, CopyPcs
      <3>5. Durable!Load(n)
        BY <1>2, <2>2, <3>2, <3>4 DEF Durable!Load, Disk, OnDisk
      <3> QED
        BY <3>5 DEF Durable!Next
    <2>3. CASE file[n].state # "whole"
      <3>1. UNCHANGED <<data, job>>
        BY <1>3, <2>3 DEF LoadData
      <3>2. Stored' = Disk /\ Session' = data
        BY <1>1, <2>1, <3>1, StoredAlone, SessionAlone DEF Creates, CreatePcs, CopyPcs
      <3> QED
        BY <1>2, <3>1, <3>2 DEF Durable!vars
    <2> QED
      BY <2>2, <2>3
  <1>4. ASSUME NEW n \in Names, CreateOpen(w, n)
        PROVE  [Durable!Next]_(Durable!vars)
    <2>1. job'[w].pc = "createWrite" /\ job'[w].of = n
      BY <1>0, <1>4, RequestPlaces
    <2>2. Disk' = [Disk EXCEPT ![n] = OnDisk(Empty)]
      BY <1>0, <1>4, DiskWritten DEF CreateOpen
    <2>3. Stored' = [Disk' EXCEPT ![n] = Durable!Kept({})]
      BY <2>1, StoredAlone
    <2>4. Stored' = [Disk EXCEPT ![n] = Durable!Kept({})]
      BY <2>2, <2>3 DEF Disk
    <2>5. Session' = Fresh(n)
      BY <2>1, SessionAlone DEF Creates, CreatePcs, CopyPcs
    <2>6. Durable!Create(n)
      BY <1>2, <2>4, <2>5 DEF Durable!Create, Durable!Put, Fresh
    <2> QED
      BY <2>6 DEF Durable!Next
  <1>5. ASSUME NEW n \in Names, DeleteSession(w, n)
        PROVE  [Durable!Next]_(Durable!vars)
    <2>1. Disk' = [Disk EXCEPT ![n] = OnDisk(Absent)]
      BY <1>0, <1>5, DiskWritten DEF DeleteSession
    <2>2. UNCHANGED <<data, job>>
      BY <1>5 DEF DeleteSession, memory
    <2>3. Stored' = Disk' /\ Session' = data
      BY <1>1, <2>2, StoredAlone, SessionAlone DEF Creates, CreatePcs, CopyPcs
    <2>4. Durable!Delete(n)
      BY <1>2, <2>1, <2>2, <2>3, OnDiskOf DEF Durable!Delete, Durable!Put
    <2> QED
      BY <2>4 DEF Durable!Next
  <1>6. CASE (\E t \in Tubes : MarkTube(w, t)) \/ UploadPlan(w) \/ RemovePlan(w)
    <2>2. job'[w].pc \in {"idle", "flag", "uploadOpen"}
      BY <1>0, <1>1, <1>6, RequestPlaces DEF RemovePlan
    <2>3. Disk' = Disk
      BY <1>6, DiskStays DEF MarkTube, UploadPlan, RemovePlan
    <2>4. Stored' = Stored /\ Session' = data'
      BY <1>2, <2>2, <2>3, StoredAlone, SessionAlone DEF Creates, CreatePcs, CopyPcs
    <2>5. Durable!Change
      BY <1>2, <1>6, <2>4 DEF Durable!Change, MarkTube, UploadPlan, RemovePlan
    <2> QED
      BY <2>5 DEF Durable!Next
  <1> QED
    BY <1>3, <1>4, <1>5, <1>6 DEF Request

LEMMA StepIsDurable ==
  ASSUME StoreTypeOK, JobNames, NamesInv, HandlerInv, NEW w \in Workers,
         Alone(w), Alone(w)', StoreStep(w)
  PROVE  [Durable!Next]_(Durable!vars)
  <1>0. /\ data \in Contents /\ file \in [Files -> FileStates]
        /\ job \in [Workers -> Jobs] /\ name \in Files /\ job[w].of \in Files
    BY StoreTypes, JobFields
  <1>1. CASE \/ LoadLoaded(w) \/ LoadName(w) \/ FlagChanged(w)
             \/ CreateName(w) \/ CreateLoaded(w) \/ CreateChanged(w)
    <2>1. /\ UNCHANGED <<data, file>>
          /\ \/ /\ job[w].pc \in {"loadLoaded", "loadName", "flag"}
                /\ job'[w].pc \in {"loadName", "idle"}
             \/ /\ job[w].pc \in {"createName", "createLoaded", "createChanged"}
                /\ job'[w].pc \in {"createLoaded", "createChanged", "createData"}
                /\ job'[w].of = job[w].of
      BY <1>0, <1>1, StepPlaces
      DEF LoadLoaded, LoadName, FlagChanged, CreateName, CreateLoaded, CreateChanged,
          SaveOpen, At
    <2>2. Stored = Disk /\ Stored' = Disk' /\ Disk' = Disk
      BY <2>1, StoredAlone, DiskStays
    <2>3. Session' = Session
      BY <2>1, SessionAlone DEF Creates, CreatePcs, CopyPcs
    <2> QED
      BY <2>2, <2>3 DEF Durable!vars
  <1>2. CASE CreateWrite(w)
    <2>1. /\ job[w].pc = "createWrite" /\ job[w].of \in Names
          /\ job'[w].pc = "createName" /\ job'[w].of = job[w].of
      BY <1>0, <1>2, StepPlaces
      DEF CreateWrite, At, JobNames, Switching, CreatePcs, SaveOpen
    <2>2. Disk' = [Disk EXCEPT ![job[w].of] = OnDisk(Whole(Fresh(job[w].of)))]
      BY <1>0, <1>2, <2>1, AloneWrites, DiskWritten DEF CreateWrite, Writing
    <2>3. OnDisk(Whole(Fresh(job[w].of))) = Durable!Kept({})
      BY OnDiskOf DEF Fresh
    <2>4. Stored' = Stored
      BY <2>1, <2>2, <2>3, StoredAlone
    <2>5. Session' = Session
      BY <2>1, SessionAlone DEF Creates, CreatePcs, CopyPcs
    <2> QED
      BY <2>4, <2>5 DEF Durable!vars
  <1>3. CASE CreateData(w)
    <2>1. /\ job[w].pc = "createData" /\ job'[w].pc = "idle"
          /\ data' = Fresh(job[w].of) /\ UNCHANGED file
      BY <1>0, <1>3, StepPlaces DEF CreateData
    <2>2. Stored = Disk /\ Stored' = Disk' /\ Disk' = Disk
      BY <2>1, StoredAlone, DiskStays
    <2>3. Session' = Session
      BY <2>1, SessionAlone DEF Creates, CreatePcs, CopyPcs
    <2> QED
      BY <2>2, <2>3 DEF Durable!vars
  <1>4. CASE SaveOpen(w)
    <2>1. /\ job[w].pc \in {"tickOpen", "uploadOpen"}
          /\ job'[w].pc \in {"tickWrite", "uploadWrite"} /\ job'[w].of = name
      BY <1>0, <1>4, StepPlaces
    <2>2. name \in Names /\ data.of = name
      BY <2>1, SavesByName
    <2>3. UNCHANGED data /\ Disk' = [Disk EXCEPT ![name] = OnDisk(Empty)]
      BY <1>0, <1>4, DiskWritten DEF SaveOpen, memory
    <2>4. /\ Stored = Disk
          /\ Stored' = [Disk' EXCEPT ![name] = Durable!Kept(data'.tubes)]
      BY <2>1, StoredAlone
    <2>5. Stored' = [Stored EXCEPT ![name] = Durable!Kept(data.tubes)]
      BY <2>3, <2>4 DEF Disk
    <2>6. Session = data /\ Session' = data
      BY <2>1, <2>3, SessionAlone DEF Creates, CreatePcs, CopyPcs
    <2>7. Durable!Save
      BY <2>2, <2>5, <2>6 DEF Durable!Save, Durable!Put
    <2> QED
      BY <2>7 DEF Durable!Next
  <1>5. CASE SaveWrite(w)
    <2>1. /\ job[w].pc \in {"uploadWrite", "tickWrite"} /\ UNCHANGED data
          /\ job'[w].pc \in {"idle", "tickDone"}
      BY <1>0, <1>5, StepPlaces DEF SaveWrite, memory
    <2>2. Disk' = [Disk EXCEPT ![job[w].of] = OnDisk(Whole(data))]
      BY <1>0, <1>5, <2>1, AloneWrites, DiskWritten DEF SaveWrite, Writing
    <2>3. OnDisk(Whole(data)) = Durable!Kept(data.tubes)
      BY OnDiskOf
    <2>4. Stored' = Stored
      BY <2>1, <2>2, <2>3, StoredAlone
    <2>5. Session = data /\ Session' = data
      BY <2>1, SessionAlone DEF Creates, CreatePcs, CopyPcs
    <2> QED
      BY <2>4, <2>5 DEF Durable!vars
  <1> QED
    BY <1>1, <1>2, <1>3, <1>4, <1>5 DEF StoreStep

LEMMA TickIsDurable ==
  ASSUME StoreTypeOK, NEW w \in Workers, Alone(w), Alone(w)',
         Tick(w) \/ TickDone(w) \/ TickSend(w)
  PROVE  UNCHANGED Durable!vars
  <1>0. job \in [Workers -> Jobs]
    BY StoreTypes
  <1>1. UNCHANGED <<data, file>>
    BY DEF Tick, TickDone, TickSend, memory
  <1>2. /\ job[w].pc \in {"idle", "tickDone", "tickSend"}
        /\ job'[w].pc \in {"idle", "tickOpen", "tickSend"}
    BY <1>0, TickPlaces
  <1>3. Stored = Disk /\ Stored' = Disk' /\ Disk' = Disk
    BY <1>1, <1>2, StoredAlone, DiskStays
  <1>4. Session = data /\ Session' = data
    BY <1>1, <1>2, SessionAlone DEF Creates, CreatePcs, CopyPcs
  <1> QED
    BY <1>3, <1>4 DEF Durable!vars

\* A crash costs the file that was being written.
LEMMA RestartIsCrash ==
  ASSUME StoreTypeOK, JobNames, NamesInv, HandlerInv, Restart
  PROVE  Durable!Crash
  <1>0. /\ file \in [Files -> FileStates] /\ data' = Durable!NoSession
        /\ UNCHANGED file /\ Disk' = Disk /\ \A w \in Workers : job'[w] = Free
    BY StoreTypes, DiskStays DEF Restart, RestartStore, Fresh, Durable!NoSession
  <1>1. PICK w \in Workers : Alone(w)
    BY SomeWorker DEF HandlerInv, Alone
  <1>2. Writing(w) => job[w].of \in Names /\ file[job[w].of] = Empty
    BY <1>1, SavesByName
    DEF HandlerInv, JobNames, Switching, Writing, Saving, CreatePcs
  <1>3. Stored' = Disk /\ Session' = Durable!NoSession
    <2>1. Alone(w)' /\ job'[w].pc = "idle"
      BY <1>0 DEF Alone, Free
    <2> QED
      BY <1>0, <2>1, StoredAlone, SessionAlone DEF Creates, CreatePcs, CopyPcs
  <1>4. CASE job[w].pc \notin {"createWrite", "tickWrite", "uploadWrite"}
    BY <1>1, <1>3, <1>4, StoredAlone DEF Durable!Crash
  <1>5. CASE job[w].pc \in {"createWrite", "tickWrite", "uploadWrite"}
    <2>1. job[w].of \in Names /\ file[job[w].of] = Empty
      BY <1>2, <1>5 DEF Writing
    <2>2. PICK f : Stored = [Disk EXCEPT ![job[w].of] = f]
      BY <1>1, <1>5, StoredAlone
    <2>3. Disk[job[w].of] = Durable!Gone("empty")
      BY <2>1, OnDiskOf DEF Disk
    <2>4. Durable!Put(job[w].of, Durable!Gone("empty"))
      BY <1>3, <2>2, <2>3 DEF Durable!Put, Disk
    <2> QED
      BY <1>3, <2>1, <2>4 DEF Durable!Crash
  <1> QED
    BY <1>4, <1>5

LEMMA NextIsDurable ==
  ASSUME TypeOK, JobNames, NamesInv, HandlerInv, [Next]_vars, [BeginsAlone]_vars
  PROVE  [Durable!Next]_(Durable!vars)
  <1>0. StoreTypeOK /\ job \in [Workers -> Jobs]
    BY TypeParts, StoreTypes
  <1>1. CASE UNCHANGED storeVars
    BY <1>1 DEF storeVars, memory, Durable!vars, Stored, Writes,
       Session, Creates
  <1>2. CASE Restart
    BY <1>0, <1>2, RestartIsCrash DEF Durable!Next
  <1>3. ASSUME NEW w \in Workers, Busy(w), ~UNCHANGED storeVars
        PROVE  [Durable!Next]_(Durable!vars)
    <2>1. Alone(w)
      BY <1>0, <1>3, StepsAreAlone
    <2>2. Alone(w)'
      BY <1>0, <1>3, <2>1, OthersStay DEF Alone
    <2> QED
      BY <1>0, <1>3, <2>1, <2>2, RequestIsDurable, StepIsDurable, TickIsDurable
      DEF Busy
  <1> QED
    BY <1>1, <1>2, <1>3 DEF Next, Step, Busy, vars, LinkChanges, Register, StreamBreaks,
       Receive, LeavePage

LEMMA InitIsDurable ==
  ASSUME Init PROVE Durable!Init
  <1>1. data = Durable!NoSession /\ \A w \in Workers : job[w] = Free
    BY DEF Init, StoreInit, Blank, Fresh, Durable!NoSession
  <1>2. PICK w \in Workers : Alone(w) /\ job[w].pc = "idle"
    BY <1>1, SomeWorker DEF Alone, Free
  <1>3. Stored = Disk /\ Session = data
    BY <1>2, StoredAlone, SessionAlone DEF Creates, CreatePcs, CopyPcs
  <1>4. \A n \in Names : OnDisk(file[n]) \in {Durable!Gone("absent"), Durable!Kept({})}
    <2>1. TAKE n \in Names
    <2>2. file[n] = Absent \/ \E m \in Names : file[n] = Whole(Fresh(m))
      BY DEF Init, StoreInit, Files
    <2> QED
      BY <2>2, OnDiskOf DEF Fresh
  <1> QED
    BY <1>1, <1>3, <1>4 DEF Durable!Init, Disk

\* The handlers of session.cpp and the tick, when none begins while another
\* is under way, implement the sessions of DurableSessions, with any number
\* of sessions and tubes and restarted at any point.
THEOREM StoreImplementsDurable == Spec /\ OneHandlerAtATime => StoreIsAtomic
  <1>1. Init => Durable!Init
    BY InitIsDurable
  <1>2. /\ TypeOK /\ JobNames /\ NamesInv /\ HandlerInv /\ [Next]_vars /\ [BeginsAlone]_vars
        => [Durable!Next]_(Durable!vars)
    BY NextIsDurable
  <1> QED
    BY <1>1, <1>2, TypeInvariant, HandlerHolds, PTL
    DEF Spec, OneHandlerAtATime, StoreIsAtomic, Durable!Spec

-----------------------------------------------------------------------------
(* HIDE_CONNECT                                                            *)

\* One tick at a time makes and sends its message.
TickInv ==
  /\ \A v, w \in Workers : job[v].pc \in TickPcs /\ job[w].pc \in TickPcs => v = w
  /\ (\A w \in Workers : job[w].pc \notin TickPcs) => res = NoRes

\* Behind every SHOW_CONNECT that a page has, or has on its stream, comes
\* HIDE_CONNECT once that is no longer to be sent.
HideComes(p) ==
  /\ reconnect_dialog_shown[p] /\ ~broken[p]
       => res.hide \/ \E i \in DOMAIN stream[p] : stream[p][i].hide
  /\ \A i \in DOMAIN stream[p] : stream[p][i].show
       => res.hide \/ \E j \in DOMAIN stream[p] : i < j /\ stream[p][j].hide

HideInv ==
  /\ res.show => ~hide_sent
  /\ hide_sent => \A p \in sse_sessions : HideComes(p)
  /\ \A p \in Pages \ sse_sessions : reconnect_dialog_shown[p] => broken[p]

\* Requests and their steps are no ticks.
LEMMA StoreIsNoTick ==
  ASSUME job \in [Workers -> Jobs], name \in Files, NEW w \in Workers,
         Request(w) \/ StoreStep(w)
  PROVE  job'[w].pc \in TickPcs <=> job[w].pc \in TickPcs
  <1>1. CASE Request(w)
    BY <1>1, RequestPlaces DEF TickPcs
  <1>2. CASE StoreStep(w)
    BY <1>2, StepPlaces DEF StoreStep, TickPcs
  <1> QED
    BY <1>1, <1>2

LEMMA TickKept ==
  ASSUME TypeOK, TickInv, [Next]_vars
  PROVE  TickInv'
  <1>0. StoreTypeOK /\ job \in [Workers -> Jobs] /\ name \in Files
    BY TypeParts, StoreTypes
  <1>1. CASE UNCHANGED <<job, res>>
    BY <1>1 DEF TickInv
  <1>2. CASE Restart
    <2>1. res' = NoRes /\ \A w \in Workers : job'[w].pc \notin TickPcs
      BY <1>2 DEF Restart, RestartStore, Free, TickPcs
    <2> QED
      BY <2>1 DEF TickInv
  <1>3. ASSUME NEW w \in Workers, Request(w) \/ StoreStep(w), UNCHANGED streamVars
        PROVE  TickInv'
    <2>1. \A v \in Workers : job'[v].pc \in TickPcs <=> job[v].pc \in TickPcs
      <3>1. TAKE v \in Workers
      <3>2. CASE v = w
        BY <1>0, <1>3, <3>2, StoreIsNoTick
      <3>3. CASE v # w
        BY <1>0, <1>3, <3>3, OthersStay DEF Busy
      <3> QED
        BY <3>2, <3>3
    <2> QED
      BY <1>3, <2>1 DEF TickInv, streamVars
  <1>4. ASSUME NEW w \in Workers, Tick(w) \/ TickDone(w) \/ TickSend(w)
        PROVE  TickInv'
    <2>1. \A v \in Workers \ {w} : job'[v] = job[v]
      BY <1>0, <1>4, OthersStay DEF Busy
    <2>2. \A v \in Workers \ {w} : job[v].pc \notin TickPcs
      BY <1>0, <1>4, TickPlaces DEF TickInv, TickPcs
    <2>3. TickSend(w) => res' = NoRes
      BY DEF TickSend
    <2>4. ~TickSend(w) => job'[w].pc \in TickPcs
      BY <1>0, <1>4, TickPlaces DEF TickPcs
    <2> QED
      BY <2>1, <2>2, <2>3, <2>4 DEF TickInv
  <1> QED
    BY <1>1, <1>2, <1>3, <1>4 DEF Next, Step, vars, storeVars, streamVars, LinkChanges,
       Register, StreamBreaks, Receive, LeavePage

\* What comes behind a message that is sent.
LEMMA SentBehind ==
  ASSUME NEW s \in Seq(Messages), NEW r \in Messages
  PROVE  /\ DOMAIN Append(s, r) = DOMAIN s \cup {Len(s) + 1}
         /\ \A i \in DOMAIN s : i < Len(s) + 1 /\ Append(s, r)[i] = s[i]
         /\ Append(s, r)[Len(s) + 1] = r
  OBVIOUS

LEMMA TakenFirst ==
  ASSUME NEW s \in Seq(Messages), s # <<>>
  PROVE  /\ Head(s) = s[1] /\ 1 \in DOMAIN s
         /\ \A i \in DOMAIN s : i # 1 => i - 1 \in DOMAIN Tail(s) /\ Tail(s)[i - 1] = s[i]
         /\ \A i \in DOMAIN Tail(s) : i + 1 \in DOMAIN s /\ Tail(s)[i] = s[i + 1]
         /\ DOMAIN s \subseteq Nat \ {0} /\ DOMAIN Tail(s) \subseteq Nat \ {0}
  OBVIOUS

LEMMA HideKept ==
  ASSUME TypeOK, TickInv, HideInv, [Next]_vars
  PROVE  HideInv'
  <1>0. /\ StreamTypeOK /\ StoreTypeOK /\ res \in Messages
        /\ stream \in [Pages -> Seq(Messages)] /\ sse_sessions \subseteq Pages
        /\ reconnect_dialog_shown \in [Pages -> BOOLEAN] /\ broken \in [Pages -> BOOLEAN]
        /\ \A p \in Pages \ sse_sessions : stream[p] = <<>>
    BY TypeParts DEF StreamTypeOK
  <1>1. CASE UNCHANGED <<hide_sent, sse_sessions, res, pageVars>>
    BY <1>1 DEF HideInv, HideComes, pageVars
  <1>2. CASE Restart
    BY <1>2 DEF Restart, HideInv, NoRes, EndStreams
  <1>3. ASSUME NEW w \in Workers, Tick(w)
        PROVE  HideInv'
    <2>1. res = NoRes /\ UNCHANGED <<sse_sessions, pageVars>>
      BY <1>0, <1>3 DEF Tick, TickInv
    <2>2. /\ res' = [show |-> ~linked, hide |-> linked /\ ~hide_sent]
          /\ hide_sent' = linked
      BY <1>3 DEF Tick
    <2>3. hide_sent' => res'.hide \/ hide_sent
      BY <2>2
    <2> QED
      BY <2>1, <2>2, <2>3 DEF HideInv, HideComes, pageVars, NoRes
  <1>4. ASSUME NEW w \in Workers, TickSend(w)
        PROVE  HideInv'
    <2>1. /\ res' = NoRes /\ UNCHANGED <<hide_sent, sse_sessions, reconnect_dialog_shown, broken>>
          /\ stream' = [p \in Pages |-> IF p \in sse_sessions
                                        THEN Append(stream[p], res) ELSE stream[p]]
      BY <1>4 DEF TickSend
    <2>2. ASSUME NEW p \in sse_sessions, hide_sent
          PROVE  HideComes(p)'
      <3>1. stream'[p] = Append(stream[p], res) /\ stream[p] \in Seq(Messages)
        BY <1>0, <2>1
      <3>2. HideComes(p) /\ ~res.show
        BY <2>2 DEF HideInv
      <3>3. /\ DOMAIN stream'[p] = DOMAIN stream[p] \cup {Len(stream[p]) + 1}
            /\ \A i \in DOMAIN stream[p] :
                 i < Len(stream[p]) + 1 /\ stream'[p][i] = stream[p][i]
            /\ stream'[p][Len(stream[p]) + 1] = res
        BY <1>0, <3>1, SentBehind
      <3>4. reconnect_dialog_shown[p] /\ ~broken[p]
              => \E i \in DOMAIN stream'[p] : stream'[p][i].hide
        BY <3>2, <3>3 DEF HideComes
      <3>5. ASSUME NEW i \in DOMAIN stream'[p], stream'[p][i].show
            PROVE  \E j \in DOMAIN stream'[p] : i < j /\ stream'[p][j].hide
        <4>1. i \in DOMAIN stream[p] /\ stream[p][i].show
          BY <3>2, <3>3, <3>5
        <4>2. CASE res.hide
          BY <3>3, <4>1, <4>2
        <4>3. CASE ~res.hide
          BY <3>2, <3>3, <4>1, <4>3 DEF HideComes
        <4> QED
          BY <4>2, <4>3
      <3> QED
        BY <2>1, <3>4, <3>5 DEF HideComes
    <2> QED
      BY <2>1, <2>2 DEF HideInv, NoRes
  <1>5. ASSUME NEW w \in Workers, NEW p \in Pages, Register(w, p)
        PROVE  HideInv'
    <2>1. /\ p \notin sse_sessions /\ sse_sessions' = sse_sessions \cup {p}
          /\ UNCHANGED <<hide_sent, res, pageVars>>
      BY <1>5 DEF Register
    <2>2. stream[p] = <<>> /\ (reconnect_dialog_shown[p] => broken[p])
      BY <1>0, <2>1 DEF HideInv
    <2>3. HideComes(p)'
      BY <2>1, <2>2 DEF HideComes, pageVars
    <2> QED
      BY <2>1, <2>3 DEF HideInv, HideComes, pageVars
  <1>6. ASSUME NEW p \in Pages, StreamBreaks(p) \/ LeavePage(p)
        PROVE  HideInv'
    <2>1. /\ sse_sessions' = sse_sessions \ {p} /\ UNCHANGED <<hide_sent, res>>
          /\ \A q \in Pages \ {p} : /\ stream'[q] = stream[q]
                                  /\ reconnect_dialog_shown'[q] = reconnect_dialog_shown[q]
                                  /\ broken'[q] = broken[q]
      BY <1>0, <1>6 DEF StreamBreaks, LeavePage, EndStreams
    <2>2. reconnect_dialog_shown'[p] => broken'[p]
      BY <1>0, <1>6 DEF StreamBreaks, LeavePage
    <2> QED
      BY <1>0, <2>1, <2>2 DEF HideInv, HideComes
  <1>7. ASSUME NEW p \in Pages, Receive(p)
        PROVE  HideInv'
    <2>1. /\ UNCHANGED <<hide_sent, res, sse_sessions>> /\ stream[p] # <<>>
          /\ stream' = [stream EXCEPT ![p] = Tail(stream[p])]
      BY <1>7 DEF Receive, streamVars
    <2>2. stream[p] \in Seq(Messages) /\ p \in sse_sessions
      BY <1>0, <2>1
    <2>3. /\ reconnect_dialog_shown'[p] <=>
                (reconnect_dialog_shown[p] \/ Head(stream[p]).show) /\ ~Head(stream[p]).hide
          /\ broken'[p] <=> broken[p] /\ ~Head(stream[p]).hide
          /\ \A q \in Pages \ {p} : /\ stream'[q] = stream[q]
                                  /\ reconnect_dialog_shown'[q] = reconnect_dialog_shown[q]
                                  /\ broken'[q] = broken[q]
      BY <1>0, <1>7 DEF Receive
    <2>4. ASSUME hide_sent
          PROVE  HideComes(p)'
      <3>1. HideComes(p)
        BY <2>2, <2>4 DEF HideInv
      <3>2. stream'[p] = Tail(stream[p])
        BY <1>0, <2>1
      <3>3. /\ Head(stream[p]) = stream[p][1] /\ 1 \in DOMAIN stream[p]
            /\ \A i \in DOMAIN stream[p] :
                 i # 1 => i - 1 \in DOMAIN stream'[p] /\ stream'[p][i - 1] = stream[p][i]
            /\ \A i \in DOMAIN stream'[p] :
                 i + 1 \in DOMAIN stream[p] /\ stream'[p][i] = stream[p][i + 1]
            /\ DOMAIN stream[p] \subseteq Nat \ {0}
            /\ DOMAIN stream'[p] \subseteq Nat \ {0}
        <4> DEFINE s == stream[p]
        <4>1. s \in Seq(Messages) /\ s # <<>>
          BY <2>1, <2>2
        <4> HIDE DEF s
        <4>2. /\ Head(s) = s[1] /\ 1 \in DOMAIN s
              /\ \A i \in DOMAIN s :
                   i # 1 => i - 1 \in DOMAIN Tail(s) /\ Tail(s)[i - 1] = s[i]
              /\ \A i \in DOMAIN Tail(s) : i + 1 \in DOMAIN s /\ Tail(s)[i] = s[i + 1]
              /\ DOMAIN s \subseteq Nat \ {0} /\ DOMAIN Tail(s) \subseteq Nat \ {0}
          BY <4>1, TakenFirst
        <4> QED
          BY <3>2, <4>2, Zenon DEF s
      <3>4. ASSUME reconnect_dialog_shown'[p], ~broken'[p], ~res.hide
            PROVE  \E i \in DOMAIN stream'[p] : stream'[p][i].hide
        <4>1. ~stream[p][1].hide /\ ~broken[p]
          BY <2>3, <3>3, <3>4
        <4>2. CASE reconnect_dialog_shown[p]
          <5>1. PICK i \in DOMAIN stream[p] : stream[p][i].hide
            BY <3>1, <3>4, <4>1, <4>2 DEF HideComes
          <5> QED
            BY <3>3, <4>1, <5>1
        <4>3. CASE stream[p][1].show
          <5>1. PICK i \in DOMAIN stream[p] : 1 < i /\ stream[p][i].hide
            BY <3>1, <3>3, <3>4, <4>3 DEF HideComes
          <5> QED
            BY <3>3, <4>1, <5>1
        <4> QED
          BY <2>3, <3>3, <3>4, <4>2, <4>3
      <3>5. ASSUME NEW i \in DOMAIN stream'[p], stream'[p][i].show, ~res.hide
            PROVE  \E j \in DOMAIN stream'[p] : i < j /\ stream'[p][j].hide
        <4>1. i + 1 \in DOMAIN stream[p] /\ stream[p][i + 1].show /\ i \in Nat \ {0}
          BY <3>3, <3>5
        <4>2. PICK j \in DOMAIN stream[p] : i + 1 < j /\ stream[p][j].hide
          BY <3>1, <3>5, <4>1 DEF HideComes
        <4>3. j # 1 /\ i < j - 1 /\ j - 1 \in DOMAIN stream'[p] /\ stream'[p][j - 1].hide
          BY <3>3, <4>1, <4>2
        <4> QED
          BY <4>3
      <3> QED
        BY <2>1, <3>4, <3>5 DEF HideComes
    <2>5. ASSUME hide_sent, NEW q \in sse_sessions \ {p}
          PROVE  HideComes(q)'
      <3>1. HideComes(q) /\ q \in Pages
        BY <1>0, <2>5 DEF HideInv
      <3> QED
        BY <2>1, <2>3, <3>1 DEF HideComes
    <2>6. \A q \in Pages \ sse_sessions : reconnect_dialog_shown'[q] => broken'[q]
      BY <2>2, <2>3 DEF HideInv
    <2> QED
      BY <2>1, <2>4, <2>5, <2>6 DEF HideInv
  <1> QED
    BY <1>1, <1>2, <1>3, <1>4, <1>5, <1>6, <1>7
    DEF Next, Step, vars, streamVars, LinkChanges, TickDone

\* HIDE_CONNECT is on its way, or still to be sent, to every page that listens
\* and shows the dialog, but for one whose stream broke under it; with any
\* number of threads, pages and messages (event_stream_handler, onMessage).
THEOREM HideIsNotForgotten == Spec => []HideIsToCome
  <1>1. ASSUME Init PROVE TickInv /\ HideInv
    <2>1. /\ res = NoRes /\ ~hide_sent
          /\ \A p \in Pages : ~reconnect_dialog_shown[p]
          /\ \A w \in Workers : job[w].pc \notin TickPcs
      BY <1>1 DEF Init, StoreInit, Free, TickPcs
    <2> QED
      BY <2>1 DEF TickInv, HideInv, NoRes
  <1>2. TypeOK /\ TickInv /\ HideInv /\ [Next]_vars => TickInv' /\ HideInv'
    BY TickKept, HideKept
  <1>3. HideInv => HideIsToCome
    BY DEF HideInv, HideComes, HideIsToCome
  <1> QED
    BY <1>1, <1>2, <1>3, StreamTypeCorrect, PTL DEF Spec

=============================================================================
