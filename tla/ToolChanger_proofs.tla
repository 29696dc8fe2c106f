-------------------------- MODULE ToolChanger_proofs --------------------------
(***************************************************************************)
(* Where the touch probe may be and what a restart comes back with, for    *)
(* any tools and picks: one selection at a time, which nothing in the code *)
(* ensures, and no edits of tools in use, but with errors, lost answers    *)
(* and crashes.                                                            *)
(***************************************************************************)
EXTENDS ToolChanger, TLAPS

\* No request gets past its first test while another is beyond it.
OneSelecting == \A p, q \in Picks : Selecting(p) /\ Selecting(q) => p = q

\* What the proof needs of TypeOK.
PicksOK ==
  /\ pick \in [Picks -> PickStates]
  /\ tools \in [Tools -> ToolKinds] /\ last_selected_tool \in Tools
  /\ config \in Tools \cup {Torn}
  /\ probe \in {"extended", "retracted"}
  /\ running \in BOOLEAN

\* Where a request has come to, and where the probe is for that: in when
\* the tool is about to change, in until the extension is under way, and in
\* when the extension has failed.
Retraction(p) ==
  /\ pick[p].pc = "retracted" /\ pick[p].answer = "ok" => probe = "retracted"
  /\ pick[p].pc = "choose" => probe = "retracted"
Extension(p) ==
  /\ pick[p].pc = "extend" =>
       probe = "retracted" /\ IsTouchProbe(last_selected_tool)
  /\ pick[p].pc = "extended" /\ pick[p].answer = "error"
       => probe = "retracted"
ProbePlaced == ~stranded => \A p \in Picks : Retraction(p) /\ Extension(p)

\* The tool to go back to is the one selected, and later the one saved.
PrevNoted ==
  \A p \in Picks : pick[p].pc \in {"retract", "retracted", "choose"}
                     => pick[p].prev = last_selected_tool
Saved ==
  running /\ ~unsaved =>
    /\ (\A p \in Picks : pick[p].pc \notin {"extend", "extended",
                                           "save", "write"})
         => config = last_selected_tool
    /\ \A p \in Picks : pick[p].pc \in {"extend", "extended"}
                          => config = pick[p].prev

\* A proxy that is down has no requests, and a crash that has cut nothing
\* short has left the selection in the file.
Down ==
  ~running => /\ \A p \in Picks : pick[p].pc = "idle"
              /\ ~stranded => config = last_selected_tool

ProbeInv ==
  PicksOK /\ ProbeFollowsTool /\ ProbePlaced /\ PrevNoted /\ Saved /\ Down

\* What is said of requests under way is said of no other pick.
Aside(p) == pick[p].pc \in {"idle", "asked", "select"}

LEMMA OthersAside ==
  ASSUME OneSelecting, NEW p \in Picks, Selecting(p)
  PROVE  \A q \in Picks \ {p} : Aside(q)
  BY DEF OneSelecting, Selecting, Aside

\* A place of PickStates can be reached from any other.
LEMMA PickFields ==
  ASSUME NEW p \in Picks, pick \in [Picks -> PickStates]
  PROVE  /\ \A x \in Pcs : [pick[p] EXCEPT !.pc = x] \in PickStates
         /\ \A x \in Pcs, a \in Answers :
              [pick[p] EXCEPT !.pc = x, !.answer = a] \in PickStates
         /\ \A x \in Pcs, t \in Tools :
              [pick[p] EXCEPT !.pc = x, !.prev = t] \in PickStates
         /\ \A x \in Pcs, t \in Tools, m \in Told :
              [pick[p] EXCEPT !.pc = x, !.tool = t, !.told = m] \in PickStates
  <1>1. pick[p] \in PickStates
    OBVIOUS
  <1> QED
    BY <1>1 DEF PickStates

\* What GoTo does to the pick.
LEMMA GoToEffect ==
  ASSUME NEW p \in Picks, NEW pc \in Pcs, pick \in [Picks -> PickStates],
         GoTo(p, pc)
  PROVE  /\ pick' \in [Picks -> PickStates]
         /\ pick'[p].pc = pc /\ pick'[p].answer = pick[p].answer
         /\ pick'[p].prev = pick[p].prev
         /\ \A q \in Picks \ {p} : pick'[q] = pick[q]
  <1>1. [pick[p] EXCEPT !.pc = pc] \in PickStates
    BY PickFields
  <1>2. pick[p] \in PickStates
    OBVIOUS
  <1> QED
    BY <1>1, <1>2 DEF GoTo, PickStates

\* The program starts with the probe in, or out under its tool.
LEMMA ProbeInit == Init => ProbeInv
  <1> SUFFICES ASSUME Init PROVE ProbeInv
    OBVIOUS
  <1>1. PicksOK
    BY DEF Init, PicksOK, PickStates, Pcs, Told, Answers
  <1>2. \A p \in Picks : pick[p].pc = "idle"
    BY DEF Init
  <1> QED
    BY <1>1, <1>2 DEF Init, ProbeInv, ProbeFollowsTool, ProbePlaced,
       Retraction, Extension, PrevNoted, Saved, Down

-----------------------------------------------------------------------------
\* The page's own steps move nothing, whatever other picks do.
LEMMA AskingKeepsProbe ==
  ASSUME ProbeInv, NEW p \in Picks,
         (\E t \in Tools : Ask(p, t)) \/ Decline(p) \/ Post(p)
  PROVE  ProbeInv'
  <1>0. pick \in [Picks -> PickStates]
    BY DEF ProbeInv, PicksOK
  <1>1. UNCHANGED <<serverVars, probe, historyVars>>
    BY DEF Ask, Decline, Post
  <1>2. /\ pick' \in [Picks -> PickStates]
        /\ Aside(p) /\ Aside(p)' /\ running = TRUE
        /\ \A q \in Picks \ {p} : pick'[q] = pick[q]
    <2>1. CASE \E t \in Tools : Ask(p, t)
      <3> PICK t \in Tools : Ask(p, t)
        BY <2>1
      <3> DEFINE m == IF IsTouchProbe(last_selected_tool) = IsTouchProbe(t)
                      THEN "nothing"
                      ELSE IF control THEN "message" ELSE "error"
      <3>1. pick' = [pick EXCEPT ![p] =
                       [pick[p] EXCEPT !.pc = "asked", !.tool = t, !.told = m]]
        BY DEF Ask
      <3>2. m \in Told /\ "asked" \in Pcs
        BY DEF Told, Pcs
      <3> HIDE DEF m
      <3>3. [pick[p] EXCEPT !.pc = "asked", !.tool = t, !.told = m]
              \in PickStates
        BY <1>0, <3>2, PickFields
      <3>4. /\ pick' \in [Picks -> PickStates] /\ pick'[p].pc = "asked"
            /\ \A q \in Picks \ {p} : pick'[q] = pick[q]
        BY <1>0, <3>1, <3>3 DEF PickStates
      <3> QED
        BY <3>4 DEF Ask, Aside
    <2>2. CASE Decline(p) \/ Post(p)
      <3>1. pick[p].pc = "asked" /\ (GoTo(p, "idle") \/ GoTo(p, "select"))
        BY <2>2 DEF Decline, Post
      <3>2. /\ pick' \in [Picks -> PickStates] /\ pick'[p].pc \in {"idle", "select"}
            /\ \A q \in Picks \ {p} : pick'[q] = pick[q]
        BY <1>0, <3>1, GoToEffect DEF Pcs
      <3> QED
        BY <3>1, <3>2 DEF ProbeInv, PicksOK, Down, Aside
    <2> QED
      BY <2>1, <2>2
  <1>3. PicksOK' /\ ProbeFollowsTool' /\ Down'
    BY <1>1, <1>2 DEF ProbeInv, PicksOK, ProbeFollowsTool, Down,
       IsTouchProbe, serverVars, historyVars
  <1>4. ProbePlaced' /\ PrevNoted'
    BY <1>1, <1>2 DEF ProbeInv, ProbePlaced, Aside,
       Retraction, Extension, PrevNoted, IsTouchProbe, serverVars, historyVars
  <1>5. Saved'
    BY <1>1, <1>2 DEF ProbeInv, Saved, Aside, serverVars, historyVars
  <1> QED
    BY <1>3, <1>4, <1>5 DEF ProbeInv

\* The look at the selected tool changes the request alone.
LEMMA SelectKeepsProbe ==
  ASSUME ProbeInv, NEW p \in Picks, Select(p)
  PROVE  ProbeInv'
  <1>0. pick \in [Picks -> PickStates] /\ pick[p].pc = "select"
    BY DEF ProbeInv, PicksOK, Select
  <1>1. /\ UNCHANGED <<serverVars, probe, historyVars>>
        /\ running = TRUE
    BY <1>0 DEF Select, ProbeInv, PicksOK, Down
  <1>2. /\ pick' \in [Picks -> PickStates]
        /\ pick'[p].pc \in {"idle", "retract", "choose"}
        /\ pick'[p].prev = last_selected_tool
        /\ pick'[p].pc = "choose" => ~IsTouchProbe(last_selected_tool)
        /\ \A q \in Picks \ {p} : pick'[q] = pick[q]
    <2> DEFINE x == IF pick[p].tool = last_selected_tool THEN "idle"
                    ELSE IF IsTouchProbe(last_selected_tool) THEN "retract"
                    ELSE "choose"
    <2>1. pick' = [pick EXCEPT ![p] =
                     [pick[p] EXCEPT !.pc = x, !.prev = last_selected_tool]]
      BY DEF Select
    <2>2. x \in Pcs /\ x \in {"idle", "retract", "choose"}
      BY DEF Pcs
    <2>3. x = "choose" => ~IsTouchProbe(last_selected_tool)
      OBVIOUS
    <2> HIDE DEF x
    <2>4. [pick[p] EXCEPT !.pc = x, !.prev = last_selected_tool] \in PickStates
      BY <2>2, PickFields DEF ProbeInv, PicksOK
    <2>5. /\ pick' \in [Picks -> PickStates]
          /\ pick'[p].pc = x /\ pick'[p].prev = last_selected_tool
          /\ \A q \in Picks \ {p} : pick'[q] = pick[q]
      BY <1>0, <2>1, <2>4 DEF PickStates
    <2> QED
      BY <2>2, <2>3, <2>5
  <1>3. PicksOK' /\ ProbeFollowsTool' /\ Down'
    BY <1>0, <1>1, <1>2 DEF ProbeInv, PicksOK, ProbeFollowsTool, Down,
       IsTouchProbe, serverVars, historyVars
  <1>4. \A q \in Picks : ~stranded' => Retraction(q)' /\ Extension(q)'
    <2>1. ~stranded' => Retraction(p)' /\ Extension(p)'
      BY <1>1, <1>2, <1>3 DEF ProbeFollowsTool, PicksOK, Retraction, Extension,
         IsTouchProbe, serverVars, historyVars
    <2>2. ASSUME NEW q \in Picks \ {p}, ~stranded'
          PROVE  Retraction(q)' /\ Extension(q)'
      BY <1>1, <1>2, <2>2 DEF ProbeInv, ProbePlaced, Retraction, Extension,
         IsTouchProbe, serverVars, historyVars
    <2> QED
      BY <2>1, <2>2
  <1>5. PrevNoted'
    BY <1>1, <1>2 DEF ProbeInv, PrevNoted, serverVars
  <1>6. Saved'
    BY <1>0, <1>1, <1>2 DEF ProbeInv, Saved, serverVars, historyVars
  <1> QED
    BY <1>3, <1>4, <1>5, <1>6 DEF ProbeInv, ProbePlaced

\* The RTU moves the probe, answers an error or leaves it unsaid.
LEMMA RtuKeepsProbe ==
  ASSUME ProbeInv, OneSelecting, NEW p \in Picks, Retract(p) \/ Extend(p)
  PROVE  ProbeInv'
  <1> SUFFICES ASSUME NEW from \in {"retract", "extend"},
                      NEW to \in {"retracted", "extended"},
                      TouchProbe(p, from, to, to),
                      from = "retract" <=> to = "retracted"
               PROVE  ProbeInv'
    BY DEF Retract, Extend
  <1>1. PICK answer \in Answers :
          /\ answer = "ok" => probe' = to
          /\ answer = "error" => probe' = probe
          /\ answer = "lost" => probe' \in {probe, to}
          /\ pick' = [pick EXCEPT ![p].pc = to, ![p].answer = answer]
    BY DEF TouchProbe
  <1>2. [pick[p] EXCEPT !.pc = to, !.answer = answer] \in PickStates
    BY PickFields DEF Pcs, ProbeInv, PicksOK
  <1>3. /\ pick' \in [Picks -> PickStates]
        /\ pick'[p].pc = to /\ pick'[p].answer = answer
        /\ pick'[p].prev = pick[p].prev
        /\ \A q \in Picks \ {p} : pick'[q] = pick[q]
    BY <1>1, <1>2 DEF ProbeInv, PicksOK, PickStates
  <1>4. /\ probe' \in {probe, to} /\ pick[p].pc = from
        /\ UNCHANGED <<serverVars, historyVars>>
    BY <1>1 DEF TouchProbe, Answers
  <1>a. \A q \in Picks \ {p} : Aside(q)
    BY <1>4, OthersAside DEF Selecting
  <1>5. PicksOK' /\ ProbeFollowsTool'
    BY <1>3, <1>4 DEF ProbeInv, PicksOK, ProbeFollowsTool, ProbePlaced,
       Extension, IsTouchProbe, serverVars, historyVars
  <1>6. ProbePlaced'
    BY <1>1, <1>3, <1>4, <1>a DEF ProbeInv, PicksOK, ProbePlaced, Retraction,
       Extension, Aside, historyVars
  <1>7. PrevNoted' /\ Saved' /\ Down'
    BY <1>3, <1>4, <1>a DEF ProbeInv, PrevNoted, Saved, Down, Aside,
       serverVars, historyVars
  <1> QED
    BY <1>5, <1>6, <1>7 DEF ProbeInv

\* The server retracts before it changes the tool, goes back when the
\* extension fails, and saves what it has selected.
LEMMA ServerKeepsProbe ==
  ASSUME ProbeInv, OneSelecting, NEW p \in Picks,
         \/ Retracted(p) \/ Choose(p) \/ Extended(p)
         \/ OpenConfig(p) \/ WriteConfig(p)
  PROVE  ProbeInv'
  <1>0. pick \in [Picks -> PickStates] /\ pick[p] \in PickStates
    BY DEF ProbeInv, PicksOK
  <1>a. \A q \in Picks \ {p} : Aside(q)
    <2>1. Selecting(p)
      BY DEF Retracted, Choose, Extended, OpenConfig, WriteConfig, Selecting
    <2> QED
      BY <2>1, OthersAside
  <1>1. CASE Retracted(p)
    <2>1. /\ pick' \in [Picks -> PickStates]
          /\ pick'[p].pc = IF pick[p].answer = "ok" THEN "choose" ELSE "idle"
          /\ pick'[p].prev = pick[p].prev
          /\ \A q \in Picks \ {p} : pick'[q] = pick[q]
      BY <1>0, <1>1, GoToEffect DEF Retracted, Pcs
    <2>2. /\ UNCHANGED <<serverVars, probe, historyVars>>
          /\ pick[p].pc = "retracted"
      BY <1>1 DEF Retracted
    <2>3. PicksOK' /\ ProbeFollowsTool' /\ Down'
      BY <2>1, <2>2 DEF ProbeInv, PicksOK, ProbeFollowsTool, IsTouchProbe,
         Down, serverVars, historyVars
    <2>4. ProbePlaced'
      BY <1>a, <2>1, <2>2 DEF ProbeInv, ProbePlaced, Retraction, Extension,
         Aside, serverVars, historyVars
    <2>5. PrevNoted'
      BY <1>a, <2>1, <2>2 DEF ProbeInv, PrevNoted, Aside, serverVars
    <2>6. running /\ ~unsaved => config = last_selected_tool
      BY <1>a, <2>2 DEF ProbeInv, Saved, Aside
    <2>7. \A q \in Picks : pick'[q].pc \notin {"extend", "extended"}
      BY <1>a, <2>1 DEF Aside
    <2>8. Saved'
      BY <2>2, <2>6, <2>7 DEF Saved, serverVars, historyVars
    <2> QED
      BY <2>3, <2>4, <2>5, <2>8 DEF ProbeInv
  <1>2. CASE Choose(p)
    <2>1. /\ pick' \in [Picks -> PickStates]
          /\ pick'[p].pc = IF IsTouchProbe(pick[p].tool) THEN "extend"
                                                         ELSE "save"
          /\ pick'[p].prev = pick[p].prev
          /\ \A q \in Picks \ {p} : pick'[q] = pick[q]
      BY <1>0, <1>2, GoToEffect DEF Choose, Pcs
    <2>2. ~stranded => probe = "retracted"
      BY <1>2 DEF Choose, ProbeInv, ProbePlaced, Retraction
    <2>3. pick[p].tool \in Tools /\ pick[p].prev = last_selected_tool
      BY <1>0, <1>2 DEF PickStates, Choose, ProbeInv, PrevNoted
    <2>4. /\ last_selected_tool' = pick[p].tool
          /\ UNCHANGED <<tools, config, running, probe, historyVars>>
      BY <1>2 DEF Choose
    <2>5. running /\ ~unsaved => config = last_selected_tool
      BY <1>2, <1>a DEF Choose, ProbeInv, Saved, Aside
    <2>6. PicksOK' /\ ProbeFollowsTool' /\ ProbePlaced'
      BY <1>a, <2>1, <2>2, <2>3, <2>4 DEF ProbeInv, Aside, PicksOK, ProbeFollowsTool,
         ProbePlaced, Retraction, Extension, IsTouchProbe, historyVars
    <2>7. PrevNoted' /\ Saved'
      BY <1>a, <2>1, <2>3, <2>4, <2>5 DEF PrevNoted, Saved, Aside, historyVars
    <2>8. Down'
      BY <1>2, <2>4 DEF Choose, ProbeInv, PicksOK, Down
    <2> QED
      BY <2>6, <2>7, <2>8 DEF ProbeInv
  <1>3. CASE Extended(p)
    <2>1. /\ pick' \in [Picks -> PickStates]
          /\ pick'[p].pc = IF pick[p].answer = "ok" THEN "save" ELSE "idle"
          /\ \A q \in Picks \ {p} : pick'[q] = pick[q]
      BY <1>0, <1>3, GoToEffect DEF Extended, Pcs
    <2>2. pick[p].prev \in Tools /\ pick[p].answer \in {"ok", "error", "lost"}
      BY <1>0 DEF PickStates, Answers
    <2> QED
      BY <1>3, <1>a, <2>1, <2>2 DEF Extended, Aside, ProbeInv, PicksOK, ProbeFollowsTool,
         IsTouchProbe, ProbePlaced, Retraction, Extension, PrevNoted, Saved,
         Down
  <1>4. CASE OpenConfig(p) \/ WriteConfig(p)
    <2>1. /\ pick' \in [Picks -> PickStates]
          /\ pick'[p].pc = IF pick[p].pc = "save" THEN "write" ELSE "idle"
          /\ \A q \in Picks \ {p} : pick'[q] = pick[q]
      BY <1>0, <1>4, GoToEffect DEF OpenConfig, WriteConfig, Pcs
    <2>2. /\ UNCHANGED <<tools, last_selected_tool, running, probe, stranded>>
          /\ pick[p].pc = "save" => config' = Torn
          /\ pick[p].pc = "write" => config' = last_selected_tool
          /\ pick[p].pc \in {"save", "write"}
      BY <1>4 DEF OpenConfig, WriteConfig, historyVars
    <2>3. PicksOK' /\ ProbeFollowsTool' /\ ProbePlaced'
      BY <1>a, <2>1, <2>2 DEF ProbeInv, Aside, PicksOK, ProbeFollowsTool, IsTouchProbe,
         ProbePlaced, Retraction, Extension
    <2>4. PrevNoted' /\ Saved' /\ Down'
      BY <1>a, <2>1, <2>2 DEF ProbeInv, Aside, PrevNoted, Saved, Down
    <2> QED
      BY <2>3, <2>4 DEF ProbeInv
  <1> QED
    BY <1>1, <1>2, <1>3, <1>4

-----------------------------------------------------------------------------
\* Tools are edited, but not the selected one.
LEMMA EditsKeepProbe ==
  ASSUME ProbeInv, ~EditsInUse, NEW t \in Tools, NEW kind \in ToolKinds,
         EditTool(t, kind)
  PROVE  ProbeInv'
  <1>1. /\ tools' = [tools EXCEPT ![t] = kind] /\ t # last_selected_tool
        /\ UNCHANGED <<last_selected_tool, config, running, probe, pick,
                       historyVars>>
    BY DEF EditTool
  <1>2. /\ IsTouchProbe(last_selected_tool)'
             = IsTouchProbe(last_selected_tool)
        /\ tools' \in [Tools -> ToolKinds]
    BY <1>1 DEF ProbeInv, PicksOK, IsTouchProbe
  <1> QED
    BY <1>1, <1>2 DEF ProbeInv, PicksOK, ProbeFollowsTool, ProbePlaced,
       Retraction, Extension, PrevNoted, Saved, Down, historyVars

\* A crash that cuts nothing short finds the selection saved, so that the
\* restart comes back with it.
LEMMA CrashKeepsProbe ==
  ASSUME ProbeInv, Crash \/ Restart
  PROVE  ProbeInv'
  <1>1. CASE Crash
    <2>1. /\ pick' \in [Picks -> PickStates]
          /\ \A p \in Picks : pick'[p].pc = "idle"
      <3>1. \A p \in Picks : [pick[p] EXCEPT !.pc = "idle"] \in PickStates
        BY PickFields DEF ProbeInv, PicksOK, Pcs
      <3>2. pick' = [p \in Picks |-> [pick[p] EXCEPT !.pc = "idle"]]
        BY <1>1 DEF Crash
      <3>3. \A p \in Picks : [pick[p] EXCEPT !.pc = "idle"].pc = "idle"
        BY DEF ProbeInv, PicksOK, PickStates
      <3> QED
        BY <3>1, <3>2, <3>3
    <2>2. ~stranded' => ~stranded /\ config = last_selected_tool
      <3> SUFFICES ASSUME ~stranded'
                   PROVE  ~stranded /\ config = last_selected_tool
        OBVIOUS
      <3>1. running /\ ~stranded /\ ~unsaved /\ \A p \in Picks : ~Selecting(p)
        BY <1>1 DEF Crash
      <3> QED
        BY <3>1 DEF ProbeInv, Saved, Selecting
    <2>3. /\ running' = FALSE
          /\ UNCHANGED <<tools, last_selected_tool, config, probe>>
      BY <1>1 DEF Crash
    <2> QED
      BY <2>1, <2>2, <2>3 DEF ProbeInv, PicksOK, ProbeFollowsTool,
         IsTouchProbe, ProbePlaced, Retraction, Extension, PrevNoted, Saved,
         Down
  <1>2. CASE Restart
    <2>1. config \in Tools
      BY <1>2 DEF Restart, ProbeInv, PicksOK
    <2>2. \A p \in Picks : pick[p].pc = "idle"
      BY <1>2 DEF Restart, ProbeInv, Down
    <2>3. ~stranded => config = last_selected_tool
      BY <1>2 DEF Restart, ProbeInv, Down
    <2>4. /\ last_selected_tool' = config /\ running' = TRUE
          /\ UNCHANGED <<tools, config, probe, pick, stranded>>
      BY <1>2 DEF Restart
    <2> QED
      BY <2>1, <2>2, <2>3, <2>4 DEF ProbeInv, PicksOK, ProbeFollowsTool,
         IsTouchProbe, ProbePlaced, Retraction, Extension, PrevNoted, Saved,
         Down
  <1> QED
    BY <1>1, <1>2

\* The control and the sequences of others.
LEMMA OthersKeepProbe ==
  ASSUME ProbeInv,
         ToggleControl \/ BeginSequence \/ EndSequence \/ UNCHANGED vars
  PROVE  ProbeInv'
  <1>1. UNCHANGED <<serverVars, probe, pick, historyVars>>
    BY DEF ToggleControl, BeginSequence, EndSequence, vars
  <1> QED
    BY <1>1 DEF ProbeInv, PicksOK, ProbeFollowsTool, IsTouchProbe,
       ProbePlaced, Retraction, Extension, PrevNoted, Saved, Down, serverVars,
       historyVars

LEMMA ProbeHolds ==
  ASSUME ~EditsInUse PROVE Spec /\ []OneSelecting => []ProbeInv
  <1>1. ProbeInv /\ OneSelecting /\ [Next]_vars => ProbeInv'
    BY AskingKeepsProbe, SelectKeepsProbe, RtuKeepsProbe, ServerKeepsProbe,
       EditsKeepProbe, CrashKeepsProbe, OthersKeepProbe DEF Next, PickStep
  <1> QED
    BY ProbeInit, <1>1, PTL DEF Spec

\* While selections come one at a time, in however many picks, and no tool in
\* use is edited, the touch probe is out only while a touch probe tool is
\* selected (set_last_selected_tool), whatever the RTU answers, whichever
\* answers are lost, and over crashes that cut no selection short.
THEOREM ProbeIsUnderItsTool ==
  ASSUME ~EditsInUse PROVE Spec /\ []OneSelecting => []ProbeFollowsTool
  <1>1. ProbeInv => ProbeFollowsTool
    BY DEF ProbeInv
  <1> QED
    BY ProbeHolds, <1>1, PTL

\* Under the same assumptions, and whenever the proxy crashes: what is
\* selected when no selection is under way is what config.json holds
\* (save_config), up to a selection whose answer was lost.
THEOREM SelectionSurvives ==
  ASSUME ~EditsInUse PROVE Spec /\ []OneSelecting => []SelectionIsSaved
  <1>1. ProbeInv => SelectionIsSaved
    BY DEF ProbeInv, Saved, SelectionIsSaved, Selecting
  <1> QED
    BY ProbeHolds, <1>1, PTL

-----------------------------------------------------------------------------
\* The pick's place after a step of its own.
LEMMA PickStepType ==
  ASSUME TypeOK, NEW p \in Picks, PickStep(p)
  PROVE  pick' \in [Picks -> PickStates]
  <1>0. pick \in [Picks -> PickStates] /\ last_selected_tool \in Tools
    BY DEF TypeOK
  <1>1. CASE \E t \in Tools : Ask(p, t)
    <2>1. PICK t \in Tools : Ask(p, t)
      BY <1>1
    <2> DEFINE m == IF IsTouchProbe(last_selected_tool) = IsTouchProbe(t)
                    THEN "nothing"
                    ELSE IF control THEN "message" ELSE "error"
    <2>2. pick' = [pick EXCEPT ![p] =
                     [pick[p] EXCEPT !.pc = "asked", !.tool = t, !.told = m]]
      BY <2>1 DEF Ask
    <2>3. m \in Told /\ "asked" \in Pcs
      BY DEF Told, Pcs
    <2> HIDE DEF m
    <2>4. [pick[p] EXCEPT !.pc = "asked", !.tool = t, !.told = m] \in PickStates
      BY <1>0, <2>3, PickFields
    <2> QED
      BY <1>0, <2>2, <2>4
  <1>2. CASE Select(p)
    <2> DEFINE x == IF pick[p].tool = last_selected_tool THEN "idle"
                    ELSE IF IsTouchProbe(last_selected_tool) THEN "retract"
                    ELSE "choose"
    <2>1. pick' = [pick EXCEPT ![p] =
                     [pick[p] EXCEPT !.pc = x, !.prev = last_selected_tool]]
      BY <1>2 DEF Select
    <2>2. x \in Pcs
      BY DEF Pcs
    <2> HIDE DEF x
    <2>3. [pick[p] EXCEPT !.pc = x, !.prev = last_selected_tool] \in PickStates
      BY <1>0, <2>2, PickFields
    <2> QED
      BY <1>0, <2>1, <2>3
  <1>3. CASE Retract(p) \/ Extend(p)
    <2>1. PICK to \in Pcs, answer \in Answers :
            pick' = [pick EXCEPT ![p].pc = to, ![p].answer = answer]
      BY <1>3 DEF Retract, Extend, TouchProbe, Pcs
    <2>2. [pick[p] EXCEPT !.pc = to, !.answer = answer] \in PickStates
      BY <1>0, PickFields
    <2> QED
      BY <1>0, <2>1, <2>2 DEF PickStates
  <1>4. CASE \/ Decline(p) \/ Post(p) \/ Retracted(p) \/ Choose(p)
             \/ Extended(p) \/ OpenConfig(p) \/ WriteConfig(p)
    <2>1. \E x \in Pcs : GoTo(p, x)
      BY <1>4 DEF Decline, Post, Retracted, Choose, Extended, OpenConfig,
         WriteConfig, Pcs
    <2> QED
      BY <1>0, <2>1, GoToEffect
  <1> QED
    BY <1>1, <1>2, <1>3, <1>4 DEF PickStep

LEMMA ToolsType ==
  ASSUME TypeOK, [Next]_vars
  PROVE  TypeOK'
  <1>1. ASSUME NEW p \in Picks, PickStep(p)
        PROVE  TypeOK'
    <2>1. pick' \in [Picks -> PickStates]
      BY <1>1, PickStepType
    <2>2. pick[p].tool \in Tools /\ pick[p].prev \in Tools
      BY DEF TypeOK, PickStates
    <2>3. CASE \/ \E t \in Tools : Ask(p, t)
               \/ Decline(p) \/ Post(p) \/ Select(p)
      BY <2>1, <2>3 DEF TypeOK, Ask, Decline, Post, Select, serverVars,
         historyVars
    <2>4. CASE Retract(p) \/ Extend(p)
      <3>1. probe' \in {"extended", "retracted"}
        BY <2>4 DEF Retract, Extend, TouchProbe, Answers, TypeOK
      <3> QED
        BY <2>1, <2>4, <3>1 DEF Retract, Extend, TouchProbe, TypeOK, serverVars,
           historyVars
    <2>5. CASE Retracted(p)
      BY <2>1, <2>5 DEF Retracted, TypeOK, serverVars, historyVars
    <2>6. CASE Choose(p)
      BY <2>1, <2>2, <2>6 DEF Choose, TypeOK, historyVars
    <2>7. CASE Extended(p)
      <3>1. last_selected_tool' \in Tools
        BY <2>2, <2>7 DEF Extended, TypeOK
      <3>2. is_sequence_in_progress' \in BOOLEAN /\ unsaved' \in BOOLEAN
        BY <2>7 DEF Extended, TypeOK
      <3> QED
        BY <2>1, <2>7, <3>1, <3>2 DEF Extended, TypeOK
    <2>8. CASE OpenConfig(p) \/ WriteConfig(p)
      BY <2>1, <2>8 DEF OpenConfig, WriteConfig, TypeOK, historyVars
    <2> QED
      BY <1>1, <2>3, <2>4, <2>5, <2>6, <2>7, <2>8 DEF PickStep
  <1>2. ASSUME NEW t \in Tools, NEW kind \in ToolKinds, EditTool(t, kind)
        PROVE  TypeOK'
    BY <1>2 DEF EditTool, TypeOK, historyVars
  <1>3. CASE Crash
    <2>1. \A p \in Picks : [pick[p] EXCEPT !.pc = "idle"] \in PickStates
      BY PickFields DEF TypeOK, Pcs
    <2>2. pick' \in [Picks -> PickStates]
      BY <1>3, <2>1 DEF Crash
    <2>3. stranded' \in BOOLEAN
      BY <1>3 DEF Crash
    <2> QED
      BY <1>3, <2>2, <2>3 DEF Crash, TypeOK
  <1>4. CASE Restart
    BY <1>4 DEF Restart, TypeOK
  <1>5. CASE ToggleControl \/ BeginSequence \/ EndSequence \/ UNCHANGED vars
    BY <1>5 DEF ToggleControl, BeginSequence, EndSequence, vars, serverVars,
       historyVars, TypeOK
  <1> QED
    BY <1>1, <1>2, <1>3, <1>4, <1>5 DEF Next

\* The variables of the picks, the server and the probe have their types, with
\* any number of picks at once and edits of any tool.
THEOREM ToolsTypeCorrect == Spec => []TypeOK
  <1>1. ASSUME Init PROVE TypeOK
    <2>1. pick \in [Picks -> PickStates]
      BY <1>1 DEF Init, PickStates, Pcs, Told, Answers
    <2>2. /\ running \in BOOLEAN /\ control \in BOOLEAN /\ unsaved \in BOOLEAN
          /\ stranded \in BOOLEAN /\ is_sequence_in_progress \in BOOLEAN
      BY <1>1 DEF Init
    <2>3. /\ tools \in [Tools -> ToolKinds] /\ last_selected_tool \in Tools
          /\ config \in Tools \cup {Torn} /\ probe \in {"extended", "retracted"}
      BY <1>1 DEF Init
    <2> QED
      BY <2>1, <2>2, <2>3 DEF TypeOK
  <1>2. TypeOK /\ [Next]_vars => TypeOK'
    BY ToolsType
  <1> QED
    BY <1>1, <1>2, PTL DEF Spec

=============================================================================
