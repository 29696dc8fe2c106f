------------------------------ MODULE ToolChanger ------------------------------
(***************************************************************************)
(* Selecting a tool: the dropdown of index.html asks whether the touch     *)
(* probe would move, the operator confirms, and REMA::set_last_selected_   *)
(* tool retracts and extends the probe and saves the selection.  Nothing   *)
(* holds the dropdown while a pick is under way: two picks, of one page or *)
(* of two, run on two workers.                                             *)
(*                                                                         *)
(* The RTU, which moves the probe and answers, is external, and so is the  *)
(* worker that raises and lowers is_sequence_in_progress.                  *)
(***************************************************************************)
EXTENDS Naturals

CONSTANTS Tools, Picks,
          Torn,           \* a config.json opened and not yet written
          EditsInUse      \* a tool selected, or being selected, is edited

ASSUME SwitchBoolean == EditsInUse \in BOOLEAN

ASSUME SomeTool == Tools # {} /\ Torn \notin Tools

VARIABLES
  tools,               \* REMA::tools: what each tool is
  last_selected_tool,
  config,              \* the selection in config.json, or Torn
  running,             \* the proxy runs
  probe,               \* external: where the touch probe is
  control,             \* telemetry.control_enabled
  is_sequence_in_progress,
  pick,                \* the picks under way, each with its request
  unsaved,             \* history: a selection was kept and never saved
  stranded             \* history: a crash has cut a selection short

serverVars == <<tools, last_selected_tool, config, running>>
historyVars == <<unsaved, stranded>>
vars == <<serverVars, probe, control, is_sequence_in_progress, pick,
          historyVars>>

ToolKinds == {"absent", "plain", "probe"}
Told == {"nothing", "message", "error"}
Answers == {"ok", "error", "lost"}
Pcs == {"idle", "asked", "select", "retract", "retracted", "choose",
        "extend", "extended", "save", "write"}
PickStates == [pc : Pcs, tool : Tools, prev : Tools, told : Told,
               answer : Answers]

\* get_tool(t).is_touch_probe; a tool that is not there is a default one.
IsTouchProbe(t) == t \in Tools /\ tools[t] = "probe"

\* The proxy has started with the selection it had saved.
Init ==
  /\ tools \in [Tools -> ToolKinds]
  /\ last_selected_tool \in Tools
  /\ probe \in {"extended", "retracted"}
  /\ probe = "extended" => IsTouchProbe(last_selected_tool)
  /\ config = last_selected_tool
  /\ running = TRUE /\ control \in BOOLEAN
  /\ is_sequence_in_progress = FALSE
  /\ pick = [p \in Picks |->
               [pc |-> "idle", tool |-> config, prev |-> config,
                told |-> "nothing", answer |-> "ok"]]
  /\ unsaved = FALSE /\ stranded = FALSE

\* The request of the pick has got past its first test.
Selecting(p) == pick[p].pc \notin {"idle", "asked", "select"}

GoTo(p, pc) == pick' = [pick EXCEPT ![p].pc = pc]

-----------------------------------------------------------------------------
(* Actions below with one defect each, to try the properties on.           *)

\* The tool is selected before the probe of the one before is retracted.
ChooseFirst(p) ==
  /\ pick[p].pc = "select"
  /\ IF pick[p].tool = last_selected_tool
     THEN GoTo(p, "idle") /\ UNCHANGED last_selected_tool
     ELSE /\ last_selected_tool' = pick[p].tool
          /\ pick' = [pick EXCEPT
               ![p].pc = IF IsTouchProbe(last_selected_tool) THEN "retract"
                                                             ELSE "choose",
               ![p].prev = last_selected_tool]
  /\ UNCHANGED <<tools, config, running, probe, control, is_sequence_in_progress,
                 historyVars>>

\* A failed extension leaves the new tool selected.
ExtendedWithoutRestore(p) ==
  /\ pick[p].pc = "extended"
  /\ GoTo(p, IF pick[p].answer = "ok" THEN "save" ELSE "idle")
  /\ is_sequence_in_progress' =
       (is_sequence_in_progress /\ pick[p].answer # "error")
  /\ unsaved' = (unsaved \/ pick[p].answer = "lost")
  /\ UNCHANGED <<serverVars, probe, control, stranded>>

\* The previous tool is not noted.
SelectWithoutPrev(p) ==
  /\ pick[p].pc = "select"
  /\ pick' = [pick EXCEPT
       ![p].pc = IF pick[p].tool = last_selected_tool THEN "idle"
                 ELSE IF IsTouchProbe(last_selected_tool) THEN "retract"
                 ELSE "choose",
       ![p].prev = "none"]
  /\ UNCHANGED <<serverVars, probe, control, is_sequence_in_progress, historyVars>>

-----------------------------------------------------------------------------
(* The page                                                                *)

\* The operator picks a tool; REMA::would_move_touch_probe answers.
Ask(p, t) ==
  /\ running /\ pick[p].pc = "idle"
  /\ pick' = [pick EXCEPT
       ![p].pc = "asked", ![p].tool = t,
       ![p].told = IF IsTouchProbe(last_selected_tool) = IsTouchProbe(t)
                   THEN "nothing"
                   ELSE IF control THEN "message" ELSE "error"]
  /\ UNCHANGED <<serverVars, probe, control, is_sequence_in_progress, historyVars>>

\* confirm() was answered with Cancel.
Decline(p) ==
  /\ pick[p].pc = "asked" /\ pick[p].told = "message"
  /\ GoTo(p, "idle")
  /\ UNCHANGED <<serverVars, probe, control, is_sequence_in_progress, historyVars>>

\* Every other answer, an error too, leads to the POST.
Post(p) ==
  /\ pick[p].pc = "asked"
  /\ GoTo(p, "select")
  /\ UNCHANGED <<serverVars, probe, control, is_sequence_in_progress, historyVars>>

-----------------------------------------------------------------------------
(* tools_select and REMA::set_last_selected_tool                           *)

Select(p) ==
  /\ pick[p].pc = "select"
  /\ pick' = [pick EXCEPT
       ![p].pc = IF pick[p].tool = last_selected_tool THEN "idle"
                 ELSE IF IsTouchProbe(last_selected_tool) THEN "retract"
                 ELSE "choose",
       ![p].prev = last_selected_tool]
  /\ UNCHANGED <<serverVars, probe, control, is_sequence_in_progress, historyVars>>

\* External: the RTU executes TOUCH_PROBE and its answer comes, is an error,
\* with the probe where it was, or is lost.
TouchProbe(p, from, to, position) ==
  /\ pick[p].pc = from
  /\ \E answer \in Answers :
       /\ answer = "ok" => probe' = position
       /\ answer = "error" => probe' = probe
       /\ answer = "lost" => probe' \in {probe, position}
       /\ pick' = [pick EXCEPT ![p].pc = to, ![p].answer = answer]
  /\ UNCHANGED <<serverVars, control, is_sequence_in_progress, historyVars>>

Retract(p) == TouchProbe(p, "retract", "retracted", "retracted")
Extend(p) == TouchProbe(p, "extend", "extended", "extended")

\* retract_touch_probe returns; with no answer json::parse throws.
Retracted(p) ==
  /\ pick[p].pc = "retracted"
  /\ GoTo(p, IF pick[p].answer = "ok" THEN "choose" ELSE "idle")
  /\ is_sequence_in_progress' =
       (is_sequence_in_progress /\ pick[p].answer # "error")
  /\ UNCHANGED <<serverVars, probe, control, historyVars>>

Choose(p) ==
  /\ pick[p].pc = "choose"
  /\ last_selected_tool' = pick[p].tool
  /\ GoTo(p, IF IsTouchProbe(pick[p].tool) THEN "extend" ELSE "save")
  /\ UNCHANGED <<tools, config, running, probe, control, is_sequence_in_progress,
                 historyVars>>

\* extend_touch_probe returns; the exception leaves the new tool selected.
Extended(p) ==
  /\ pick[p].pc = "extended"
  /\ GoTo(p, IF pick[p].answer = "ok" THEN "save" ELSE "idle")
  /\ last_selected_tool' = IF pick[p].answer = "error" THEN pick[p].prev
                                                     ELSE last_selected_tool
  /\ is_sequence_in_progress' =
       (is_sequence_in_progress /\ pick[p].answer # "error")
  /\ unsaved' = (unsaved \/ pick[p].answer = "lost")
  /\ UNCHANGED <<tools, config, running, probe, control, stranded>>

\* save_config: opening the file empties it, closing it writes it.
OpenConfig(p) ==
  /\ pick[p].pc = "save"
  /\ config' = Torn
  /\ GoTo(p, "write")
  /\ UNCHANGED <<tools, last_selected_tool, running, probe, control,
                 is_sequence_in_progress, historyVars>>

WriteConfig(p) ==
  /\ pick[p].pc = "write"
  /\ config' = last_selected_tool
  /\ GoTo(p, "idle")
  /\ unsaved' = FALSE
  /\ UNCHANGED <<tools, last_selected_tool, running, probe, control,
                 is_sequence_in_progress, stranded>>

-----------------------------------------------------------------------------
\* tools_add_update and tools_delete, of a tool file and its entry.
EditTool(t, kind) ==
  /\ running
  /\ EditsInUse \/ (t # last_selected_tool
                      /\ \A p \in Picks : pick[p].pc # "idle"
                                            => t # pick[p].tool)
  /\ tools[t] # kind
  /\ tools' = [tools EXCEPT ![t] = kind]
  /\ UNCHANGED <<last_selected_tool, config, running, probe, control,
                 is_sequence_in_progress, pick,
                 historyVars>>

\* The proxy stops, between any two steps.
Crash ==
  /\ running
  /\ running' = FALSE
  /\ is_sequence_in_progress' = FALSE
  /\ stranded' = (stranded \/ unsaved \/ \E p \in Picks : Selecting(p))
  /\ pick' = [p \in Picks |-> [pick[p] EXCEPT !.pc = "idle"]]
  /\ UNCHANGED <<tools, last_selected_tool, config, probe, control, unsaved>>

\* The constructor's load_config.  With an empty file main, which looks
\* for members of its content, does not get to serve.
Restart ==
  /\ ~running
  /\ config # Torn
  /\ running' = TRUE
  /\ last_selected_tool' = config
  /\ unsaved' = FALSE
  /\ UNCHANGED <<tools, config, probe, control, is_sequence_in_progress, pick,
                 stranded>>

\* External: the axes' control is switched on or off.
ToggleControl ==
  /\ running
  /\ control' = ~control
  /\ UNCHANGED <<serverVars, probe, is_sequence_in_progress, pick,
                 historyVars>>

\* External: another worker enters and leaves execute_sequence.
BeginSequence ==
  /\ running /\ ~is_sequence_in_progress
  /\ is_sequence_in_progress' = TRUE
  /\ UNCHANGED <<serverVars, probe, control, pick, historyVars>>

EndSequence ==
  /\ is_sequence_in_progress
  /\ is_sequence_in_progress' = FALSE
  /\ UNCHANGED <<serverVars, probe, control, pick, historyVars>>

PickStep(p) ==
  \/ \E t \in Tools : Ask(p, t)
  \/ Decline(p) \/ Post(p)
  \/ Select(p) \/ Retract(p) \/ Retracted(p) \/ Choose(p)
  \/ Extend(p) \/ Extended(p) \/ OpenConfig(p) \/ WriteConfig(p)

Next ==
  \/ \E p \in Picks : PickStep(p)
  \/ \E t \in Tools, kind \in ToolKinds : EditTool(t, kind)
  \/ Crash \/ Restart \/ ToggleControl \/ BeginSequence \/ EndSequence

Spec == Init /\ [][Next]_vars

-----------------------------------------------------------------------------
\* The variables have their types.
TypeOK ==
  /\ tools \in [Tools -> ToolKinds]
  /\ last_selected_tool \in Tools
  /\ config \in Tools \cup {Torn}
  /\ running \in BOOLEAN /\ control \in BOOLEAN /\ unsaved \in BOOLEAN
  /\ probe \in {"extended", "retracted"}
  /\ stranded \in BOOLEAN /\ is_sequence_in_progress \in BOOLEAN
  /\ pick \in [Picks -> PickStates]

\* Offsets and moves are for a touch probe that is out only when its tool
\* is selected: at no point of a selection, with errors and lost answers,
\* is the probe out under another tool (set_last_selected_tool retracts
\* before it selects and selects before it extends).  A crash keeps it so,
\* unless it cuts a selection short.
ProbeFollowsTool ==
  ~stranded /\ probe = "extended" => IsTouchProbe(last_selected_tool)

\* A restart comes back with the tool that is selected, unless a lost
\* answer left a selection that was never saved.
SelectionIsSaved ==
  (\A p \in Picks : ~Selecting(p)) /\ running /\ ~unsaved
    => config = last_selected_tool

=============================================================================
