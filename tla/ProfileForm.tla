------------------------------ MODULE ProfileForm ------------------------------
(***************************************************************************)
(* The form of a custom device profile: lists of texts and of prompts, the  *)
(* hooks of connections and of states, the rules it is detected by, and how *)
(* commands are executed.  A profile is applied to the form when it is      *)
(* loaded, and collected from it when it is saved.                          *)
(*                                                                          *)
(* Of lists that are edited alike there is one: a list of texts, a list of  *)
(* rows with patterns, a list of hooks without and one with states.  A      *)
(* field is Blank, valid, or Bad: a command whose timeout is no number, a   *)
(* rule whose weight is none.                                               *)
(***************************************************************************)
EXTENDS Naturals, SequencesExt

CONSTANTS Texts, Modes, Blank, Bad,
          Default,          \* the command of a new hook
          Markers, DefaultMarker,
          Loadable,         \* bound: the profiles of the service
          MaxRows           \* bound: rows of a list

VARIABLE state

form == state.form          \* the form
loaded == state.loaded      \* the profile it was loaded from
touched == state.touched    \* it was edited since
saved == state.saved        \* what was saved of it last

NotBlank(list) == SelectSeq(list, LAMBDA text : text # Blank)

-----------------------------------------------------------------------------
\* How commands are executed: by prompts, or as a shell that prints a marker.  The form
\* holds the same in a shape of its own.
ByPrompts == [kind |-> "prompt_driven"]
AsShell(marker) == [kind |-> "shell_exit_status", marker |-> marker]
InForm(mode, marker) == [kind |-> "form", mode |-> mode, marker |-> marker]

\* What is in the form already is no profile's setting, and taken for the first.
normalizeCommandExecutionConfig(config) ==
  IF config.kind = "shell_exit_status" THEN InForm("shell_exit_status", config.marker)
  ELSE InForm("prompt_driven", Blank)

commandExecutionPayload(execution) ==
  CASE execution.mode = "prompt_driven" -> ByPrompts
    [] execution.marker = Blank -> AsShell(DefaultMarker)
    [] OTHER -> AsShell(execution.marker)

\* readCustomProfileBaseForm: the form is normalized whenever it is read.
BaseRead(f) == [f EXCEPT !.execution = normalizeCommandExecutionConfig(@)]

-----------------------------------------------------------------------------
\* A command of a hook: its text, and for each prompt it answers whether a pattern is given.
Command(text, prompts) == [text |-> text, prompts |-> prompts]
defaultHookOperation == Command(Default, <<>>)

HookRow(state_, name, kind, command, steps) ==
  [state |-> state_, name |-> name, kind |-> kind, command |-> command, steps |-> steps]
Hook(name, kind, commands) == [name |-> name, kind |-> kind, commands |-> commands]

\* The row of a hook; the kind that it is not starts with the default.
normalizeHookListRow(hook, state_) ==
  LET isFlow == hook.kind = "flow" IN
  HookRow(state_, hook.name, hook.kind,
          IF isFlow THEN defaultHookOperation ELSE hook.commands[1],
          IF isFlow /\ hook.commands # <<>> THEN hook.commands ELSE <<defaultHookOperation>>)

NewHookRow == normalizeHookListRow(Hook(Blank, "command", <<defaultHookOperation>>), Blank)

\* collectHookCommand throws for what is not valid.
CommandOK(command) ==
  command.text \notin {Blank, Bad} /\ \A n \in DOMAIN command.prompts : command.prompts[n]

HookCommands(row) == IF row.kind = "flow" THEN row.steps ELSE <<row.command>>
collectHookOperation(row) == Hook(row.name, row.kind, HookCommands(row))
HookOperationOK(row) ==
  /\ HookCommands(row) # <<>>
  /\ \A n \in DOMAIN HookCommands(row) : CommandOK(HookCommands(row)[n])

hasHookOperationInput(row) ==
  \E n \in DOMAIN HookCommands(row) : HookCommands(row)[n].text # Blank

\* collectHook: a row without a name and without a command is left out.
HookOmitted(row) == row.name = Blank /\ ~hasHookOperationInput(row)
StateHookOmitted(row) == row.state = Blank /\ HookOmitted(row)
HookRowOK(row) == row.name # Blank /\ HookOperationOK(row)

collectHookListRows(rows) ==
  LET hooks == SelectSeq(rows, LAMBDA row : ~HookOmitted(row))
  IN [n \in DOMAIN hooks |-> collectHookOperation(hooks[n])]

\* The state whose hooks come last takes the place of the earlier ones.
WithStateHookAlone(groups, row) ==
  SelectSeq(groups, LAMBDA g : g.state # row.state)
    \o <<[state |-> row.state, hooks |-> <<collectHookOperation(row)>>]>>

\* The hooks of a state together, states in the order they come first.
WithStateHook(groups, row) ==
  LET hook == collectHookOperation(row) IN
  IF \E n \in DOMAIN groups : groups[n].state = row.state
  THEN [n \in DOMAIN groups |->
          IF groups[n].state = row.state THEN [groups[n] EXCEPT !.hooks = Append(@, hook)]
          ELSE groups[n]]
  ELSE Append(groups, [state |-> row.state, hooks |-> <<hook>>])

collectStateHookListRows(rows) ==
  FoldLeft(WithStateHook, <<>>, SelectSeq(rows, LAMBDA row : ~StateHookOmitted(row)))

StateHookRows(groups) ==
  FoldLeft(LAMBDA rows, group : rows \o [n \in DOMAIN group.hooks |->
                                           normalizeHookListRow(group.hooks[n], group.state)],
           <<>>, groups)

-----------------------------------------------------------------------------
\* Rules by which a device is detected, at once or by the answer to a command.
Rule(pattern, weight) == [pattern |-> pattern, weight |-> weight]
normalizeDetectRule == Rule(Blank, "50")
Probe(command, errors, rules) == [command |-> command, errors |-> errors, rules |-> rules]
normalizeDetectProbe == Probe(Blank, <<>>, <<normalizeDetectRule>>)

Or(list, default) == IF list = <<>> THEN <<default>> ELSE list
ProbeRows(probes) == [n \in DOMAIN probes |->
                        [probes[n] EXCEPT !.rules = Or(@, normalizeDetectRule)]]

Detect(on, rules, probes) == [enabled |-> on, rules |-> rules, probes |-> probes]
ensureDetectProfileDefaults(detect) ==
  IF ~detect.enabled THEN detect
  ELSE [detect EXCEPT !.rules = Or(@, normalizeDetectRule), !.probes = Or(@, normalizeDetectProbe)]

normalizeDetectProfileForm(profile) ==
  IF ~profile.enabled THEN Detect(FALSE, <<>>, <<>>)
  ELSE ensureDetectProfileDefaults(Detect(TRUE, profile.rules, ProbeRows(profile.probes)))

collectDetectRules(rules) == SelectSeq(rules, LAMBDA rule : rule.pattern # Blank)
DetectRulesOK(rules) == \A n \in DOMAIN rules : rules[n].pattern # Blank => rules[n].weight # Bad

CollectedProbes(probes) ==
  [n \in DOMAIN probes |-> Probe(probes[n].command, NotBlank(probes[n].errors),
                                 collectDetectRules(probes[n].rules))]
ProbeOmitted(probe) == probe.command = Blank /\ probe.rules = <<>> /\ probe.errors = <<>>

collectDetectProfile(detect) ==
  IF ~detect.enabled THEN Detect(FALSE, <<>>, <<>>)
  ELSE Detect(TRUE, collectDetectRules(detect.rules),
              SelectSeq(CollectedProbes(detect.probes), LAMBDA probe : ~ProbeOmitted(probe)))

DetectOK(detect) ==
  detect.enabled =>
    /\ DetectRulesOK(detect.rules)
    /\ \A n \in DOMAIN detect.probes :
         /\ DetectRulesOK(detect.probes[n].rules)
         /\ detect.probes[n].command # Blank \/ ProbeOmitted(CollectedProbes(detect.probes)[n])

-----------------------------------------------------------------------------
PromptRow(state_, patterns) == [state |-> state_, patterns |-> patterns]
emptyProfileForm ==
  [execution |-> ByPrompts, simple |-> <<>>, prompts |-> <<>>, hooks |-> <<>>,
   stateHooks |-> <<>>, detect |-> Detect(FALSE, <<>>, <<>>)]

\* A list of texts has a line to be typed into.
applyCustomProfileForm(profile) ==
  [execution |-> normalizeCommandExecutionConfig(profile.execution),
   simple |-> Or(profile.simple, Blank),
   prompts |-> [n \in DOMAIN profile.prompts |->
                  [profile.prompts[n] EXCEPT !.patterns = Or(@, Blank)]],
   hooks |-> [n \in DOMAIN profile.hooks |-> normalizeHookListRow(profile.hooks[n], Blank)],
   stateHooks |-> StateHookRows(profile.stateHooks),
   detect |-> normalizeDetectProfileForm(profile.detect)]

collectProfileListRows(rows) ==
  SelectSeq([n \in DOMAIN rows |-> [rows[n] EXCEPT !.patterns = NotBlank(@)]],
            LAMBDA row : row.state # Blank \/ row.patterns # <<>>)

collectCustomProfileForm(f) ==
  [execution |-> commandExecutionPayload(f.execution),
   simple |-> NotBlank(f.simple),
   prompts |-> collectProfileListRows(f.prompts),
   hooks |-> collectHookListRows(f.hooks),
   stateHooks |-> collectStateHookListRows(f.stateHooks),
   detect |-> collectDetectProfile(f.detect)]

\* Nothing that is collected throws.
Collects(f) ==
  /\ DetectOK(f.detect)
  /\ \A n \in DOMAIN f.hooks : HookOmitted(f.hooks[n]) \/ HookRowOK(f.hooks[n])
  /\ \A n \in DOMAIN f.stateHooks :
       LET row == f.stateHooks[n]
       IN StateHookOmitted(row) \/ (row.state # Blank /\ HookRowOK(row))

Init ==
  \E profile \in Loadable \cup {emptyProfileForm} :
    state = [form |-> applyCustomProfileForm(profile), loaded |-> profile, touched |-> FALSE,
             saved |-> {}]

setProfileForm ==
  \E profile \in Loadable :
    state' = [form |-> applyCustomProfileForm(profile), loaded |-> profile, touched |-> FALSE,
              saved |-> {}]

\* What is saved is put into the form again, as far as commands are executed.
saveCustomProfile ==
  LET read == BaseRead(form)
      profile == collectCustomProfileForm(read)
  IN IF ~Collects(read) THEN state' = [state EXCEPT !.form = read]
     ELSE state' = [state EXCEPT
            !.form = [read EXCEPT !.execution = normalizeCommandExecutionConfig(profile.execution)],
            !.saved = {profile}]

-----------------------------------------------------------------------------
Edited(f) == state' = [state EXCEPT !.form = f, !.touched = TRUE]

\* The mode can be chosen; what is shown of the form is normalized once more, so that
\* the field of the marker never appears.
updateCustomCommandExecutionMode ==
  \E config \in {ByPrompts, AsShell(BaseRead(form).execution.marker)} :
    Edited([form EXCEPT !.execution = normalizeCommandExecutionConfig(config)])

addProfileListItem ==
  \/ Len(form.simple) < MaxRows /\ Edited([form EXCEPT !.simple = Append(@, Blank)])
  \/ /\ Len(form.prompts) < MaxRows
     /\ Edited([form EXCEPT !.prompts = Append(@, PromptRow(Blank, <<Blank>>))])

setProfileListSimpleValue ==
  \E n \in DOMAIN form.simple, text \in Texts \cup {Blank} :
    Edited([form EXCEPT !.simple[n] = text])

removeProfileListRow ==
  \/ \E n \in DOMAIN form.simple : Edited([form EXCEPT !.simple = RemoveAt(@, n)])
  \/ \E n \in DOMAIN form.prompts : Edited([form EXCEPT !.prompts = RemoveAt(@, n)])

patchProfileListRow ==
  \E n \in DOMAIN form.prompts, mode \in Modes \cup {Blank} :
    Edited([form EXCEPT !.prompts[n].state = mode])

setProfileListPattern ==
  \E n \in DOMAIN form.prompts :
    \E k \in DOMAIN form.prompts[n].patterns, text \in Texts \cup {Blank} :
      Edited([form EXCEPT !.prompts[n].patterns[k] = text])

addProfileListPattern ==
  \E n \in DOMAIN form.prompts :
    /\ Len(form.prompts[n].patterns) < MaxRows
    /\ Edited([form EXCEPT !.prompts[n].patterns = Append(@, Blank)])

removeProfileListPattern ==
  \E n \in DOMAIN form.prompts : \E k \in DOMAIN form.prompts[n].patterns :
    Edited([form EXCEPT !.prompts[n].patterns = RemoveAt(@, k)])

\* The patterns of a row, the row, the list they are in.
PatternList == setProfileListPattern \/ removeProfileListPattern
ProfileListRowEditor ==
  \/ setProfileListSimpleValue \/ removeProfileListRow \/ patchProfileListRow
  \/ addProfileListPattern \/ PatternList
profileListSectionEditor == addProfileListItem \/ ProfileListRowEditor

-----------------------------------------------------------------------------
HookLists == {"hooks", "stateHooks"}
EditedHooks(list, rows) == Edited([form EXCEPT ![list] = rows])
EditedHook(list, n, row) == EditedHooks(list, [form[list] EXCEPT ![n] = row])

addHookListRow ==
  \E list \in HookLists :
    Len(form[list]) < MaxRows /\ EditedHooks(list, Append(form[list], NewHookRow))

removeHookListRow ==
  \E list \in HookLists : \E n \in DOMAIN form[list] :
    EditedHooks(list, RemoveAt(form[list], n))

\* Only hooks of states have a field for one.
patchHookListRow ==
  \/ \E list \in HookLists : \E n \in DOMAIN form[list], name \in Texts \cup {Blank} :
       EditedHook(list, n, [form[list][n] EXCEPT !.name = name])
  \/ \E n \in DOMAIN form.stateHooks, mode \in Modes :
       EditedHook("stateHooks", n, [form.stateHooks[n] EXCEPT !.state = mode])

\* A flow starts with a step.
changeHookListKind ==
  \E list \in HookLists : \E n \in DOMAIN form[list], kind \in {"command", "flow"} :
    EditedHook(list, n, [form[list][n] EXCEPT
      !.kind = kind, !.steps = IF kind = "flow" THEN Or(@, defaultHookOperation) ELSE @])

\* The interaction editor: a prompt is added without a pattern.
ChangedPrompts(prompts) ==
  (IF Len(prompts) < MaxRows THEN {Append(prompts, FALSE)} ELSE {})
    \cup {[prompts EXCEPT ![n] = given] : n \in DOMAIN prompts, given \in BOOLEAN}
    \cup {RemoveAt(prompts, n) : n \in DOMAIN prompts}

ChangedCommands(command) ==
  {[command EXCEPT !.text = text] : text \in Texts \cup {Blank, Bad}}
    \cup {[command EXCEPT !.prompts = prompts] : prompts \in ChangedPrompts(command.prompts)}

patchHookListCommand ==
  \E list \in HookLists : \E n \in DOMAIN form[list] :
    /\ form[list][n].kind = "command"
    /\ \E command \in ChangedCommands(form[list][n].command) :
         EditedHook(list, n, [form[list][n] EXCEPT !.command = command])

patchHookListFlowStep ==
  \E list \in HookLists : \E n \in DOMAIN form[list] :
    /\ form[list][n].kind = "flow"
    /\ \E k \in DOMAIN form[list][n].steps :
         \E command \in ChangedCommands(form[list][n].steps[k]) :
           EditedHook(list, n, [form[list][n] EXCEPT !.steps[k] = command])

updateHookListFlowSteps ==
  \E list \in HookLists : \E n \in DOMAIN form[list] :
    LET row == form[list][n] IN
    /\ row.kind = "flow"
    /\ \/ /\ Len(row.steps) < MaxRows
          /\ EditedHook(list, n, [row EXCEPT !.steps = Append(@, defaultHookOperation)])
       \/ \E k \in DOMAIN row.steps : EditedHook(list, n, [row EXCEPT !.steps = RemoveAt(@, k)])

hookFlowStep == patchHookListFlowStep \/ updateHookListFlowSteps
profileHookRowInputHandlers ==
  removeHookListRow \/ patchHookListRow \/ changeHookListKind \/ patchHookListCommand \/ hookFlowStep

-----------------------------------------------------------------------------
EditedDetect(detect) == Edited([form EXCEPT !.detect = detect])
setProfileDetectEnabled == \E on \in BOOLEAN : EditedDetect([form.detect EXCEPT !.enabled = on])

\* When the panel is shown.
ensureProfileDetectDefaults ==
  /\ ensureDetectProfileDefaults(form.detect) # form.detect
  /\ state' = [state EXCEPT !.form.detect = ensureDetectProfileDefaults(@)]

ChangedRules(rules) ==
  (IF Len(rules) < MaxRows THEN {Append(rules, normalizeDetectRule)} ELSE {})
    \cup {RemoveAt(rules, n) : n \in DOMAIN rules}
    \cup {[rules EXCEPT ![n].pattern = text] : n \in DOMAIN rules, text \in Texts \cup {Blank}}
    \cup {[rules EXCEPT ![n].weight = weight] : n \in DOMAIN rules, weight \in {"50", Bad}}

changeDetectRules ==
  /\ form.detect.enabled
  /\ \E rules \in ChangedRules(form.detect.rules) : EditedDetect([form.detect EXCEPT !.rules = rules])

changeDetectProbes ==
  LET probes == form.detect.probes IN
  /\ form.detect.enabled
  /\ \/ /\ Len(probes) < MaxRows
        /\ EditedDetect([form.detect EXCEPT !.probes = Append(@, normalizeDetectProbe)])
     \/ \E n \in DOMAIN probes : EditedDetect([form.detect EXCEPT !.probes = RemoveAt(@, n)])

\* The card of a probe.
patchProfileDetectProbe ==
  /\ form.detect.enabled
  /\ \E n \in DOMAIN form.detect.probes :
       LET probe == form.detect.probes[n]
           Changed(next) == EditedDetect([form.detect EXCEPT !.probes[n] = next])
       IN \/ \E text \in Texts \cup {Blank} : Changed([probe EXCEPT !.command = text])
          \/ \E rules \in ChangedRules(probe.rules) : Changed([probe EXCEPT !.rules = rules])
          \/ Len(probe.errors) < MaxRows /\ Changed([probe EXCEPT !.errors = Append(@, Blank)])
          \/ \E k \in DOMAIN probe.errors :
               \/ Changed([probe EXCEPT !.errors = RemoveAt(@, k)])
               \/ \E text \in Texts \cup {Blank} : Changed([probe EXCEPT !.errors[k] = text])

CustomProfileDetectPanel ==
  \/ setProfileDetectEnabled \/ ensureProfileDetectDefaults \/ changeDetectRules
  \/ changeDetectProbes \/ patchProfileDetectProbe

Next ==
  \/ setProfileForm \/ saveCustomProfile \/ updateCustomCommandExecutionMode
  \/ profileListSectionEditor \/ addHookListRow \/ profileHookRowInputHandlers
  \/ CustomProfileDetectPanel

-----------------------------------------------------------------------------
TypeOK ==
  /\ touched \in BOOLEAN
  /\ form.execution \in [kind: {"form"}, mode: {"prompt_driven", "shell_exit_status"},
                         marker: Markers \cup {Blank}]
  /\ form.simple \in Seq(Texts \cup {Blank})
  /\ \A list \in HookLists : \A n \in DOMAIN form[list] :
       form[list][n].kind = "command" => form[list][n].command.text \in Texts \cup {Default, Blank, Bad}

\* What a form is collected as reads back as a form that is collected as the same, and
\* every hook that is shown is collected under its state; and a profile that was loaded and not touched is
\* collected as it was, apart from how commands are executed.
CollectsWhatItShows ==
  LET read == BaseRead(form)
      profile == collectCustomProfileForm(read)
  IN /\ Collects(read) =>
          LET again == BaseRead(applyCustomProfileForm(profile))
          IN /\ Collects(again) /\ collectCustomProfileForm(again) = profile
             /\ \A row \in ToSet(SelectSeq(form.stateHooks, LAMBDA row : ~StateHookOmitted(row))) :
                  \E group \in ToSet(profile.stateHooks) :
                    group.state = row.state /\ collectHookOperation(row) \in ToSet(group.hooks)
     /\ ~touched => Collects(read) /\ [profile EXCEPT !.execution = loaded.execution] = loaded

\* A profile that is loaded and saved keeps how its commands are executed.
SavesExecution == \A profile \in saved : ~touched => profile.execution = loaded.execution
=============================================================================
