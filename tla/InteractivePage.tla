---------------------------- MODULE InteractivePage ----------------------------
(***************************************************************************)
(* The panel that runs one interactive command: the command with its        *)
(* prompts, as a form and as TOML, from a template or from nothing; the     *)
(* variables that the service finds in it; and its runs.                    *)
(*                                                                          *)
(* A run is of the target that is chosen elsewhere on the page.             *)
(*                                                                          *)
(* The text is inspected by the service when it has not changed for a       *)
(* while.  Loading and saving disable the panel, inspecting and running do  *)
(* not.  The source is edited by the rules of every template: a template is *)
(* read only until it is edited, a built-in one for good.                   *)
(***************************************************************************)
EXTENDS Requests, Sequences, SequencesExt

CONSTANTS Names, Builtins,      \* templates that can be changed, and those that cannot
          Commands, Blank,      \* commands, and the one that is blank
          FieldsOf,             \* the variables of each command
          DefaultOf,            \* the default of a variable, Blank if it has none
          Required, Numeric,    \* variables that are required, and that are numbers
          AllowsEmpty,          \* variables that are sent though they are blank
          Values, Numerals,     \* texts that can be typed for them; those that read as numbers
          Patterns,             \* patterns of a prompt
          MaxPrompts, MaxRuns,  \* bounds: prompts of a command, runs of a behaviour
          Settings, NewSettings,    \* how results are read and sessions are retried
          Typed,                \* texts that can be typed
          Invalid, Draft,       \* the text that is no document, the name of a new one
          None

VARIABLES state, calls

Documents ==
  [name: Names \cup Builtins \cup {Draft}, command: Commands,
   timeout: {"inherited", "0", "30"}, prompts: Seq(Seq(Patterns))]

InteractivePageAssumption ==
  /\ Names \cap Builtins = {} /\ Draft \notin Names \cup Builtins /\ Blank \in Commands \cap Values
  /\ FieldsOf[Blank] = {} /\ NewSettings \in Settings /\ Blank \in Patterns
  /\ Typed \subseteq Documents

-----------------------------------------------------------------------------
(***************************************************************************)
(* The draft: a document, the text it is written as, and what the service   *)
(* says of the text.                                                        *)
(***************************************************************************)
defaultInteractiveTemplateModel ==
  [name |-> Draft, command |-> Blank, timeout |-> "inherited", prompts |-> <<>>]

\* A timeout that is wanted and not given is written as zero.
interactiveTemplateModelToToml(doc) == [doc EXCEPT !.timeout = IF @ = "empty" THEN "0" ELSE @]

NoInspection == [version |-> NoCall, loading |-> FALSE, failed |-> FALSE, varsSchema |-> {}]

setTextAlone(s, text) == [s EXCEPT !.text = text, !.inspection = NoInspection]
\* A text that cannot be read leaves the document.
setTomlText(s, text) ==
  [s EXCEPT !.text = text, !.inspection = NoInspection, !.doc = IF text = Invalid THEN @ ELSE text]
setModelAlone(s, doc) == [s EXCEPT !.doc = doc, !.inspection = NoInspection]
setModel(s, doc) ==
  [s EXCEPT !.doc = doc, !.text = interactiveTemplateModelToToml(doc), !.inspection = NoInspection]

markClean(s) == [s EXCEPT !.baseline = s.text]
isDirty(s) == s.text # s.baseline

\* Inspections that have begun before count no more.
applyInspection(s, fields) == [s EXCEPT !.inspection = [NoInspection EXCEPT !.varsSchema = fields]]

\* What has been typed stays where the variable does; onInspection.
updateFieldsAnew(s, fields) == [s EXCEPT !.values = [f \in fields |-> DefaultOf[f]]]
updateInteractiveTemplateVarFields(s, fields) ==
  [s EXCEPT !.values = [f \in fields |-> IF f \in DOMAIN s.values THEN s.values[f] ELSE DefaultOf[f]]]

-----------------------------------------------------------------------------
\* stored: what the service keeps; kept: the settings from before an edit; options: the
\* templates that are known, selected: the row of the prompts that is in the editor.
Init ==
  /\ calls = NoCalls
  /\ \E stored \in [Names \cup Builtins -> Typed \cup {None}] :
       /\ \A name \in Builtins : stored[name] # None
       /\ \A name \in DOMAIN stored : stored[name] # None => stored[name].name = name
       /\ state = [selection |-> None, editing |-> FALSE, snapshot |-> None, dialogOpen |-> FALSE,
                   doc |-> defaultInteractiveTemplateModel, text |-> defaultInteractiveTemplateModel,
                   baseline |-> defaultInteractiveTemplateModel, inspection |-> NoInspection,
                   timer |-> FALSE, values |-> [f \in {} |-> Blank], selected |-> 1,
                   settings |-> NewSettings, kept |-> None, loadingAction |-> "",
                   options |-> {name \in DOMAIN stored : stored[name] # None}, listVersion |-> NoCall, run |-> NoCall, runs |-> <<>>,
                   stored |-> stored]

busy == state.loadingAction # ""
readonly == state.selection # None /\ ~state.editing
\* The dialog that asks for a name is modal.
Reachable == ~state.dialogOpen
canEdit == Reachable /\ ~busy /\ ~readonly

validText == state.text # Invalid
valid == validText /\ ~state.inspection.failed /\ ~state.inspection.loading
usable == valid /\ state.doc.command # Blank

Shown(s) == state' = s /\ UNCHANGED calls
End(i, s) == state' = s /\ calls' = Settle(calls, i)
Ask(s, call) == CanPost(calls) /\ state' = s /\ calls' = Post(calls, call)

adoptSource(s, name) ==
  [s EXCEPT !.selection = name, !.editing = FALSE, !.snapshot = None, !.dialogOpen = FALSE,
            !.kept = None]

\* A document of the service is named as it is known there, and clean.
applyLoadedDetail(s, name, text) ==
  LET fields == FieldsOf[text.command]
      loaded == markClean(setModel(setTomlText(s, text), [text EXCEPT !.name = name]))
  IN updateInteractiveTemplateVarFields(applyInspection(loaded, fields), fields)

\* Unsaved work has been given up, or there is none.
selectTemplate(name) ==
  /\ Reachable /\ ~busy /\ name # state.selection /\ name \in state.options \cup {None}
  /\ IF name = None
     THEN Shown(updateInteractiveTemplateVarFields(
                  markClean(setModel([adoptSource(state, None) EXCEPT !.timer = FALSE],
                                     defaultInteractiveTemplateModel)), {}))
     ELSE Ask([state EXCEPT !.timer = FALSE, !.loadingAction = "load"], [op |-> "load", name |-> name])

AnswerLoad(i) ==
  LET name == calls[i].name text == state.stored[name] IN
  /\ calls[i].op = "load"
  /\ \/ End(i, [state EXCEPT !.loadingAction = ""])
     \/ /\ text # None
        /\ End(i, [adoptSource(applyLoadedDetail(state, name, text), name) EXCEPT !.loadingAction = ""])

-----------------------------------------------------------------------------
(***************************************************************************)
(* Edits, each followed by an inspection after a pause.                     *)
(***************************************************************************)
Inspecting(s) == [s EXCEPT !.timer = TRUE, !.inspection.loading = TRUE]
SetModel(doc) == canEdit /\ Shown(Inspecting(setModel(state, doc)))

\* The text is edited out of sight of the form, which begins with its first row again.
SetTomlText(text) ==
  /\ canEdit /\ text # state.text
  /\ LET s == setTomlText([state EXCEPT !.selected = 1], text)
     IN Shown(IF text = Invalid
              THEN updateInteractiveTemplateVarFields([s EXCEPT !.timer = FALSE], {})
              ELSE Inspecting(s))

InspectionTimer ==
  /\ state.timer
  /\ Ask([state EXCEPT !.timer = FALSE, !.inspection.version = NextId(calls)],
         [op |-> "inspect", of |-> state.text.command])

isInspecting(i) == state.inspection.loading
isCurrentInspection(i) == state.inspection.version = i

AnswerInspect(i) ==
  LET fields == FieldsOf[calls[i].of] IN
  /\ calls[i].op = "inspect"
  /\ IF ~isCurrentInspection(i) THEN End(i, state)
     ELSE \/ End(i, updateInteractiveTemplateVarFields(applyInspection(state, fields), fields))
          \/ End(i, updateInteractiveTemplateVarFields(
                      [state EXCEPT !.inspection = [NoInspection EXCEPT !.failed = TRUE]], {}))

changeCommand(command) == command # state.doc.command /\ SetModel([state.doc EXCEPT !.command = command])
\* Its switch gives a timeout, the field that goes with it may be emptied.
changeTimeout(timeout) ==
  /\ timeout # state.doc.timeout
  /\ state.doc.timeout = "inherited" => timeout = "30"
  /\ SetModel([state.doc EXCEPT !.timeout = timeout])

-----------------------------------------------------------------------------
(***************************************************************************)
(* The prompts, of which one is in the editor.                              *)
(***************************************************************************)
prompts == state.doc.prompts
\* The row that was selected, or the last if there are fewer.
activeIndex == IF state.selected <= Len(prompts) THEN state.selected ELSE Len(prompts)

EditPrompts(list, selected) ==
  canEdit /\ Shown(Inspecting(setModel([state EXCEPT !.selected = selected], [state.doc EXCEPT !.prompts = list])))

newPrompt == <<Blank>>
addPrompt ==
  /\ Len(prompts) < MaxPrompts
  /\ EditPrompts(Append(prompts, newPrompt), Len(prompts) + 1)
duplicatePrompt ==
  /\ prompts # <<>> /\ Len(prompts) < MaxPrompts
  /\ EditPrompts(InsertAt(prompts, activeIndex + 1, prompts[activeIndex]), activeIndex + 1)
moveUnshifted(target) ==
  /\ target \in DOMAIN prompts /\ target # activeIndex
  /\ EditPrompts(RemoveAt(InsertAt(prompts, target, prompts[activeIndex]), activeIndex), target)
movePrompt(target) ==
  /\ target \in DOMAIN prompts /\ target # activeIndex
  /\ EditPrompts(InsertAt(RemoveAt(prompts, activeIndex), target, prompts[activeIndex]), target)
removePrompt ==
  /\ prompts # <<>>
  /\ EditPrompts(RemoveAt(prompts, activeIndex),
                 IF activeIndex < Len(prompts) \/ activeIndex = 1 THEN activeIndex ELSE activeIndex - 1)
\* The row stays selected.
updatePrompt(prompt) == EditPrompts([prompts EXCEPT ![activeIndex] = prompt], state.selected)
updatePattern(pattern) ==
  /\ prompts # <<>>
  /\ LET prompt == prompts[activeIndex]
     IN \/ prompt = <<>> /\ updatePrompt(<<Blank>>)
        \/ prompt # <<>> /\ updatePrompt([prompt EXCEPT ![1] = pattern])
removePattern == prompts # <<>> /\ prompts[activeIndex] # <<>> /\ updatePrompt(RemoveAt(prompts[activeIndex], 1))

EditsPrompts ==
  \/ addPrompt \/ duplicatePrompt \/ removePrompt \/ removePattern
  \/ \E pattern \in Patterns : updatePattern(pattern)
  \/ movePrompt(activeIndex - 1) \/ movePrompt(activeIndex + 1)
selectPrompt(index) == canEdit /\ index # state.selected /\ Shown([state EXCEPT !.selected = index])
changeInteractiveEditorTab ==
  Reachable /\ state.selected # 1 /\ Shown([state EXCEPT !.selected = 1])

-----------------------------------------------------------------------------
(***************************************************************************)
(* Variables and settings.                                                  *)
(***************************************************************************)
setInteractiveVarDraftValue(f, text) ==
  Reachable /\ text # state.values[f] /\ Shown([state EXCEPT !.values[f] = text])

\* The names are written again; while a text is inspected it has no variables.
changeLanguage ==
  /\ DOMAIN state.values # state.inspection.varsSchema
  /\ Shown(updateInteractiveTemplateVarFields(state, state.inspection.varsSchema))

changeSettings(settings) ==
  canEdit /\ settings # state.settings /\ Shown([state EXCEPT !.settings = settings])

\* A variable as it is sent: its text, nothing at all, or an error.
Nothing == "nothing"
Wrong == "wrong"
collectFieldValue(f, text) ==
  CASE text # Blank -> IF f \in Numeric /\ text \notin Numerals THEN Wrong ELSE text
    [] f \in AllowsEmpty -> Blank
    [] f \in Required /\ DefaultOf[f] = Blank -> Wrong
    [] OTHER -> Nothing
buildInteractiveVarsPayload(values) ==
  LET sent == {f \in DOMAIN values : collectFieldValue(f, values[f]) # Nothing}
  IN [f \in sent |-> collectFieldValue(f, values[f])]

-----------------------------------------------------------------------------
(***************************************************************************)
(* Editing a template, saving.                                              *)
(***************************************************************************)
editInteractiveTemplate ==
  /\ Reachable /\ ~busy /\ state.selection \in Names /\ ~state.editing
  /\ Shown([state EXCEPT !.editing = TRUE, !.snapshot = state.text, !.kept = state.settings])

cancelInteractiveTemplateEdit ==
  /\ Reachable /\ ~busy /\ state.editing
  /\ Shown([applyLoadedDetail(state, state.selection, state.snapshot)
              EXCEPT !.timer = FALSE, !.editing = FALSE, !.snapshot = None,
                     !.settings = state.kept, !.kept = None])

copyInteractiveTemplate ==
  Reachable /\ ~busy /\ readonly /\ Shown([adoptSource(state, None) EXCEPT !.baseline = None])

contentForName(name) == [interactiveTemplateModelToToml(state.doc) EXCEPT !.name = name]
persistTemplate(name, creating) ==
  Ask([state EXCEPT !.loadingAction = IF creating THEN "saveAs" ELSE "save"],
      [op |-> "save", name |-> name, content |-> contentForName(name), creating |-> creating])

saveInteractiveTemplate ==
  /\ canEdit /\ usable
  /\ IF state.selection = None THEN Shown([state EXCEPT !.dialogOpen = TRUE])
     ELSE persistTemplate(state.selection, FALSE)

submitInteractiveNameDialog(name) == state.dialogOpen /\ ~busy /\ persistTemplate(name, TRUE)
closeInteractiveNameDialog == state.dialogOpen /\ ~busy /\ Shown([state EXCEPT !.dialogOpen = FALSE])

\* The list is read again before a save counts as done.
AnswerSave(i) ==
  LET call == calls[i] IN
  /\ call.op = "save"
  /\ \/ End(i, [state EXCEPT !.loadingAction = ""])
     \/ /\ call.creating = (state.stored[call.name] = None)
        /\ state' = [state EXCEPT !.stored[call.name] = call.content, !.listVersion = i]
        /\ calls' = Chain(calls, i, [op |-> "list", name |-> call.name, content |-> call.content])

\* What the service has found in the text stays true of it.
applySavedTemplate(s, name, content) ==
  LET saved == applyInspection(setTomlText(s, content), s.inspection.varsSchema)
  IN [adoptSource(markClean(saved), name) EXCEPT !.loadingAction = ""]

\* The panel is opened, again perhaps.
activate == Ask([state EXCEPT !.listVersion = NextId(calls)], [op |-> "list", name |-> None])

\* Lists that cannot be read are empty.
AnswerList(i) ==
  /\ calls[i].op = "list"
  /\ \E options \in {{}, {name \in DOMAIN state.stored : state.stored[name] # None}} :
       LET s == IF state.listVersion = i THEN [state EXCEPT !.options = options] ELSE state
       IN End(i, IF calls[i].name = None THEN s
                 ELSE applySavedTemplate(s, calls[i].name, calls[i].content))

-----------------------------------------------------------------------------
(***************************************************************************)
(* Runs.  The text is sent, never the name of its template.                 *)
(***************************************************************************)
input(s) == [text |-> s.text, vars |-> buildInteractiveVarsPayload(s.values), settings |-> s.settings]
executionOfBaseline(s) == [input(s) EXCEPT !.text = s.baseline]
executionPayload(s) == input(s)

executeInteractiveExecution ==
  LET payload == executionPayload(state)
      wrong == \E f \in DOMAIN payload.vars : payload.vars[f] = Wrong
      row == [shown |-> input(state), sent |-> payload, result |-> None]
  IN /\ Reachable /\ usable /\ ~busy /\ state.run = NoCall /\ Len(state.runs) < MaxRuns
     /\ IF wrong
        THEN Shown([state EXCEPT !.runs = Append(@, [row EXCEPT !.result = "error"])])
        ELSE Ask([state EXCEPT !.run = NextId(calls), !.runs = Append(@, row)],
                 [op |-> "execute", row |-> Len(state.runs) + 1])

AnswerExecute(i) ==
  /\ calls[i].op = "execute"
  /\ \E result \in {"success", "error"} :
       End(i, [state EXCEPT !.run = NoCall, !.runs[calls[i].row].result = result])

-----------------------------------------------------------------------------
Next ==
  \/ \E name \in Names \cup Builtins \cup {None} : selectTemplate(name)
  \/ \E text \in Typed \cup {Invalid} : SetTomlText(text)
  \/ \E command \in Commands : changeCommand(command)
  \/ \E timeout \in {"inherited", "empty", "0", "30"} : changeTimeout(timeout)
  \/ EditsPrompts
  \/ \E index \in DOMAIN prompts : selectPrompt(index)
  \/ \E f \in DOMAIN state.values, text \in Values : setInteractiveVarDraftValue(f, text)
  \/ \E settings \in Settings : changeSettings(settings)
  \/ changeInteractiveEditorTab \/ changeLanguage \/ activate \/ InspectionTimer
  \/ editInteractiveTemplate \/ cancelInteractiveTemplateEdit \/ copyInteractiveTemplate
  \/ saveInteractiveTemplate \/ closeInteractiveNameDialog
  \/ \E name \in Names : submitInteractiveNameDialog(name)
  \/ executeInteractiveExecution
  \/ \E i \in DOMAIN calls : \/ AnswerLoad(i) \/ AnswerInspect(i) \/ AnswerSave(i)
                             \/ AnswerList(i) \/ AnswerExecute(i)

Spec == Init /\ [][Next]_<<state, calls>>

-----------------------------------------------------------------------------
\* The draft, its variables, its source and its runs have their types.
TypeOK ==
  /\ state.selection \in Names \cup Builtins \cup {None}
  /\ \A flag \in {"editing", "dialogOpen", "timer"} : state[flag] \in BOOLEAN
  /\ [state.doc EXCEPT !.timeout = IF @ = "empty" THEN "0" ELSE @] \in Documents
  /\ state.text \in Documents \cup {Invalid}
  /\ state.inspection \in [version: CallIds \cup {NoCall}, loading: BOOLEAN, failed: BOOLEAN,
                           varsSchema: SUBSET UNION {FieldsOf[c] : c \in Commands}]
  /\ \A f \in DOMAIN state.values : state.values[f] \in Values
  /\ state.settings \in Settings /\ state.loadingAction \in {"", "load", "save", "saveAs"}
  /\ state.selected \in 1..MaxPrompts /\ DOMAIN calls \subseteq CallIds

\* The variables that are asked for and sent are those of the command that is run, and
\* a command is run only when the service has read the text that is shown.
FieldsAreOfText ==
  LET fields == FieldsOf[state.doc.command]
  IN usable => DOMAIN state.values = fields /\ state.inspection.varsSchema = fields

\* What is run is the text, the variables and the settings that are shown when the
\* button is pressed: the form may hold another document, the template another text.
RunsAreOfShown ==
  \A n \in DOMAIN state.runs : state.runs[n].sent = state.runs[n].shown

\* A template that is shown as unchanged is what the service keeps under its name.
UnchangedIsStored ==
  state.selection # None /\ ~isDirty(state) => state.text = state.stored[state.selection]

\* A template that is not being edited is unchanged.
ReadonlyIsUnchanged == readonly => ~isDirty(state)

\* What is shown as loading, saving or running has a call that ends it, and a text that
\* is shown as being inspected a call or a timer, unless it was left for a template
\* that could not be loaded: then nothing is under way until it is edited again.
BusyIsPending ==
  /\ state.loadingAction = "load" => \E i \in DOMAIN calls : calls[i].op = "load"
  /\ state.loadingAction \in {"save", "saveAs"} =>
       \E i \in DOMAIN calls : calls[i].op \in {"save", "list"} /\ calls[i].name # None
  /\ state.run # NoCall => Pending(calls, state.run, "execute")
  /\ state.timer => state.inspection.loading
  /\ state.inspection.version # NoCall => Pending(calls, state.inspection.version, "inspect")

\* The form and a text that can be read are one document, in which an emptied timeout is
\* zero.
ViewsAgree == validText => state.text = interactiveTemplateModelToToml(state.doc)

\* A value that was typed stays as long as its variable does.
ValuesAreKept ==
  \A f \in DOMAIN state.values \cap DOMAIN state'.values :
    \/ state'.values[f] = state.values[f]
    \/ [state EXCEPT !.values[f] = state'.values[f]] = state'

\* Without the prompt in the editor the list of prompts is the same before and after an
\* operation on it.
KeepsOtherPrompts ==
  EditsPrompts =>
    LET after == state'.doc.prompts
        row == IF state'.selected <= Len(after) THEN state'.selected ELSE Len(after)
    IN CASE Len(after) > Len(prompts) -> RemoveAt(after, row) = prompts
         [] Len(after) < Len(prompts) -> after = RemoveAt(prompts, activeIndex)
         [] OTHER -> RemoveAt(after, row) = RemoveAt(prompts, activeIndex)
=============================================================================
