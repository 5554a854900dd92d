----------------------------- MODULE ExecutionPage -----------------------------
(***************************************************************************)
(* The page that runs workflows and orchestrations: the host that keeps the *)
(* text of either stage, the panel that edits the text of the stage that is *)
(* shown, the variables, the preview of the commands and the runs.          *)
(*                                                                          *)
(* The text of a panel is written by its form and its editor, and by the    *)
(* answers of its templates, which may come while a dialog is open.  The    *)
(* form and the templates have modules of their own: here a text is one of  *)
(* a few.  The component of a stage is there when the stage is chosen.      *)
(***************************************************************************)
EXTENDS Requests, Sequences, SequencesExt

CONSTANTS Contents, Draft,      \* texts that are documents; the one of a new document
          Empty, Invalid,       \* no text, and one that is no document
          Targets,              \* connections that can be the target
          Keys, Blank,          \* names of variables; the name that is blank
          Numerals, Truths, Falsehoods,   \* texts that read as numbers and truth values
          Documents,            \* texts that read as JSON: function to values
          ValueTexts,           \* texts that can be typed as values
          Objects,              \* objects that can be typed, as sequences of pairs
          MaxVars,              \* bound: variables in the form
          MaxRuns,              \* bound: runs of a behaviour
          None                  \* no target, no result

VARIABLES state, calls

Stages == {"workflow", "orchestrate"}
Texts == Contents \cup {Empty, Invalid}
ValueTypes == {"string", "number", "boolean", "null", "json"}

ExecutionPageAssumption ==
  /\ Draft \in Contents /\ {Empty, Invalid} \cap Contents = {} /\ Empty # Invalid
  /\ None \notin Targets /\ Blank \in Keys
  /\ \A text \in DOMAIN Documents : Documents[text][1] \in ValueTypes
  /\ "0" \in Numerals /\ "true" \in Truths /\ "false" \in Falsehoods /\ "{}" \in DOMAIN Documents
  /\ Truths \cap Falsehoods = {}

-----------------------------------------------------------------------------
(***************************************************************************)
(* Variables.  A text is an object, written as the sequence of its pairs,   *)
(* or none; a value is its kind with the text it is written as.             *)
(***************************************************************************)
TextOf(kind, pairs) == [kind |-> kind, pairs |-> pairs]
NoText == TextOf("empty", <<>>)
RawTexts ==
  {NoText, TextOf("array", <<>>), TextOf("invalid", <<>>)} \cup {TextOf("object", p) : p \in Objects}

\* Of the pairs of one name the last counts, at its place.
lastOfEachName(pairs) ==
  LET last(i) == \A j \in DOMAIN pairs : pairs[j][1] = pairs[i][1] => j <= i
      kept == {i \in DOMAIN pairs : last(i)}
  IN FoldLeft(LAMBDA acc, i : IF i \in kept THEN Append(acc, pairs[i]) ELSE acc,
              <<>>, [i \in DOMAIN pairs |-> i])

\* What the execution and the panel make of a text.
readsAsObject(raw) == raw.kind \in {"empty", "object"}
objectOf(raw) == lastOfEachName(raw.pairs)

Entry(key, type, text) == [key |-> key, type |-> type, text |-> text]

txVarsAssistantParseValue(e) ==
  LET read(kind, text) == <<kind, text>>
  IN CASE e.type = "null" -> read("null", "")
       [] e.type = "number" /\ e.text = "" -> read("number", "0")
       [] e.type = "number" /\ e.text \in Numerals -> read("number", e.text)
       [] e.type = "boolean" /\ e.text \in Truths -> read("boolean", "true")
       [] e.type = "boolean" /\ e.text \in Falsehoods -> read("boolean", "false")
       [] e.type = "json" /\ e.text = "" -> read("json", "{}")
       [] e.type = "json" /\ e.text \in DOMAIN Documents -> Documents[e.text]
       [] OTHER -> read("string", e.text)

\* The type of a value is its kind, and its text the one it is written as.
txVarsAssistantEntriesFromValue(object) ==
  [i \in DOMAIN object |-> Entry(object[i][1], object[i][2][1], object[i][2][2])]

\* The entries that have a name, as an object.
txVarsAssistantEntriesToJsonText(entries) ==
  LET named == SelectSeq(entries, LAMBDA e : e.key # Blank)
  IN TextOf("object", lastOfEachName([i \in DOMAIN named |->
                        <<named[i].key, txVarsAssistantParseValue(named[i])>>]))

setRawTextAlone(v, raw) == [v EXCEPT !.raw = raw]
\* An object that is typed becomes the entries, anything else leaves them.
setTxVarsRawText(v, raw) ==
  [v EXCEPT !.raw = raw,
            !.entries = IF readsAsObject(raw) THEN txVarsAssistantEntriesFromValue(objectOf(raw)) ELSE @]

applyTxVarsAssistantEntriesFromText(v) == setTxVarsRawText(v, v.raw)

setEntriesAlone(v, entries) == [v EXCEPT !.entries = entries]
\* The entries are written into the text after each of their changes.
setTxVarsAssistantEntries(v, entries) ==
  [v EXCEPT !.entries = entries, !.raw = txVarsAssistantEntriesToJsonText(entries)]

-----------------------------------------------------------------------------
(***************************************************************************)
(* The panel of the stage that is shown.                                    *)
(***************************************************************************)
ClosedPreview == [open |-> FALSE, version |-> NoCall, loading |-> FALSE, stale |-> FALSE, outcome |-> None]

\* What is shown to be run: the preview is one of it, and so is a run.
input(s) == [stage |-> s.stage, text |-> s.text, vars |-> s.vars[s.stage].raw, target |-> s.target]

\* A panel takes its text from the host; one of plans shows a new plan for none.
refreshFromFormModel(stage, raw) ==
  IF stage = "orchestrate" /\ raw = Empty THEN Draft ELSE raw

\* The form of the variables is shown unless their text is no object.
varsView(v) == IF readsAsObject(v.raw) THEN "form" ELSE "json"

Panel(s, stage) ==
  [s EXCEPT !.stage = stage, !.text = refreshFromFormModel(stage, s.host[stage]),
            !.view = varsView(s.vars[stage]), !.run = NoCall, !.preview = ClosedPreview]

Defaults == [stage \in Stages |-> Draft]
Page(s, stage) ==
  Panel([s EXCEPT !.host = Defaults,
                  !.vars = [key \in Stages |-> applyTxVarsAssistantEntriesFromText(s.vars[key])]], stage)

\* runs: those the history has been given; the panel that began one waits for its call.
Init ==
  /\ \E target \in Targets \cup {None} :
       state = Page([stage |-> "workflow", host |-> Defaults, text |-> Draft, target |-> target,
                     vars |-> [key \in Stages |-> [raw |-> NoText, entries |-> <<>>]],
                     view |-> "form", run |-> NoCall, preview |-> ClosedPreview, runs |-> <<>>],
                    "workflow")
  /\ calls = NoCalls

\* A change of what is shown ends the preview of what was.
cancelled(s) == [ClosedPreview EXCEPT !.open = s.preview.open, !.stale = s.preview.open]
updateInputUnlessLoading(s) ==
  IF input(s) = input(state) \/ s.preview.loading THEN s ELSE [s EXCEPT !.preview = cancelled(s)]
updateInputLoading(s) ==
  IF input(s) = input(state) THEN s
  ELSE [s EXCEPT !.preview = [cancelled(s) EXCEPT !.loading = s.preview.loading]]
updateInput(s) ==
  IF input(s) = input(state) THEN s ELSE [s EXCEPT !.preview = cancelled(s)]

Changed(s) == state' = updateInput(s) /\ UNCHANGED calls
\* The preview is a modal dialog, but for what is not done with the mouse.
Reachable == ~state.preview.open

changeStage(stage) == stage # state.stage /\ Changed(Panel(state, stage))
\* The page is left and opened again; its texts are gone.
openPage(stage) == Changed(Page(state, stage))
chooseTarget(target) == target # state.target /\ Changed([state EXCEPT !.target = target])

\* The text of the panel and that of the host.
WithTexts(content) == [state EXCEPT !.text = content, !.host[state.stage] = content]
WithTextAlone(content) == [state EXCEPT !.text = content]

saveEditorFormModel(content) == WithTexts(content)
changeFormModel(content) ==
  Reachable /\ content # state.text /\ Changed(saveEditorFormModel(content))
\* Typed, imported, or the answer of a template.
handleEditorJsonInput(text) == text # state.text /\ Changed(WithTexts(text))

-----------------------------------------------------------------------------
(***************************************************************************)
(* The panel of the variables.                                              *)
(***************************************************************************)
Vars == state.vars[state.stage]

WithVars(v) == [state EXCEPT !.vars[state.stage] = v]

ChangeVars(v) == Reachable /\ Changed(WithVars(v))

\* A form that is opened reads a text that it has not written: its entries are that already.
FormIsOfferedAlways == TRUE
FormIsOffered == readsAsObject(Vars.raw)
selectVarsView(view) ==
  /\ Reachable /\ view # state.view /\ (view = "form" => FormIsOffered)
  /\ Changed([state EXCEPT !.view = view])

changeVarsText(raw) ==
  /\ state.view = "json"
  /\ ChangeVars(setTxVarsRawText(Vars, raw))

\* What reads as JSON is written again with other blanks; no text is no object any more.
formatJson ==
  /\ state.view = "json" /\ Vars.raw.kind # "invalid"
  /\ ChangeVars(setTxVarsRawText(Vars, IF Vars.raw.kind = "empty" THEN TextOf("object", <<>>) ELSE Vars.raw))

EditEntries(entries) ==
  /\ state.view = "form"
  /\ ChangeVars(setTxVarsAssistantEntries(Vars, entries))

addEntry ==
  /\ Len(Vars.entries) < MaxVars
  /\ EditEntries(Append(Vars.entries, Entry(Blank, "string", "")))
clearEntries == Vars.entries # <<>> /\ EditEntries(<<>>)
removeEntry(i) == EditEntries(RemoveAt(Vars.entries, i))
updateEntryKey(i, key) == EditEntries([Vars.entries EXCEPT ![i].key = key])
updateEntryType(i, type) == EditEntries([Vars.entries EXCEPT ![i].type = type])

\* A truth value has a switch, JSON a dialog that takes nothing else, null no control.
AcceptsText(e, text) ==
  CASE e.type = "null" -> FALSE
    [] e.type = "json" -> text \in DOMAIN Documents
    [] e.type = "boolean" /\ txVarsAssistantParseValue(e)[1] = "boolean" -> text \in {"true", "false"}
    [] OTHER -> TRUE
updateEntryValue(i, text) ==
  AcceptsText(Vars.entries[i], text) /\ EditEntries([Vars.entries EXCEPT ![i].text = text])

-----------------------------------------------------------------------------
(***************************************************************************)
(* Runs.                                                                    *)
(***************************************************************************)
\* What is sent is the text of the host, not that of the panel.
executionPayload(s) == [input(s) EXCEPT !.text = s.host[s.stage]]

\* A request is made of a document, an object (an array is taken for an empty one) and,
\* whatever the plan names, a target.
Sendable(payload) ==
  payload.text \in Contents /\ payload.vars.kind # "invalid" /\ payload.target # None

\* A workflow asks for a target first; everything else that is missing fails the run.
Executes ==
  /\ Reachable /\ state.run = NoCall /\ Len(state.runs) < MaxRuns
  /\ state.stage = "workflow" => state.target # None

Row(sent, result) == [shown |-> input(state), sent |-> sent, result |-> result]

execute ==
  LET payload == executionPayload(state) IN
  /\ Executes
  /\ IF Sendable(payload)
     THEN /\ CanPost(calls)
          /\ state' = [state EXCEPT !.run = NextId(calls), !.runs = Append(@, Row(payload, None))]
          /\ calls' = Post(calls, [op |-> "execute", row |-> Len(state.runs) + 1, sent |-> payload])
     ELSE /\ state' = [state EXCEPT !.runs = Append(@, Row(None, [of |-> None, ok |-> FALSE]))]
          /\ UNCHANGED calls

\* A run completes its own entry, whatever is shown by then.
finishNewest(s, row, result) == [s EXCEPT !.runs[Len(s.runs)].result = result]
finishDetail(s, row, result) == [s EXCEPT !.runs[row].result = result]

AnswerExecute(i) ==
  /\ calls[i].op = "execute"
  /\ \E ok \in BOOLEAN :
       state' = finishDetail([state EXCEPT !.run = IF @ = i THEN NoCall ELSE @], calls[i].row,
                             [of |-> calls[i].sent, ok |-> ok])
  /\ calls' = Settle(calls, i)

-----------------------------------------------------------------------------
(***************************************************************************)
(* The preview of the commands.  Whoever asks again aborts the request that *)
(* is under way, whose end then means nothing.                              *)
(***************************************************************************)
previewRenders(in) ==
  in.text \in Contents /\ readsAsObject(in.vars) /\ (in.stage = "workflow" => in.target # None)

refreshFrom(s) ==
  LET in == input(s) IN
  IF previewRenders(in)
  THEN /\ CanPost(calls)
       /\ state' = [s EXCEPT !.preview = [ClosedPreview EXCEPT !.open = TRUE, !.loading = TRUE,
                                                              !.version = NextId(calls)]]
       /\ calls' = Post(calls, [op |-> "preview", of |-> in])
  ELSE /\ state' = [s EXCEPT !.preview = [ClosedPreview EXCEPT !.open = TRUE,
                                                              !.outcome = [of |-> in, ok |-> FALSE]]]
       /\ UNCHANGED calls

show == Reachable /\ state.run = NoCall /\ refreshFrom(state)
refresh == state.preview.open /\ ~state.preview.loading /\ refreshFrom(state)
close == state.preview.open /\ state' = [state EXCEPT !.preview = ClosedPreview] /\ UNCHANGED calls

isOpen(i) == state.preview.open
isCurrent(i) == state.preview.version = i

AnswerPreview(i) ==
  /\ calls[i].op = "preview"
  /\ \E ok \in BOOLEAN :
       state' = IF isCurrent(i)
                THEN [state EXCEPT !.preview = [ClosedPreview EXCEPT !.open = TRUE,
                                                  !.outcome = [of |-> calls[i].of, ok |-> ok]]]
                ELSE state
  /\ calls' = Settle(calls, i)

-----------------------------------------------------------------------------
Next ==
  \/ \E stage \in Stages : changeStage(stage) \/ openPage(stage)
  \/ \E target \in Targets \cup {None} : chooseTarget(target)
  \/ \E content \in Contents : changeFormModel(content)
  \/ \E text \in Texts : handleEditorJsonInput(text)
  \/ \E view \in {"form", "json"} : selectVarsView(view)
  \/ \E raw \in RawTexts : changeVarsText(raw)
  \/ formatJson \/ addEntry \/ clearEntries
  \/ \E i \in DOMAIN Vars.entries :
       \/ removeEntry(i)
       \/ \E key \in Keys : updateEntryKey(i, key)
       \/ \E type \in ValueTypes : updateEntryType(i, type)
       \/ \E text \in ValueTexts : updateEntryValue(i, text)
  \/ execute \/ show \/ refresh \/ close
  \/ \E i \in DOMAIN calls : AnswerExecute(i) \/ AnswerPreview(i)

Spec == Init /\ [][Next]_<<state, calls>>

-----------------------------------------------------------------------------
RawText == [kind: {"empty", "object", "array", "invalid"}, pairs: Seq(Keys \X (ValueTypes \X STRING))]
Input == [stage: Stages, text: Texts, vars: RawText, target: Targets \cup {None}]

\* The texts of the page, its variables, its preview and its runs have their types.
TypeOK ==
  /\ state.stage \in Stages /\ state.host \in [Stages -> Texts] /\ state.text \in Texts
  /\ state.target \in Targets \cup {None} /\ state.view \in {"form", "json"}
  /\ \A key \in Stages :
       /\ state.vars[key].raw \in RawText
       /\ state.vars[key].entries \in Seq([key: Keys, type: ValueTypes, text: STRING])
  /\ \A flag \in {"open", "loading", "stale"} : state.preview[flag] \in BOOLEAN
  /\ \A n \in DOMAIN state.runs : state.runs[n].shown \in Input
  /\ DOMAIN calls \subseteq CallIds

\* What is run is what is shown when the button is pressed, and the entry of a run in
\* the history gets the result of that run, however many are under way and whichever
\* page is open when they end.
RunsAreOfShown ==
  \A n \in DOMAIN state.runs :
    LET row == state.runs[n] IN
    /\ row.sent # None => row.sent = row.shown
    /\ row.result # None => row.result.of = row.sent

\* Commands that are previewed, and the error that stands for them, are those of the
\* text, the variables and the target that are shown now.
PreviewIsOfInput ==
  state.preview.outcome # None => state.preview.open /\ state.preview.outcome.of = input(state)

\* A button is busy, and an entry of the history running, only while the call is under
\* way that will end it.
BusyIsPending ==
  /\ state.run # NoCall => Pending(calls, state.run, "execute")
  /\ state.preview.loading => /\ Pending(calls, state.preview.version, "preview")
                              /\ calls[state.preview.version].of = input(state)
  /\ \A n \in DOMAIN state.runs :
       state.runs[n].result = None
         => \E i \in DOMAIN calls : calls[i].op = "execute" /\ calls[i].row = n

\* The form of the variables and their text are one object; the form is never shown
\* next to a text it could not be read from.
VarsAgree ==
  /\ state.view = "form" => readsAsObject(Vars.raw)
  /\ \A key \in Stages :
       readsAsObject(state.vars[key].raw)
         => txVarsAssistantEntriesToJsonText(state.vars[key].entries).pairs = objectOf(state.vars[key].raw)
=============================================================================
