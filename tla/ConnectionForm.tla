---------------------------- MODULE ConnectionForm ----------------------------
(***************************************************************************)
(* A form of a connection: the one of the temporary connection, or the      *)
(* editor of a saved one.  What is typed goes to the draft of the dialog    *)
(* that is open and to a form that outlives it; variables are rows of text. *)
(* The device can be detected, tested and saved from what is shown, while   *)
(* the form is edited, closed or filled again.                              *)
(*                                                                          *)
(* A field stands for those that are treated alike: the host for the port,  *)
(* the security, the shell and the encoding, the model for the version.     *)
(* The library, the list and the target are those of ConnectionSession, groups *)
(* and labels those of ConnectionPickers.                                   *)
(***************************************************************************)
EXTENDS Requests, FiniteSets, SequencesExt

CONSTANTS Kinds,          \* of forms: "temporary" and "editor"
          Blank, Autodetect,
          TextsOf,        \* what each field may hold
          BadTimeouts,    \* texts that are no positive number of seconds
          Numerals, Bad,  \* texts that are numbers; a number that cannot be read
          VarNames, VarTexts, MaxRows,
          Loadable,       \* connections: their fields and their variables
          Detectable      \* what the service may detect

VARIABLES state, calls

\* The inputs of a form: those of both, and those of its own.
AccessFields == {"host", "credential", "timeout"}
PlatformFields == {"profile"}
Fields == AccessFields \cup PlatformFields \cup {"name", "model", "enabled"}
VarTypes == {"string", "number", "boolean", "null"}
NoFacts == [profile |-> Blank, model |-> Blank]

ConnectionFormAssumption ==
  /\ CallIdsAssumption /\ Kinds \subseteq {"temporary", "editor"} /\ MaxRows \in Nat
  /\ DOMAIN TextsOf = Fields
  /\ \A field \in Fields \ {"enabled", "profile"} : Blank \in TextsOf[field]
  /\ {Blank, Autodetect} \subseteq TextsOf["profile"] /\ TextsOf["enabled"] = {"on", "off"}
  /\ Blank \notin Numerals /\ BadTimeouts \subseteq TextsOf["timeout"] \ {Blank}
  /\ \A connection \in Loadable : \A field \in Fields : connection.form[field] \in TextsOf[field]
  /\ \A facts \in Detectable : \A field \in DOMAIN NoFacts : facts[field] \in TextsOf[field]

-----------------------------------------------------------------------------
(***************************************************************************)
(* Variables.  A value is its type and its text; a value that has parts is   *)
(* a document, which a row holds as a string.                               *)
(***************************************************************************)
Row(name, type, text) == [name |-> name, type |-> type, value |-> text]

inferAlways(value) == IF value[1] = "number" THEN "number" ELSE "string"
inferConnectionVarType(value) == IF value[1] \in VarTypes THEN value[1] ELSE "string"
normalizeConnectionVarRows(given) ==
  [n \in 1..Len(given) |-> Row(given[n][1], inferConnectionVarType(given[n][2]), given[n][2][2])]

parseConnectionVarValue(type, text) ==
  CASE type = "number" -> IF text = Blank THEN <<"null", Blank>>
                          ELSE IF text \in Numerals THEN <<"number", text>> ELSE Bad
    [] type = "boolean" -> <<"boolean", IF text = "true" THEN "true" ELSE "false">>
    [] type = "null" -> <<"null", Blank>>
    [] OTHER -> <<"string", text>>

\* The last row of a name counts; a row without a name does not.
named(rows) == {rows[n].name : n \in 1..Len(rows)} \ {Blank}
connectionVarRowsToConnectionVars(rows) ==
  [name \in named(rows) |->
     LET n == CHOOSE n \in 1..Len(rows) :
                /\ rows[n].name = name
                /\ \A later \in n + 1..Len(rows) : rows[later].name # name
     IN parseConnectionVarValue(rows[n].type, rows[n].value)]
\* Every row has to be read, one that is overridden too.
readable(rows) ==
  \A n \in 1..Len(rows) :
    rows[n].name # Blank => parseConnectionVarValue(rows[n].type, rows[n].value) # Bad

applyConnectionVarsRowPatch(row, field, text) ==
  LET patched == [row EXCEPT ![field] = text] IN
  CASE field = "type" /\ text = "boolean" /\ row.value # "true" -> [patched EXCEPT !.value = "false"]
    [] field = "type" /\ text = "null" -> [patched EXCEPT !.value = Blank]
    [] OTHER -> patched

\* What a row can be given: a boolean is chosen, null has no value.
RowTexts(row, field) ==
  CASE field = "name" -> VarNames
    [] field = "type" -> VarTypes
    [] field = "value" -> CASE row.type = "null" -> {}
                            [] row.type = "boolean" -> {"true", "false"}
                            [] OTHER -> VarTexts

-----------------------------------------------------------------------------
\* The form of a kind as its draft shows it.
draftOf(kind, form) ==
  IF kind = "temporary" /\ form["profile"] = Blank THEN [form EXCEPT !["profile"] = Autodetect]
  ELSE form

NewForm == [field \in Fields |-> CASE field = "enabled" -> "on" [] OTHER -> Blank]

\* loaded: the variables that the rows were made of, while they are as they were.
Init ==
  /\ \E kind \in Kinds :
       state = [kind |-> kind, open |-> FALSE, form |-> draftOf(kind, NewForm),
                draft |-> draftOf(kind, NewForm), rows |-> <<>>, loaded |-> <<>>,
                touched |-> FALSE, facts |-> NoFacts, status |-> "none"]
  /\ calls = NoCalls

Shown(s) == state' = s /\ UNCHANGED calls

\* A form that changes is shown by the dialog that is open.
setFormState(s, form) ==
  [s EXCEPT !.form = form, !.draft = IF s.open THEN draftOf(s.kind, form) ELSE @]
setConnectionVarsValue(s, given) ==
  [s EXCEPT !.rows = normalizeConnectionVarRows(given), !.loaded = given, !.touched = FALSE]

\* The dialog that opens has a draft, and calls, of its own.
Disowned == [i \in DOMAIN calls |-> [calls[i] EXCEPT !.mine = FALSE]]
Mine(i) == calls[i].mine /\ state.open
Running(op) == \E i \in DOMAIN calls : calls[i].op = op /\ Mine(i)
Temporary == state.kind = "temporary"

openPanel ==
  /\ Temporary /\ ~state.open /\ UNCHANGED calls
  /\ state' = [state EXCEPT !.open = TRUE, !.draft = draftOf("temporary", state.form),
                            !.facts = NoFacts, !.status = "none"]

closePanel == Temporary /\ state.open /\ calls' = Disowned /\ state' = [state EXCEPT !.open = FALSE]

\* The connection that is used, created or restored fills the temporary form, but for
\* the timeout, which stays what it was.
applyConnectionForm(s, connection) ==
  setConnectionVarsValue(
    setFormState(s, [connection.form EXCEPT !["timeout"] = s.form["timeout"], !["name"] = Blank]),
    connection.given)
useConnection(connection) == Temporary /\ Shown(applyConnectionForm(state, connection))

\* The editor is filled when the details of its connection are there, open or not.
editorKept(s, connection) == [s EXCEPT !.open = TRUE, !.status = "none"]
editorReset(s, connection) == [s EXCEPT !.open = TRUE, !.facts = NoFacts, !.status = "none"]
openSavedConnectionEditor(connection) ==
  /\ ~Temporary
  /\ Shown(setConnectionVarsValue(setFormState(editorReset(state, connection), connection.form),
                                  connection.given))
hideSavedConnectionEditorModal ==
  /\ ~Temporary /\ state.open /\ calls' = Disowned
  /\ state' = [state EXCEPT !.open = FALSE, !.facts = NoFacts]

-----------------------------------------------------------------------------
(***************************************************************************)
(* Edits.                                                                   *)
(***************************************************************************)
formStateWithoutModel(s, draft) == [draft EXCEPT !["model"] = s.form["model"]]
formStateFromDraft(s, draft) == draft

\* What was detected is not shown any more, unless the profile is chosen, or the
\* connection enabled.
keepsFactsOfModel(field) == field \in {"profile", "enabled", "model"}
keepsFacts(field) == field \in {"profile", "enabled"}

changesDraft(draft, field, text) == [draft EXCEPT ![field] = text]
applyDraftChange(field, text) ==
  LET kept == IF Temporary /\ field = "profile" /\ text = Blank THEN Autodetect ELSE text
      draft == changesDraft(state.draft, field, kept)
  IN /\ state.open /\ text # state.draft[field] /\ (Temporary => field # "name")
     /\ Shown([state EXCEPT !.draft = draft, !.form = formStateFromDraft(state, draft),
                            !.facts = IF keepsFacts(field) THEN @ ELSE NoFacts])

setConnectionVarRows(rows) == Shown([state EXCEPT !.rows = rows, !.touched = TRUE])
addConnectionVarsRow ==
  /\ state.open /\ Len(state.rows) < MaxRows
  /\ setConnectionVarRows(Append(state.rows, Row(Blank, "string", Blank)))
removeConnectionVarsRow(n) == state.open /\ setConnectionVarRows(RemoveAt(state.rows, n))

patchByName(rows, n, field, text) ==
  [m \in 1..Len(rows) |-> IF rows[m].name = rows[n].name
                          THEN applyConnectionVarsRowPatch(rows[m], field, text) ELSE rows[m]]
patchRow(rows, n, field, text) ==
  [rows EXCEPT ![n] = applyConnectionVarsRowPatch(rows[n], field, text)]
changeRow(n, field, text) ==
  /\ state.open /\ text # state.rows[n][field]
  /\ setConnectionVarRows(patchRow(state.rows, n, field, text))

-----------------------------------------------------------------------------
(***************************************************************************)
(* Detection, test and save.                                                *)
(***************************************************************************)
sendableUnread(form, rows) == form["credential"] # Blank /\ form["timeout"] \notin BadTimeouts
\* There is none without a credential, or with a timeout or a number that cannot be read.
sendable(form, rows) ==
  form["credential"] # Blank /\ form["timeout"] \notin BadTimeouts /\ readable(rows)

\* A device is detected whatever its profile says; only what is saved has a name.
payload(op, form, rows) ==
  [form |-> CASE op = "detect" -> [form EXCEPT !["name"] = Blank, !["profile"] = Autodetect]
              [] op = "test" -> [form EXCEPT !["name"] = Blank]
              [] OTHER -> form,
   vars |-> connectionVarRowsToConnectionVars(rows)]

\* One call of a kind is made from a dialog.  What cannot be sent is an error at once.
failedLater(s) == s
failed(s) == [s EXCEPT !.status = "error"]
Asks(op, form, s) ==
  /\ state.open /\ ~Running(op)
  /\ IF sendable(form, state.rows)
     THEN /\ CanPost(calls)
          /\ calls' = Post(calls, [op |-> op, mine |-> TRUE, sent |-> payload(op, form, state.rows)])
          /\ state' = s
     ELSE UNCHANGED calls /\ state' = failed(s)

starts(s) == [s EXCEPT !.status = "running"]

\* The panel shows no status of a detection, and clears what an earlier one has found.
detectTemporaryConnectionFacts ==
  LET cleared == [state EXCEPT !.facts = NoFacts] IN
  /\ Temporary /\ state.open /\ ~Running("detect")
  /\ IF sendable(state.form, state.rows)
     THEN /\ CanPost(calls) /\ state' = cleared
          /\ calls' = Post(calls, [op |-> "detect", mine |-> TRUE,
                                   sent |-> payload("detect", state.form, state.rows)])
     ELSE UNCHANGED calls /\ state' = cleared

detectSavedConnectionProfile ==
  /\ ~Temporary
  /\ IF state.draft["name"] = Blank
     THEN state.open /\ ~Running("detect") /\ Shown(failed(state))
     ELSE Asks("detect", state.draft,
               IF sendable(state.draft, state.rows) THEN starts(state)
               ELSE [state EXCEPT !.facts = NoFacts])

testConnection == Asks("test", IF Temporary THEN state.form ELSE state.draft, starts(state))

\* The temporary form is saved under a name that is asked for.
createSavedConnectionDraft ==
  /\ Temporary /\ state.open /\ ~Running("save") /\ UNCHANGED state
  /\ sendable(state.form, state.rows) /\ CanPost(calls)
  /\ calls' = Post(calls, [op |-> "save", mine |-> TRUE,
                           sent |-> payload("save", state.form, state.rows)])

saveSavedConnectionEditor ==
  /\ ~Temporary
  /\ IF state.form["name"] = Blank THEN state.open /\ ~Running("save") /\ Shown(failed(state))
     ELSE Asks("save", state.form, starts(state))

\* What was detected goes to the form as it is now; blanks leave it alone.
detectedConnectionFactsPatch(form, facts) ==
  [field \in Fields |-> IF field \in DOMAIN facts /\ facts[field] # Blank THEN facts[field]
                        ELSE form[field]]
detected(s, facts) ==
  [setFormState(s, detectedConnectionFactsPatch(s.form, facts)) EXCEPT
     !.facts = facts, !.status = IF s.kind = "temporary" THEN @ ELSE "success"]
nothingDetected(s) ==
  [s EXCEPT !.facts = NoFacts, !.status = IF s.kind = "temporary" THEN @ ELSE "error"]
\* A panel that is closed shows nothing of it.
AnswerDetect(i) ==
  LET tells(s) == IF ~Temporary \/ Mine(i) THEN s ELSE [s EXCEPT !.facts = state.facts] IN
  /\ calls[i].op = "detect" /\ calls' = Settle(calls, i)
  /\ \/ \E facts \in Detectable : facts.profile # Blank /\ state' = tells(detected(state, facts))
     \/ state' = tells(nothingDetected(state))

AnswerTest(i) ==
  /\ calls[i].op = "test" /\ calls' = Settle(calls, i)
  /\ \E outcome \in {"success", "error"} :
       state' = IF Temporary /\ ~Mine(i) THEN state ELSE [state EXCEPT !.status = outcome]

\* A connection that is created fills the temporary form; the editor is closed.
AnswerSave(i) ==
  LET sent == calls[i].sent
      given == SetToSeq({<<name, sent.vars[name]>> : name \in DOMAIN sent.vars})
  IN /\ calls[i].op = "save"
     /\ \/ /\ state' = IF Temporary
                       THEN applyConnectionForm(state, [form |-> sent.form, given |-> given])
                       ELSE [state EXCEPT !.status = "success", !.open = FALSE]
           /\ calls' = IF Temporary THEN Settle(calls, i) ELSE Settle(Disowned, i)
        \/ /\ state' = IF Temporary THEN state ELSE [state EXCEPT !.status = "error"]
           /\ calls' = Settle(calls, i)

-----------------------------------------------------------------------------
FieldEdits == \E field \in Fields : \E text \in TextsOf[field] : applyDraftChange(field, text)
RowEdits ==
  \/ \E n \in 1..Len(state.rows), field \in {"name", "type", "value"} :
       \E text \in RowTexts(state.rows[n], field) : changeRow(n, field, text)
  \/ addConnectionVarsRow
  \/ \E n \in 1..Len(state.rows) : removeConnectionVarsRow(n)
Edits == FieldEdits \/ RowEdits

Next ==
  \/ openPanel \/ closePanel \/ hideSavedConnectionEditorModal
  \/ \E connection \in Loadable : useConnection(connection) \/ openSavedConnectionEditor(connection)
  \/ Edits
  \/ detectTemporaryConnectionFacts \/ detectSavedConnectionProfile \/ testConnection
  \/ createSavedConnectionDraft \/ saveSavedConnectionEditor
  \/ \E i \in DOMAIN calls : AnswerDetect(i) \/ AnswerTest(i) \/ AnswerSave(i)

Spec == Init /\ [][Next]_<<state, calls>>

-----------------------------------------------------------------------------
\* The fields and the rows hold what can be typed, loaded or detected.
TypeOK ==
  /\ \A field \in Fields : {state.form[field], state.draft[field]} \subseteq TextsOf[field]
  /\ \A n \in 1..Len(state.rows) : state.rows[n].type \in VarTypes
  /\ \A field \in DOMAIN NoFacts : state.facts[field] \in TextsOf[field]
  /\ state.status \in {"none", "running", "success", "error"}
  /\ {state.open, state.touched} \subseteq BOOLEAN /\ DOMAIN calls \subseteq CallIds

\* The dialog that is open shows the form that is saved, and the variables that were
\* loaded are those that would be saved while nobody has edited them, documents as text.
ShowsWhatItSaves ==
  /\ state.open => state.draft = draftOf(state.kind, state.form)
  /\ ~state.touched =>
       LET saved == connectionVarRowsToConnectionVars(state.rows)
       IN \A n \in 1..Len(state.loaded) :
            LET value == state.loaded[n][2]
            IN saved[state.loaded[n][1]] =
                 IF value[1] \in VarTypes THEN value ELSE <<"string", value[2]>>

\* What the editor shows as detected is what its form says, a profile chosen since then
\* apart; a late answer of an earlier connection included, which goes to both.
FactsAreOfForm ==
  state.kind = "editor" /\ state.facts.model # Blank => state.form["model"] = state.facts.model

\* A form that says it is running has a call in flight that will say otherwise: from
\* this dialog or, as the editor shares its status, from one before it.
RunningIsPending ==
  (state.open /\ state.status = "running") =>
    \E i \in DOMAIN calls : calls[i].op \in {"detect", "test", "save"}

\* An edit changes one field or one row, and no answer changes what is typed but for what
\* the device was detected to be and a connection that was created; what is sent has every
\* variable that is named.
EditsChangeOne ==
  LET shown(s) == draftOf(s.kind, s.form)
      fields == {field \in Fields : shown(state')[field] # shown(state)[field]}
      rows == {n \in 1..Len(state.rows) : state'.rows[n] # state.rows[n]}
      answered == DOMAIN calls \ DOMAIN calls'
      posted == DOMAIN calls' \ DOMAIN calls
  IN /\ Edits => /\ Cardinality(fields) <= 1 /\ (fields = {} \/ state'.rows = state.rows)
                 /\ Len(state'.rows) = Len(state.rows) => Cardinality(rows) <= 1
     /\ (\E i \in answered : calls[i].op # "save" \/ state.kind = "editor") =>
          fields \subseteq DOMAIN NoFacts /\ state'.rows = state.rows
     /\ \A i \in posted : /\ DOMAIN calls'[i].sent.vars = named(state.rows)
                          /\ \A name \in named(state.rows) : calls'[i].sent.vars[name] # Bad
=============================================================================
