----------------------------- MODULE CommandPage -----------------------------
(***************************************************************************)
(* The page that sends commands to a device or to a batch: the source, a    *)
(* template or a manual text, its variables, a preview of what would be     *)
(* sent and the run.  Loads, inspections and previews have a version each;  *)
(* typed text is inspected and a change of variables or of the target is    *)
(* previewed after a pause, when a timer fires.                             *)
(***************************************************************************)
EXTENDS Requests

CONSTANTS Names,        \* templates of the service
          Contents,     \* texts; None is the empty one
          Connections,
          Vars, NoVars, \* values of variables, and those of a text without any
          None

VARIABLES state, calls

CommandPageAssumption == NoVars \in Vars /\ None \notin Names \cup Contents

Texts == Contents \cup {None}
Payloads == Contents \X Vars \X Connections
Previews == [kind: {"empty", "running", "error"}] \cup [kind: {"result"}, of: Payloads]
NoPreview == [kind |-> "empty"]

StandardCommandWorkspaceState ==
  [sourceSelection: Names \cup {None}, content: Texts, baselineContent: Texts,
   dirty: BOOLEAN, editing: BOOLEAN, snapshot: Texts, dialogOpen: BOOLEAN, vars: Vars,
   connection: Connections, preview: Previews,
   loadingActions: SUBSET {"template", "save", "preview", "execute"},
   loadVersion: CallIds \cup {NoCall}, inspectionVersion: CallIds \cup {NoCall},
   previewVersion: CallIds \cup {NoCall}, inspectionTimer: BOOLEAN, previewTimer: BOOLEAN,
   stored: [Names -> Texts]]

\* "for" is the function that awaits an inspection or a preview.
Fors == {"select", "type", "cancel", "save", "button"}
Call == [op: {"template"}, name: Names] \cup [op: {"inspect"}, for: Fors]
          \cup [op: {"render"}, for: Fors, of: Payloads]
          \cup [op: {"save"}, name: Names, content: Contents, creating: BOOLEAN]
          \cup [op: {"execute"}, of: Payloads]

Init ==
  /\ calls = NoCalls
  /\ \E stored \in [Names -> Texts], connection \in Connections, vars \in Vars :
       state = [sourceSelection |-> None, content |-> None, baselineContent |-> None,
                dirty |-> FALSE, editing |-> FALSE, snapshot |-> None, dialogOpen |-> FALSE,
                vars |-> vars, connection |-> connection, preview |-> NoPreview,
                loadingActions |-> {}, loadVersion |-> NoCall, inspectionVersion |-> NoCall,
                previewVersion |-> NoCall, inspectionTimer |-> FALSE, previewTimer |-> FALSE,
                stored |-> stored]

Show(s) == state' = s /\ UNCHANGED calls
End(i, s) == state' = s /\ calls' = Settle(calls, i)
loading(action) == action \in state.loadingActions
Without(s, action) == [s EXCEPT !.loadingActions = @ \ {action}]

readonly == state.sourceSelection # None /\ ~state.editing
canEdit == ~loading("save") /\ ~readonly

adoptSource(s, name) ==
  [s EXCEPT !.sourceSelection = name, !.editing = FALSE, !.snapshot = None,
            !.dialogOpen = FALSE]

PreviewKept(s) == [Without(s, "preview") EXCEPT !.preview = NoPreview, !.previewTimer = FALSE]
invalidatePreview(s) ==
  [Without(s, "preview") EXCEPT !.preview = NoPreview, !.previewVersion = NoCall,
                                !.previewTimer = FALSE]

\* A template is previewed again after a pause; while one is loading it will be.
refreshTemplatePreview(s) ==
  LET t == invalidatePreview(s) IN
  IF t.sourceSelection = None \/ "template" \in t.loadingActions THEN t
  ELSE [t EXCEPT !.preview = [kind |-> "running"], !.previewTimer = TRUE]

-----------------------------------------------------------------------------
\* A preview begins under the identifier of its call; an empty text has none.
Previewing(s, i) ==
  [invalidatePreview(s) EXCEPT !.preview = [kind |-> "running"], !.previewVersion = i,
                               !.loadingActions = @ \cup {"preview"}]
RenderCall(s, for) ==
  [op |-> "render", for |-> for, of |-> <<s.content, s.vars, s.connection>>]

\* The preview that follows an inspection.
Continue(i, s, for) ==
  IF s.content = None THEN End(i, invalidatePreview(s))
  ELSE state' = Previewing(s, i) /\ calls' = Chain(calls, i, RenderCall(s, for))

preview ==
  IF state.content = None THEN Show(invalidatePreview(state))
  ELSE /\ CanPost(calls)
       /\ state' = Previewing(state, NextId(calls))
       /\ calls' = Post(calls, RenderCall(state, "button"))

PreviewTimer == state.previewTimer /\ preview

\* Saving ends when its preview has been answered.
AnswerRender(i) ==
  LET call == calls[i]
      done == IF call.for = "save" THEN Without(state, "save") ELSE state
  IN /\ call.op = "render"
     /\ IF state.previewVersion # i THEN End(i, done)
        ELSE \E answer \in {[kind |-> "error"], [kind |-> "result", of |-> call.of]} :
               End(i, [Without(done, "preview") EXCEPT !.preview = answer])

-----------------------------------------------------------------------------
\* Unsaved work has been given up, or there is none.  A manual source is there at
\* once, a template is asked for.
selectSource(name) ==
  LET s == [invalidatePreview(state) EXCEPT !.inspectionTimer = FALSE,
                                            !.inspectionVersion = NoCall] IN
  /\ ~loading("save") /\ ~loading("template") /\ name # state.sourceSelection
  /\ IF name = None
     THEN Show([adoptSource(s, None) EXCEPT !.content = None, !.baselineContent = None,
                                            !.dirty = FALSE, !.vars = NoVars, !.loadVersion = NoCall])
     ELSE /\ CanPost(calls)
          /\ state' = [s EXCEPT !.loadVersion = NextId(calls),
                                !.loadingActions = @ \cup {"template"}]
          /\ calls' = Post(calls, [op |-> "template", name |-> name])

AnswerTemplate(i) ==
  LET name == calls[i].name content == state.stored[name] IN
  /\ calls[i].op = "template"
  /\ IF state.loadVersion # i THEN End(i, state)
     ELSE \/ /\ content # None
             /\ state' = [adoptSource(state, name)
                            EXCEPT !.content = content, !.baselineContent = content,
                                   !.dirty = FALSE, !.preview = NoPreview,
                                   !.inspectionVersion = i]
             /\ calls' = Chain(calls, i, [op |-> "inspect", for |-> "select"])
          \/ End(i, Without(state, "template"))

\* The variables of the latest text keep the values they have; others come and go.
inspectContent(i) ==
  {[state EXCEPT !.vars = vars] :
     vars \in IF state.inspectionVersion = i THEN Vars ELSE {state.vars}}

\* What awaits an inspection goes on when it is answered: a selection only if it is
\* the latest and the inspection counts, the others in any case.
AnswerInspect(i) ==
  LET for == calls[i].for IN
  /\ calls[i].op = "inspect"
  /\ \E s \in inspectContent(i) :
       \/ for = "type" /\ End(i, s)
       \/ for \in {"cancel", "save"} /\ Continue(i, s, for)
       \/ /\ for = "select"
          /\ IF s.loadVersion # i THEN End(i, s)
             ELSE \/ End(i, Without(state, "template"))
                  \/ s.inspectionVersion = i /\ Continue(i, Without(s, "template"), for)

\* Typing gives up a template that is being loaded.
changeContent(content) ==
  /\ canEdit /\ content # state.content
  /\ Show([Without(invalidatePreview(state), "template")
             EXCEPT !.loadVersion = NoCall, !.content = content,
                    !.dirty = content # state.baselineContent,
                    !.inspectionVersion = NoCall, !.inspectionTimer = TRUE])

\* The version was taken when the text was typed: an inspection that has begun since
\* makes this one worth nothing.
InspectionTimer ==
  /\ state.inspectionTimer
  /\ IF state.inspectionVersion # NoCall THEN Show([state EXCEPT !.inspectionTimer = FALSE])
     ELSE /\ CanPost(calls)
          /\ state' = [state EXCEPT !.inspectionTimer = FALSE, !.inspectionVersion = NextId(calls)]
          /\ calls' = Post(calls, [op |-> "inspect", for |-> "type"])

changeVars(vars) ==
  vars # state.vars /\ Show(refreshTemplatePreview([state EXCEPT !.vars = vars]))

subscribeConnectionChange(connection) ==
  /\ connection # state.connection
  /\ Show(refreshTemplatePreview([state EXCEPT !.connection = connection]))

-----------------------------------------------------------------------------
startEditing ==
  /\ readonly /\ ~loading("template") /\ ~loading("save")
  /\ Show(invalidatePreview([state EXCEPT !.editing = TRUE, !.snapshot = state.content]))

\* The text is as before the edit; it is inspected and previewed again.
cancelEditing ==
  /\ state.editing /\ ~loading("save") /\ ~loading("template") /\ CanPost(calls)
  /\ state' = [invalidatePreview(state)
                 EXCEPT !.content = state.snapshot, !.dirty = FALSE, !.editing = FALSE,
                        !.snapshot = None, !.inspectionTimer = FALSE,
                        !.inspectionVersion = NextId(calls)]
  /\ calls' = Post(calls, [op |-> "inspect", for |-> "cancel"])

copyToManual ==
  /\ readonly /\ ~loading("template") /\ ~loading("save")
  /\ Show([adoptSource(invalidatePreview(state), None)
             EXCEPT !.loadVersion = NoCall, !.baselineContent = None,
                    !.dirty = state.content # None])

persistTemplate(name, creating) ==
  /\ canEdit /\ ~loading("template") /\ state.content # None /\ CanPost(calls)
  /\ state' = [state EXCEPT !.loadingActions = @ \cup {"save"}]
  /\ calls' = Post(calls, [op |-> "save", name |-> name, content |-> state.content,
                           creating |-> creating])

saveTemplate ==
  IF state.sourceSelection # None THEN persistTemplate(state.sourceSelection, FALSE)
  ELSE /\ canEdit /\ ~loading("template") /\ state.content # None
       /\ Show([state EXCEPT !.dialogOpen = TRUE])

submitNameDialog == state.dialogOpen /\ \E name \in Names : persistTemplate(name, TRUE)

AnswerSave(i) ==
  LET call == calls[i] IN
  /\ call.op = "save"
  /\ \/ /\ call.creating = (state.stored[call.name] = None)
        /\ state' = [adoptSource(state, call.name)
                       EXCEPT !.baselineContent = call.content, !.dirty = FALSE,
                              !.stored[call.name] = call.content, !.inspectionVersion = i]
        /\ calls' = Chain(calls, i, [op |-> "inspect", for |-> "save"])
     \/ End(i, Without(state, "save"))

\* A template can be run once its preview is there.
execute ==
  /\ state.content # None
  /\ ~loading("execute") /\ ~loading("template")
  /\ readonly => state.preview.kind = "result"
  /\ CanPost(calls)
  /\ state' = [state EXCEPT !.loadingActions = @ \cup {"execute"}]
  /\ calls' = Post(calls, [op |-> "execute",
                           of |-> <<state.content, state.vars, state.connection>>])

AnswerExecute(i) == calls[i].op = "execute" /\ End(i, Without(state, "execute"))

CommandExecutionPanel ==
  \/ preview \/ execute
  \/ startEditing \/ cancelEditing \/ copyToManual \/ saveTemplate \/ submitNameDialog
  \/ \E name \in Names \cup {None} : selectSource(name)
  \/ \E content \in Texts : changeContent(content)
  \/ \E vars \in Vars : changeVars(vars)

Next ==
  \/ CommandExecutionPanel \/ PreviewTimer \/ InspectionTimer
  \/ \E connection \in Connections : subscribeConnectionChange(connection)
  \/ \E i \in DOMAIN calls : \/ AnswerTemplate(i) \/ AnswerInspect(i) \/ AnswerRender(i)
                             \/ AnswerSave(i) \/ AnswerExecute(i)

Spec == Init /\ [][Next]_<<state, calls>>

-----------------------------------------------------------------------------
\* The store and the calls have their types.
TypeOK ==
  /\ state \in StandardCommandWorkspaceState
  /\ DOMAIN calls \subseteq CallIds
  /\ \A i \in DOMAIN calls : calls[i] \in Call

\* A template that is shown as unchanged is what the service keeps under its name.
UnchangedIsStored ==
  state.sourceSelection # None /\ ~state.dirty =>
    state.content = state.stored[state.sourceSelection]

\* The preview of a template that is shown has been rendered with the variables and
\* for the connection that are shown, whichever preview is answered first.
PreviewFollowsInputs ==
  state.preview.kind = "result" /\ readonly /\ ~loading("template") /\ ~loading("save") =>
    state.preview.of[2] = state.vars /\ state.preview.of[3] = state.connection

\* A preview that a template can be run with is one of its text.
PreviewIsOfTemplate ==
  state.preview.kind = "result" /\ readonly /\ ~loading("template") =>
    state.preview.of[1] = state.content

\* What is shown as loading, saving, previewing or running has a call in flight or a
\* timer that ends it.
BusyIsPending ==
  /\ loading("template") => \/ Pending(calls, state.loadVersion, "template")
                            \/ Pending(calls, state.loadVersion, "inspect")
  /\ loading("preview") => Pending(calls, state.previewVersion, "render")
  /\ state.preview.kind = "running" => loading("preview") \/ state.previewTimer
  /\ loading("execute") => \E i \in DOMAIN calls : calls[i].op = "execute"
  /\ loading("save") =>
       \E i \in DOMAIN calls : \/ calls[i].op = "save"
                               \/ /\ calls[i].op \in {"inspect", "render"}
                                  /\ calls[i].for = "save"
=============================================================================
