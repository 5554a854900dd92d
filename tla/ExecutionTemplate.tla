-------------------------- MODULE ExecutionTemplate --------------------------
(***************************************************************************)
(* The source of what an editor runs: a template of the service, read-only  *)
(* until it is edited, or a manual draft.  json is the text of the editor,  *)
(* baseline the text it is compared with; stored is what the service keeps. *)
(* One module stands for the workspace and for its authoring session, whose *)
(* source is "custom" exactly when a name is selected.  The confirmation of *)
(* the browser blocks, so a decision about unsaved work is part of a step.  *)
(* The host is the page of a plan or of a workflow, whose text is run as it *)
(* is, or a block of a workflow, which holds a template by its name, by its *)
(* content, or none: block is what the workflow holds and will run.         *)
(***************************************************************************)
EXTENDS Requests

CONSTANTS Names,      \* templates of the service
          Contents,   \* texts that are valid
          Draft,      \* the text of a new draft
          Invalid,    \* a text that does not validate
          None

VARIABLES state, calls

ExecutionTemplateAssumption ==
  Draft \in Contents /\ Invalid \notin Contents /\ None \notin Names \cup Contents

Texts == Contents \cup {Invalid}
LoadingActions == {"initialize", "select", "save", "save_as", "import"}

\* What a block of a workflow holds; a page holds no block.
Blocks == [kind: {"named"}, of: Names] \cup [kind: {"content"}, of: Texts]
            \cup [kind: {"inline"}, of: Contents] \cup {None}

ExecutionTemplateState ==
  [json: Texts, baseline: Texts, selectedName: Names \cup {None}, dirty: BOOLEAN,
   editing: BOOLEAN, snapshot: Texts \cup {None}, dialogOpen: BOOLEAN,
   templateNames: SUBSET Names, begun: BOOLEAN, editedSince: BOOLEAN,
   host: {"page", "block"}, initialName: Names \cup {None}, ready: BOOLEAN, contentSource: BOOLEAN,
   block: Blocks, locked: BOOLEAN, destroyed: BOOLEAN, strayed: BOOLEAN,
   loadingAction: LoadingActions \cup {None}, stored: [Names -> Texts \cup {None}]]

Call == [op: {"list", "import"}] \cup [op: {"initial", "select"}, name: Names]
          \cup [op: {"save", "save_as"}, name: Names, content: Contents]

readonly == state.selectedName # None /\ ~state.editing
open == ~state.locked /\ ~state.destroyed
canEdit == state.loadingAction = None /\ ~readonly /\ open

\* The buttons next to the source, which are disabled while the editor is busy.
busy == state.loadingAction # None \/ ~state.ready \/ ~open
sourceActions ==
  CASE busy -> {}
    [] readonly /\ ~busy -> {"edit", "copy"}
    [] OTHER -> (IF state.json # Invalid THEN {"save"} ELSE {})
                  \cup (IF state.editing THEN {"cancel"} ELSE {})
                  \cup (IF state.host = "page" /\ state.selectedName = None THEN {"import"} ELSE {})

\* The menu of the source opens while nothing is pending and offers the templates that
\* match what is searched for; the toggle next to it goes back to a draft.
optionsOf(query) == {name \in state.templateNames : query \in {None, name}}

\* The store before its first list; ready says that the text is not one that is still
\* to be fetched, locked that the workflow of the block is read-only for the moment.
Fresh(host, json, name) ==
  [json |-> json, baseline |-> json, selectedName |-> name, dirty |-> FALSE,
   editing |-> FALSE, snapshot |-> None, dialogOpen |-> FALSE, templateNames |-> {},
   begun |-> FALSE, editedSince |-> FALSE, loadingAction |-> None, host |-> host,
   initialName |-> name, ready |-> name = None, contentSource |-> FALSE, block |-> None,
   locked |-> FALSE, destroyed |-> FALSE, strayed |-> FALSE, stored |-> [n \in Names |-> None]]

\* A block that names its template has it fetched, another is there with its text.
authored(block) ==
  CASE block.kind = "named" -> [Fresh("block", Draft, block.of) EXCEPT !.contentSource = TRUE]
    [] block.kind = "content" -> [Fresh("block", block.of, None) EXCEPT !.contentSource = TRUE]
    [] block.kind = "inline" -> Fresh("block", block.of, None)

Init ==
  /\ calls = NoCalls
  /\ \E stored \in [Names -> Texts \cup {None}], block \in Blocks :
       state = IF block = None THEN [Fresh("page", Draft, None) EXCEPT !.stored = stored]
               ELSE [authored(block) EXCEPT !.block = block, !.stored = stored]

Settled(s, i) == state' = [s EXCEPT !.loadingAction = None] /\ calls' = Settle(calls, i)
Failed(i) == Settled(state, i)

\* An answer counts unless the text has been edited since its question, or the block
\* has left the workflow.
isCurrent == ~state.editedSince /\ ~state.destroyed
Begin(action, call) ==
  /\ CanPost(calls)
  /\ state' = [state EXCEPT !.loadingAction = action, !.editedSince = FALSE]
  /\ calls' = Post(calls, call)

\* The text of the editor is the baseline from now on, and what was being edited or
\* named is over.
captureBaseline(s, name) ==
  [s EXCEPT !.baseline = s.json, !.selectedName = name, !.dirty = FALSE,
            !.editing = FALSE, !.snapshot = None, !.dialogOpen = FALSE]

Replaced(content, name) ==
  captureBaseline([state EXCEPT !.json = content, !.ready = TRUE], name)

PublishText(s, named) ==
  IF s.host = "page" \/ s.destroyed THEN s
  ELSE [s EXCEPT !.block = [kind |-> "content", of |-> s.json]]

\* What the workflow holds after a change of the block.  A publication while it is
\* read-only is lost, and the block strays from what its editor shows.
publish(s, named) ==
  IF s.host = "page" \/ s.destroyed THEN s
  ELSE IF s.locked THEN [s EXCEPT !.strayed = TRUE]
  ELSE [s EXCEPT !.block =
          IF named /\ s.selectedName # None THEN [kind |-> "named", of |-> s.selectedName]
          ELSE IF s.contentSource \/ s.selectedName # None \/ s.json = Invalid
               THEN [kind |-> "content", of |-> s.json]
          ELSE [kind |-> "inline", of |-> s.json]]

\* The block of a template, and that of a draft.
FromTemplate(s) == publish([s EXCEPT !.contentSource = TRUE], TRUE)
FromDraft(s) == publish([s EXCEPT !.contentSource = FALSE], TRUE)

-----------------------------------------------------------------------------
initialize ==
  /\ ~state.begun /\ state.loadingAction = None /\ ~state.destroyed
  /\ CanPost(calls)
  /\ state' = [state EXCEPT !.loadingAction = "initialize", !.editedSince = FALSE, !.begun = TRUE]
  /\ calls' = Post(calls, [op |-> "list"])

\* The page asks once, the editor of a block whenever it is shown until it is answered.
InitializeFailed(i) == Settled([state EXCEPT !.begun = state.host = "page"], i)

\* The list, and the template named from the start once the list is there.  A list that
\* was asked for again takes what has been edited since for the baseline.
AnswerList(i) ==
  /\ calls[i].op = "list"
  /\ \/ /\ isCurrent
        /\ LET names == {name \in Names : state.stored[name] # None}
               listed == [state EXCEPT !.templateNames = names]
           IN IF state.selectedName # None /\ state.selectedName = state.initialName /\ ~state.ready
              THEN state' = listed /\ calls' = Chain(calls, i, [op |-> "initial",
                                                                name |-> state.selectedName])
              ELSE Settled([listed EXCEPT !.baseline = state.json,
                                          !.strayed = @ \/ state.json # state.baseline], i)
     \/ InitializeFailed(i)

\* The content of a template that is there and validates.
Loaded(name) == state.stored[name] \in Contents

AnswerInitial(i) ==
  /\ calls[i].op = "initial"
  /\ LET name == calls[i].name IN
     \/ isCurrent /\ Loaded(name) /\ Settled(Replaced(state.stored[name], name), i)
     \/ InitializeFailed(i)

\* A template is fetched, the draft is there at once; unsaved work has been given
\* up, or there was none.
selectTemplate(name) ==
  /\ open
  /\ IF name = None
     THEN state' = FromDraft(Replaced(Draft, None)) /\ UNCHANGED calls
     ELSE Begin("select", [op |-> "select", name |-> name])

selectSource(name) ==
  /\ state.loadingAction = None /\ name # state.selectedName
  /\ name = None \/ \E query \in Names \cup {None} : name \in optionsOf(query)
  /\ selectTemplate(name)

AnswerSelect(i) ==
  /\ calls[i].op = "select"
  /\ LET name == calls[i].name IN
     \/ /\ isCurrent /\ Loaded(name)
        /\ Settled(FromTemplate(Replaced(state.stored[name], name)), i)
     \/ Failed(i)

\* A file replaces a draft; the file may fail to be read or to validate.
importContent ==
  /\ "import" \in sourceActions /\ canEdit
  /\ Begin("import", [op |-> "import"])

AnswerImport(i) ==
  /\ calls[i].op = "import"
  /\ \/ isCurrent /\ \E content \in Contents : Settled(Replaced(content, None), i)
     \/ Failed(i)

-----------------------------------------------------------------------------
PersistUnvalidated(name, action) ==
  Begin(action, [op |-> action, name |-> name, content |-> state.json])
persistTemplate(name, action) ==
  /\ state.json \in Contents
  /\ Begin(action, [op |-> action, name |-> name, content |-> state.json])

\* Saving under the selected name, or asking for one.
saveTemplate ==
  /\ "save" \in sourceActions /\ canEdit
  /\ IF state.selectedName = None
     THEN /\ state' = [state EXCEPT !.dialogOpen = TRUE] /\ UNCHANGED calls
     ELSE persistTemplate(state.selectedName, "save")

submitNameDialog == canEdit /\ state.dialogOpen /\ \E name \in Names : persistTemplate(name, "save_as")

closeNameDialog ==
  /\ state.loadingAction = None /\ state.dialogOpen
  /\ state' = [state EXCEPT !.dialogOpen = FALSE] /\ UNCHANGED calls

\* The service creates what is not there and updates what is.
AnswerPersist(i) ==
  LET call == calls[i] IN
  /\ call.op \in {"save", "save_as"}
  /\ \/ LET kept == [state EXCEPT !.stored[call.name] = call.content]
            listed == [kept EXCEPT !.templateNames = @ \cup {call.name}]
        IN /\ (state.stored[call.name] = None) = (call.op = "save_as")
           /\ Settled(IF isCurrent THEN FromTemplate(captureBaseline(listed, call.name)) ELSE kept, i)
     \/ Failed(i)

\* The editor changes its text and then reports the change.
markEdited(text) ==
  /\ canEdit /\ text # state.json
  /\ state' = publish([state EXCEPT !.json = text, !.editedSince = TRUE,
                                    !.dirty = text # state.baseline], FALSE)
  /\ UNCHANGED calls

\* A page is edited as text or by its form; a block by its form, which is there when the
\* text can be read and writes texts that can.
changeCurrentJson(text) == state.host = "page" /\ markEdited(text)
changeFormModel(text) ==
  /\ state.host = "block" /\ state.ready /\ Invalid \notin {text, state.json}
  /\ markEdited(text)

startEditing ==
  /\ "edit" \in sourceActions /\ readonly
  /\ state' = [state EXCEPT !.editing = TRUE, !.snapshot = state.baseline]
  /\ UNCHANGED calls

cancelEditing ==
  /\ "cancel" \in sourceActions /\ state.editing
  /\ state' = publish([state EXCEPT !.json = state.snapshot, !.dirty = FALSE,
                                    !.editing = FALSE, !.snapshot = None], TRUE)
  /\ UNCHANGED calls

\* The text of a template becomes a draft that has not been saved.
copyToManual ==
  /\ "copy" \in sourceActions /\ readonly
  /\ state' = publish([state EXCEPT !.selectedName = None, !.dirty = TRUE, !.dialogOpen = FALSE,
                                    !.contentSource = TRUE], FALSE)
  /\ UNCHANGED calls

\* The workflow is read-only while a template of its own is loaded.
lock ==
  /\ state.host = "block" /\ ~state.destroyed
  /\ state' = [state EXCEPT !.locked = ~@] /\ UNCHANGED calls

\* The block has left the workflow: its editor is gone, its calls are not.
destroy ==
  /\ state.host = "block" /\ open
  /\ state' = [state EXCEPT !.destroyed = TRUE, !.block = None] /\ UNCHANGED calls

\* The node of the block on the canvas: the form it shows, and whether it may be edited.
canvasState ==
  [formModel |-> IF state.ready /\ state.json # Invalid THEN {state.json} ELSE {},
   editable |-> state.ready /\ ~readonly /\ state.loadingAction = None]

Next ==
  \/ initialize \/ importContent \/ saveTemplate \/ submitNameDialog \/ closeNameDialog
  \/ startEditing \/ cancelEditing \/ copyToManual \/ lock \/ destroy
  \/ \E name \in Names \cup {None} : selectSource(name)
  \/ \E text \in Texts : changeCurrentJson(text) \/ changeFormModel(text)
  \/ \E i \in DOMAIN calls : \/ AnswerList(i) \/ AnswerInitial(i) \/ AnswerSelect(i)
                             \/ AnswerImport(i) \/ AnswerPersist(i)

Spec == Init /\ [][Next]_<<state, calls>>

-----------------------------------------------------------------------------
\* The store, its calls and the service have their types.
TypeOK ==
  /\ state \in ExecutionTemplateState
  /\ DOMAIN calls \subseteq CallIds
  /\ \A i \in DOMAIN calls : calls[i] \in Call

\* A template that is shown as unchanged is what the service keeps under its name,
\* so that a run names exactly what it executes.
UnchangedIsStored ==
  state.ready /\ ~state.strayed /\ state.selectedName # None /\ state.loadingAction = None
    /\ ~state.dirty => state.json = state.stored[state.selectedName]

\* A workflow runs what the editor of its block shows: a template by its name when it
\* is unchanged, the text itself otherwise; a block that has left stays out.  A block
\* that has strayed is left out.
BlockIsShown ==
  LET block == state.block IN
  /\ (block = None) = (state.host = "page" \/ state.destroyed)
  /\ block # None /\ state.ready /\ ~state.strayed /\ state.loadingAction = None =>
       IF block.kind = "named"
       THEN block.of = state.selectedName /\ state.json = state.stored[block.of]
       ELSE /\ block.of = state.json /\ (state.selectedName = None \/ state.editing)
            /\ canvasState.formModel = {block.of} \ {Invalid}
            /\ canvasState.editable

\* An action that is shown as running has its call in flight, and no other has one.
BusyIsPending ==
  /\ (state.loadingAction # None) = (calls # NoCalls)
  /\ \A i \in DOMAIN calls : calls[i].op \in {state.loadingAction, "list", "initial"}

=============================================================================
