-------------------------- MODULE TxWorkflowEditor --------------------------
(***************************************************************************)
(* The editor of a transaction workflow: the same workflow as a canvas of   *)
(* blocks and, in a dialog over it, as JSON text or read-only.  session is  *)
(* the store of the editor session, dialog the dialog that is open, if any, *)
(* selected the block that is selected, windows what is open over the       *)
(* canvas (the settings of the workflow, the inspector of the block),       *)
(* nextId the counter that editor identifiers are drawn from.               *)
(***************************************************************************)
EXTENDS WorkflowTree, FiniteSets

CONSTANTS Contents,      \* the contents of plain blocks
          NewContent,    \* the content of a new block
          Texts,         \* bound: the workflows that are typed as JSON
          MaxBlocks      \* bound: blocks of a workflow

VARIABLE state

session == state.session
dialog == state.dialog
selected == state.selected
windows == state.windows
nextId == state.nextId

NoBlock == 0

\* The JSON of a workflow has its blocks and the values fail_fast is written with:
\* none or one.
defaultTxWorkflowTemplatePayload == [blocks |-> <<>>, failFast |-> {TRUE}]
Invalid == [blocks |-> <<>>, failFast |-> BOOLEAN]

txWorkflowFormModelFromJson(json, from) ==
  [blocks |-> Numbered(json.blocks, from),
   failFast |-> FALSE \notin json.failFast,
   hasFailFast |-> json.failFast # {}]

txWorkflowFormModelToJsonText(model) ==
  [blocks |-> Written(model.blocks),
   failFast |-> IF model.hasFailFast \/ ~model.failFast THEN {model.failFast} ELSE {}]

Read(json) == txWorkflowFormModelFromJson(json, nextId)

-----------------------------------------------------------------------------
\* The session: the document as a form and as the text it is written to, with the
\* text that was valid last and whether the text is that of the form.

\* A session that shows a form.
createTransactionEditorSession(model) ==
  [formModel |-> model, syncStatus |-> "synced",
   jsonText |-> txWorkflowFormModelToJsonText(model),
   lastValidJson |-> txWorkflowFormModelToJsonText(model)]

\* The form follows any text.
replaceAnyText(s, text) ==
  [s EXCEPT !.formModel = Read(text), !.jsonText = text,
            !.syncStatus = IF text = Invalid THEN "invalid-json" ELSE "synced",
            !.lastValidJson = IF text = Invalid THEN @ ELSE text]

\* A text that was typed or loaded: an invalid one leaves the form as it was.
replaceJsonText(s, text) ==
  IF text = Invalid
  THEN [s EXCEPT !.jsonText = text, !.syncStatus = "invalid-json"]
  ELSE [s EXCEPT !.formModel = Read(text), !.jsonText = text,
                 !.lastValidJson = text, !.syncStatus = "synced"]

\* A change of the form: the text is written from it.
changeFormModel(s, model) ==
  LET text == txWorkflowFormModelToJsonText(model)
  IN [s EXCEPT !.formModel = model, !.jsonText = text,
               !.lastValidJson = text, !.syncStatus = "synced"]

\* The selection once the effect of the canvas has run for a changed model: a
\* selected block that is gone gives way to the first one.
SelectedIn(blocks, id) ==
  IF Has(blocks, id) THEN id
  ELSE IF blocks = <<>> THEN NoBlock ELSE blocks[1].id

Init ==
  LET model == txWorkflowFormModelFromJson(defaultTxWorkflowTemplatePayload, 1) IN
  state = [session |-> createTransactionEditorSession(model), dialog |-> "none",
           selected |-> NoBlock, windows |-> {}, nextId |-> 1]

Blocks == session.formModel.blocks
OnCanvas == dialog = "none"

-----------------------------------------------------------------------------
\* The dialog that shows the workflow as text is closed whatever the text is.
setCanvasViewDialog ==
  \E mode \in IF OnCanvas THEN {"json", "readonly"} ELSE {"none"} :
    state' = [state EXCEPT !.dialog = mode]

\* Text is typed in the dialog that shows it.
handleEditorJsonInput ==
  \E text \in Texts \cup {Invalid} :
    /\ dialog = "json" /\ text # session.jsonText
    /\ LET next == replaceJsonText(session, text) IN
       state' = [state EXCEPT
         !.session = next,
         !.selected = SelectedIn(next.formModel.blocks, selected),
         !.nextId = IF text = Invalid THEN @ ELSE @ + Weight(text.blocks)]

\* A draft replaces the workflow.
resetDraft ==
  /\ OnCanvas
  /\ state' = [state EXCEPT
       !.session = createTransactionEditorSession(Read(defaultTxWorkflowTemplatePayload)),
       !.selected = NoBlock]

-----------------------------------------------------------------------------
\* A change of the blocks, with what is selected after it and the identifiers drawn.
Changed(blocks, wanted, drawn) ==
  [state EXCEPT
     !.session = changeFormModel(@, [session.formModel EXCEPT !.blocks = blocks]),
     !.selected = SelectedIn(blocks, wanted), !.nextId = @ + drawn]

Room(blocks) == Cardinality(Nodes(Blocks)) + Cardinality(Nodes(blocks)) <= MaxBlocks

\* changeBranch: one scope of the workflow is replaced, and the block at an index
\* of it is selected and inspected, or its parent if it has none there.
changeBranch(scope, blocks, index, drawn) ==
  LET wanted == IF index \in DOMAIN blocks THEN blocks[index].id ELSE scope[1]
  IN state' = [Changed(ReplaceScope(Blocks, scope, blocks), wanted, drawn) EXCEPT
                 !.windows = IF wanted = NoBlock THEN @ ELSE @ \cup {"inspector"}]

addNode(scope, kind) ==
  LET blocks == Scope(Blocks, scope) node == NewNode(kind, NewContent) IN
  /\ Room(<<node>>)
  /\ changeBranch(scope, Inserted(blocks, Len(blocks) + 1, Numbered(<<node>>, nextId)[1]), Len(blocks) + 1,
                  Weight(<<node>>))

moveBlock(id, offset) ==
  LET place == Place(Blocks, id) blocks == Scope(Blocks, place[1])
      target == place[2] + offset
  IN /\ target \in DOMAIN blocks
     /\ changeBranch(place[1], Moved(blocks, place[2], target), target, 0)

duplicateBlock(id) ==
  LET place == Place(Blocks, id) blocks == Scope(Blocks, place[1]) copied == <<place[3]>> IN
  /\ Room(copied)
  /\ changeBranch(place[1], Duplicated(blocks, place[2], nextId), place[2] + 1, Weight(copied))

removeBlock(id) ==
  LET place == Place(Blocks, id) blocks == Scope(Blocks, place[1]) IN
  changeBranch(place[1], Removed(blocks, place[2]), IF place[2] = 1 THEN 1 ELSE place[2] - 1, 0)

\* changeChoice: the selection is left alone, and the effect moves it off a block
\* that went with its branch.
changeChoice(id, choice, drawn) ==
  choice # Node(Blocks, id) /\ state' = Changed(ReplaceNode(Blocks, id, choice), selected, drawn)

ChangeBranches(id) ==
  LET choice == Node(Blocks, id) IN
  /\ choice.kind = "choice"
  /\ \/ changeChoice(id, AddChoiceBranch(choice, nextId), 1)
     \/ \E b \in 1 .. Len(choice.kids) - 1 :
          \/ \E offset \in {-1, 1} : changeChoice(id, MoveChoiceBranch(choice, b, offset), 0)
          \/ changeChoice(id, RemoveChoiceBranch(choice, b), 0)

selectBlockId(id) ==
  state' = [state EXCEPT !.selected = id, !.windows = @ \cup {"inspector"}]

\* fail_fast is written or left out, and changed where it is written.
ChangeRoot(model) == state' = [state EXCEPT !.session = changeFormModel(@, model)]
txWorkflowSetRootFieldPresence(enabled) ==
  ChangeRoot([session.formModel EXCEPT !.failFast = IF enabled THEN @ ELSE TRUE,
                                       !.hasFailFast = enabled])
txWorkflowChangeRoot(failFast) ==
  ChangeRoot([session.formModel EXCEPT !.failFast = failFast, !.hasFailFast = TRUE])

-----------------------------------------------------------------------------
\* The canvas draws the workflow as a group and its blocks as nodes in it with an
\* arrow from each to the next; the blocks of branches are drawn in their node.  An
\* arrow to a handle that a node has not is not drawn.
txWorkflowFlowGraph ==
  [nodes |-> [n \in DOMAIN Blocks |->
     [id |-> Blocks[n].id, hasTarget |-> n > 1, hasSource |-> n < Len(Blocks)]],
   edges |-> {<<n, n + 1>> : n \in 1 .. Len(Blocks) - 1}]

\* The scope that the buttons of a branch of a drawn control node add to.
addActions(node, b) == <<node.id, IF b = Len(node.kids) THEN 0 ELSE node.kids[b].id>>

\* The node that the view is moved to: the group, or the one with the selected block.
GroupNode == 0
NodeAt(id) == Place(Blocks, id)[2]
RECURSIVE NodeWith(_)
NodeWith(id) ==
  LET place == Place(Blocks, id)
  IN IF place[1] = Root THEN place[2] ELSE NodeWith(place[1][1])
selectedNodeId == IF selected = NoBlock THEN GroupNode ELSE NodeWith(selected)

\* The buttons that a block is drawn with.
BlockTools(id) ==
  \/ \E offset \in {-1, 1} : moveBlock(id, offset)
  \/ duplicateBlock(id)
  \/ removeBlock(id)

\* The inspector addresses the selected block by its scope and its index there.
selectedBlock ==
  LET place == Place(Blocks, selected) scope == Scope(Blocks, place[1]) IN
  [scope |-> place[1], index |-> place[2], row |-> scope[place[2]]]

\* It changes the content of a plain block and the fields of a control node, and
\* leaves the blocks in it to the canvas.
updateBlock(content) ==
  LET blocks == Scope(Blocks, selectedBlock.scope)
      next == [blocks EXCEPT ![selectedBlock.index].content = content]
  IN state' = Changed(ReplaceScope(Blocks, selectedBlock.scope, next), selected, 0)

Inspector ==
  /\ "inspector" \in windows /\ selected # NoBlock
  /\ \/ BlockTools(selectedBlock.row.id)
     \/ \E content \in Contents : updateBlock(content)

Settings ==
  /\ "settings" \in windows
  /\ \/ \E enabled \in BOOLEAN : txWorkflowSetRootFieldPresence(enabled)
     \/ \E failFast \in BOOLEAN : txWorkflowChangeRoot(failFast)

\* The windows over the canvas: a button for each, and a click beside the nodes
\* closes both.
panelToggle ==
  \E window \in {"settings", "inspector"} :
    state' = [state EXCEPT !.windows = SymDiff(@, {window})]
collapseCanvasWindows == windows # {} /\ state' = [state EXCEPT !.windows = {}]

\* A click on the group opens the settings, one on a block its inspector.
selectGraphNode ==
  \/ "settings" \notin windows /\ state' = [state EXCEPT !.windows = @ \cup {"settings"}]
  \/ \E id \in BlockIds(Blocks) :
       (id # selected \/ "inspector" \notin windows) /\ selectBlockId(id)

Canvas ==
  \/ \E kind \in {"block", "loop", "choice"} :
       \/ addNode(Root, kind)
       \/ \E node \in Nodes(Blocks) : \E b \in DOMAIN node.kids : addNode(addActions(node, b), kind)
  \/ \E id \in BlockIds(Blocks) : BlockTools(id) \/ ChangeBranches(id)
  \/ selectGraphNode \/ panelToggle \/ collapseCanvasWindows
  \/ Inspector \/ Settings

Next ==
  \/ OnCanvas /\ Canvas
  \/ handleEditorJsonInput
  \/ setCanvasViewDialog
  \/ resetDraft

Spec == Init /\ [][Next]_state

-----------------------------------------------------------------------------
\* The session, the selection and the counter have their types; the selection is a
\* block of the workflow whenever the workflow has one.
TypeOK ==
  /\ session.syncStatus \in {"synced", "invalid-json"}
  /\ session.lastValidJson # Invalid
  /\ dialog \in {"none", "json", "readonly"}
  /\ windows \subseteq {"settings", "inspector"}
  /\ nextId \in Nat \ {0}
  /\ selected = NoBlock => Blocks = <<>>
  /\ selected # NoBlock => Has(Blocks, selected)

\* The canvas is the workflow of the text that was valid last, which is the text
\* itself unless that is shown as invalid.
ViewsAgree ==
  LET OfForm == txWorkflowFormModelToJsonText(session.formModel)
      Of(text) == txWorkflowFormModelToJsonText(Read(text))
  IN /\ session.syncStatus = "synced" => session.jsonText = session.lastValidJson
     /\ session.syncStatus = "invalid-json" => session.jsonText = Invalid
     /\ OfForm = Of(session.lastValidJson)

\* The canvas tells how the workflow runs and works on what it shows: every arrow
\* has its handles and every handle its arrow, the view is at the node with the
\* selected block, wherever that is nested, the buttons of a branch add to that
\* branch, and the inspector is the selected block's.
GraphShowsWorkflow ==
  LET graph == txWorkflowFlowGraph IN
  /\ \A n \in DOMAIN graph.nodes :
       /\ graph.nodes[n].hasSource <=> \E edge \in graph.edges : edge[1] = n
       /\ graph.nodes[n].hasTarget <=> \E edge \in graph.edges : edge[2] = n
  /\ selectedNodeId # GroupNode <=> selected # NoBlock
  /\ selected # NoBlock =>
       Has(<<Blocks[selectedNodeId]>>, selected) /\ selectedBlock.row.id = selected
  /\ \A node \in Nodes(Blocks) : \A b \in DOMAIN node.kids :
       Scope(Blocks, addActions(node, b)) = node.kids[b].blocks

\* No two blocks or branches share an identifier, so that what is addressed by one
\* is the block the user has pointed at, after any copies, moves and texts.
IdsAreUnique ==
  /\ \A id \in AllIds(Blocks) : id < nextId
  /\ Cardinality(AllIds(Blocks)) = Weight(Blocks)

\* A change on the canvas keeps every block but one it removes with what is in it,
\* and everything a block holds stays in it, wherever the change is made.
KeepsTheRest ==
  LET blocks == session.formModel.blocks next == state'.session.formModel.blocks
      before == Nodes(blocks) after == Nodes(next)
      gone == BlockIds(blocks) \ {node.id : node \in after}
  IN OnCanvas /\ OnCanvas' /\ next # <<>> =>
       \/ next = blocks
       \/ /\ gone = {}
          /\ \A node \in before : \E kept \in after :
               kept.id = node.id /\ BlockIds(<<node>>) \subseteq BlockIds(<<kept>>)
       \/ \E node \in before :
            \/ gone = BlockIds(<<node>>)
            \/ \E kid \in ToSet(node.kids) : gone = BlockIds(kid.blocks)
=============================================================================
