--------------------------- MODULE TxBlockEditor ---------------------------
(***************************************************************************)
(* The editor of one transaction block: its steps as a tree of commands and *)
(* control steps, the rollback of the whole resource with the index of the  *)
(* step that triggers it, and the text the block is saved as.  A step is    *)
(* addressed by its path: indices of steps and of branches in turn.         *)
(*                                                                          *)
(* A command has lines; an operation is a command or a flow of commands.    *)
(* What a block is written to is text; what is only in the form, the kind   *)
(* of editor and the interaction kept while a plain command is edited, is   *)
(* not in it.  A text that is typed or loaded may leave out what a block has *)
(* and name what there is not; the reader fills in, or refuses it.          *)
(***************************************************************************)
EXTENDS WorkflowTree, FiniteSets

CONSTANTS Commands,      \* bound: what is typed as a command, sequences of lines
          Loaded,        \* bound: the blocks that are typed or loaded as JSON
          MaxSteps       \* bound: steps of a block

VARIABLE state

form == state.form                           \* the form of the block
text == state.text                           \* its JSON
formError == state.formError                 \* the text cannot be read: there is no form
selectedTarget == state.selectedTarget       \* the step and the operation that are shown
commandSelection == state.commandSelection   \* the path selected last, of any depth

NoStep == 0
NoPath == <<>>
Policies == {"none", "per_step", "whole_resource"}

-----------------------------------------------------------------------------
\* An operation: its command, the interaction kept for when it is interactive again,
\* and the kind of editor that was chosen for it.
Operation(kind, command, prompts, flow) ==
  [kind |-> kind, command |-> command, prompts |-> prompts, flow |-> flow,
   draft |-> {}, editor |-> {}]
txBlockOperationDraft == Operation("command", <<>>, FALSE, <<<<>>>>)
NoOperation == Operation("none", <<>>, FALSE, <<>>)

transactionOperationEditorKind(op) ==
  CASE op.kind = "flow" -> "interactive"
    [] op.editor # {} -> CHOOSE kind \in op.editor : TRUE
    [] OTHER -> IF op.prompts THEN "interactive" ELSE "command"

changeTransactionOperationEditorKind(op, kind) ==
  CASE kind = transactionOperationEditorKind(op) -> op
    [] kind = "interactive" ->
         [op EXCEPT !.kind = "command", !.editor = {kind}, !.draft = {},
                    !.prompts = IF op.draft = {} THEN @ ELSE TRUE \in op.draft]
    [] OTHER ->
         LET first == op.kind = "flow" /\ op.flow # <<>> IN
         [op EXCEPT !.kind = "command", !.editor = {kind}, !.prompts = FALSE,
                    !.command = IF first THEN op.flow[1] ELSE @,
                    !.draft = {IF first THEN FALSE ELSE op.prompts}]

\* The step of a block: what it runs, and what undoes it.
Step(run, rollback, onFailure) == [run |-> run, rollback |-> rollback, onFailure |-> onFailure]
txBlockStepDraft == Step(txBlockOperationDraft, NoOperation, FALSE)

\* The rollback of a block: a whole-resource one has an operation and the step that
\* triggers it.
Policy(kind, rollback, trigger) == [kind |-> kind, rollback |-> rollback, trigger |-> trigger]

(***************************************************************************)
(* A block as JSON has the shape of its form, with the values a flag or the  *)
(* trigger is given, none or one, in the place of its value.  An operation   *)
(* or a rollback that is null or left out is NoOperation, one without a kind *)
(* has the kind ""; a list that is left out is empty.  A choice of the kind  *)
(* "condition" has no branches, but one condition and what follows from it.  *)
(***************************************************************************)
OperationKinds == {"command", "flow"}
txOperationJsonFromModel(op) ==
  CASE op.kind = "none" -> NoOperation
    [] op.kind = "flow" -> Operation("flow", <<>>, FALSE, op.flow)
    [] OTHER -> Operation("command", op.command, op.prompts, <<>>)

\* A control step is written without an operation.
RECURSIVE txStepJsonFromModel(_)
txStepJsonFromModel(steps) ==
  [n \in DOMAIN steps |->
    [steps[n] EXCEPT
       !.content = IF steps[n].kind = "block"
                   THEN Step(txOperationJsonFromModel(@.run),
                             txOperationJsonFromModel(@.rollback), {@.onFailure})
                   ELSE Step(NoOperation, NoOperation, {}),
       !.kids = [b \in DOMAIN @ |-> Kid(@[b].id, txStepJsonFromModel(@[b].blocks))]]]

\* The first step is written as the trigger of a block that has none.
txBlockJsonFromFormModel(block) ==
  [policy |-> Policy(block.policy.kind, txOperationJsonFromModel(block.policy.rollback),
                     IF block.policy.kind = "whole_resource" /\ block.policy.trigger = {}
                     THEN {1} ELSE block.policy.trigger),
   steps |-> txStepJsonFromModel(block.steps), failFast |-> {block.failFast}]

\* The reader: an operation is a command unless it says otherwise, a policy that is not
\* known is none, and what is no control step is a command.
OperationKind(op) == IF op.kind \in {"none", ""} THEN "command" ELSE op.kind
txOperationModelFromJson(op) == [op EXCEPT !.kind = OperationKind(op)]

txRollbackPolicyModelFromJson(policy) ==
  IF policy.kind = "whole_resource"
  THEN [policy EXCEPT !.rollback = txOperationModelFromJson(@)]
  ELSE Policy(IF policy.kind = "per_step" THEN policy.kind ELSE "none", NoOperation, {})

txControlKind(kind) ==
  CASE kind \in {"loop", "choice"} -> kind
    [] kind = "condition" -> "choice"
    [] OTHER -> "block"

StepWithRollback(value) ==
  Step(txOperationModelFromJson(value.run), txOperationModelFromJson(value.rollback),
       TRUE \in value.onFailure)
StepContent(value) ==
  Step(txOperationModelFromJson(value.run),
       IF value.rollback = NoOperation THEN NoOperation
       ELSE txOperationModelFromJson(value.rollback),
       TRUE \in value.onFailure)

RECURSIVE txStepModelFromJson(_)
txStepModelFromJson(steps) ==
  [n \in DOMAIN steps |->
    LET kind == txControlKind(steps[n].kind) IN
    [steps[n] EXCEPT
       !.kind = kind, !.content = StepContent(@),
       !.kids = IF kind = "block" THEN <<>>
                ELSE [b \in DOMAIN @ |-> Kid(@[b].id, txStepModelFromJson(@[b].blocks))]]]

txBlockFormModelFromJson(json) ==
  [policy |-> txRollbackPolicyModelFromJson(json.policy),
   steps |-> txStepModelFromJson(json.steps), failFast |-> FALSE \notin json.failFast]

\* A text that is not a block at all; and a text that can be read: it is a block, and
\* none of its operations, wherever it is nested, is of a kind that is not supported.
Invalid == [policy |-> Policy("none", NoOperation, {}), steps |-> <<>>, failFast |-> BOOLEAN]
AnyBlock(json) == json # Invalid
Readable(json) ==
  /\ json # Invalid
  /\ \A op \in {json.policy.rollback}
              \cup UNION {{node.content.run, node.content.rollback} : node \in Nodes(json.steps)} :
       OperationKind(op) \in OperationKinds

\* What is read from a text: nothing is left of a form its text cannot be read for.
NoForm == [policy |-> Policy("none", NoOperation, {}), steps |-> <<>>, failFast |-> TRUE]
txBlockEditorFormStateFromJsonText(json) ==
  [formError |-> ~Readable(json),
   formModel |-> IF Readable(json) THEN txBlockFormModelFromJson(json) ELSE NoForm]

-----------------------------------------------------------------------------
\* The steps of the scope at a path, and the block with others in their place.
RECURSIVE txStepScope(_, _)
txStepScope(steps, path) ==
  IF path = <<>> THEN steps
  ELSE txStepScope(steps[path[1]].kids[path[2]].blocks, SubSeq(path, 3, Len(path)))

RECURSIVE txStepReplaceScope(_, _, _)
txStepReplaceScope(steps, path, next) ==
  IF path = <<>> THEN next
  ELSE [steps EXCEPT ![path[1]].kids[path[2]].blocks =
          txStepReplaceScope(@, SubSeq(path, 3, Len(path)), next)]

RECURSIVE ScopePaths(_)
ScopePaths(steps) ==
  {<<>>} \cup UNION {UNION {{<<n, b>> \o path : path \in ScopePaths(steps[n].kids[b].blocks)} :
                            b \in DOMAIN steps[n].kids} : n \in DOMAIN steps}
StepPaths(steps) ==
  UNION {{Append(scope, n) : n \in DOMAIN txStepScope(steps, scope)} : scope \in ScopePaths(steps)}
txStepAtPath(steps, path) == txStepScope(steps, Front(path))[Last(path)]

-----------------------------------------------------------------------------
\* A command of several lines can be split into one step for each, unless it or its
\* rollback is interactive or the rollback has more lines than it.
txBlockOperationCanSplit(op) ==
  transactionOperationEditorKind(op) = "command" /\ ~op.prompts
txBlockStepSplitStatus(step) ==
  LET run == step.content.run rollback == step.content.rollback IN
  CASE step.kind # "block" \/ ~txBlockOperationCanSplit(run) \/ Len(run.command) < 2 -> "unavailable"
    [] rollback # NoOperation /\ ~txBlockOperationCanSplit(rollback) -> "interactive_rollback"
    [] Len(rollback.command) > Len(run.command) -> "rollback_exceeds_run"
    [] OTHER -> "ready"
txBlockCanSplitStep(step) == txBlockStepSplitStatus(step) = "ready"

SplitInto(step) ==
  LET lines == step.content.run.command
      undo == step.content.rollback.command
  IN [n \in DOMAIN lines |->
       [step EXCEPT
          !.content.run.command = <<lines[n]>>,
          !.content.rollback = IF n \in DOMAIN undo THEN [@ EXCEPT !.command = <<undo[n]>>]
                               ELSE NoOperation,
          !.content.onFailure = @ /\ n \in DOMAIN undo]]

\* The block after a step is split: a trigger behind it keeps its step.
SplitAt(block, n) ==
  LET parts == SplitInto(block.steps[n])
      shift == Len(parts) - 1
  IN [block EXCEPT
        !.steps = SubSeq(@, 1, n - 1) \o parts \o SubSeq(@, n + 1, Len(@)),
        !.policy.trigger = {IF at > n THEN at + shift ELSE at : at \in @}]
SplitKeepingIndex(block, n) ==
  [SplitAt(block, n) EXCEPT !.policy.trigger = block.policy.trigger]

\* The block a scope is shown as: one below the root has no whole-resource rollback.
NestedModel(block, steps) ==
  [block EXCEPT !.steps = steps,
                !.policy = Policy(IF @.kind = "per_step" THEN @.kind ELSE "none", NoOperation, {})]
ScopeModel(path) == IF path = <<>> THEN form ELSE NestedModel(form, txStepScope(form.steps, path))

txBlockAddStep(block, kind) == [block EXCEPT !.steps = Append(@, NewNode(kind, txBlockStepDraft))]
txBlockDuplicateStep(block, n) == [block EXCEPT !.steps = InsertAt(@, n + 1, @[n])]
txBlockMoveStep(block, n, to) == [block EXCEPT !.steps = Moved(@, n, to)]
txBlockRemoveStep(block, n) == [block EXCEPT !.steps = Removed(@, n)]
txBlockSplitStep(block, n) == SplitAt(block, n)

-----------------------------------------------------------------------------
\* What the selection becomes when the block changes: a step that is gone is left for
\* the block, a rollback that is not configured for the command.
txWorkflowNormalizeCommandSelection(block, target) ==
  CASE target.operation = "whole_resource_rollback" ->
         [target EXCEPT !.operation = IF block.policy.kind = "whole_resource" THEN @ ELSE "run"]
    [] target.step \notin DOMAIN block.steps -> [step |-> NoStep, operation |-> "run"]
    [] OTHER -> [target EXCEPT !.operation =
                   IF @ = "rollback" /\ block.policy.kind # "per_step" THEN "run" ELSE @]

\* The path selected last, if it is below the step that is selected, else that step; the
\* inspector shows the step itself when nothing is at the path any more.
activePath ==
  IF commandSelection # NoPath /\ commandSelection[1] = selectedTarget.step
  THEN commandSelection ELSE <<selectedTarget.step>>
Opened ==
  IF activePath \in StepPaths(form.steps) THEN activePath ELSE <<selectedTarget.step>>

TheBlock == [step |-> NoStep, operation |-> "run"]

defaultTxBlockTemplatePayload ==
  [policy |-> Policy("none", NoOperation, {}),
   steps |-> <<Plain(Step(Operation("command", <<>>, FALSE, <<>>), NoOperation, {FALSE}))>>,
   failFast |-> {TRUE}]

Init ==
  LET block == txBlockFormModelFromJson(defaultTxBlockTemplatePayload) IN
  state = [form |-> block, text |-> txBlockJsonFromFormModel(block), formError |-> FALSE,
           selectedTarget |-> TheBlock, commandSelection |-> NoPath]

\* The block changes, is saved as its JSON and what is selected is looked up in it.
Change(block, target, path) ==
  /\ ~formError
  /\ state' = [form |-> block, text |-> txBlockJsonFromFormModel(block), formError |-> FALSE,
               selectedTarget |-> txWorkflowNormalizeCommandSelection(block, target),
               commandSelection |-> path]

changeFormModel(block) == Change(block, selectedTarget, commandSelection)

\* changeCommands: the steps of one scope change and the one at an index is selected;
\* an empty scope gives way to the step that holds it.
changeCommands(scope, block, index) ==
  LET steps == txStepReplaceScope(form.steps, scope, block.steps)
      next == IF scope = <<>> THEN block ELSE [form EXCEPT !.steps = steps]
      shown == IF block.steps # <<>>
               THEN Append(scope, IF index < Len(block.steps) THEN index ELSE Len(block.steps))
               ELSE IF scope # <<>> THEN Front(scope) ELSE NoPath
  IN Change(next, IF shown = NoPath THEN TheBlock ELSE [step |-> shown[1], operation |-> "run"],
            shown)

Room(n) == Cardinality(StepPaths(form.steps)) + n <= MaxSteps

addCommand(scope, kind) ==
  LET block == ScopeModel(scope) IN
  Room(1) /\ changeCommands(scope, txBlockAddStep(block, kind), Len(block.steps) + 1)

moveCommand(path, delta) ==
  LET scope == Front(path) to == Last(path) + delta block == ScopeModel(scope) IN
  /\ to \in DOMAIN block.steps
  /\ changeCommands(scope, txBlockMoveStep(block, Last(path), to), to)

duplicateCommand(path) ==
  /\ Room(Cardinality(StepPaths(<<txStepAtPath(form.steps, path)>>)))
  /\ changeCommands(Front(path), txBlockDuplicateStep(ScopeModel(Front(path)), Last(path)),
                    Last(path) + 1)

removeCommand(path) ==
  changeCommands(Front(path), txBlockRemoveStep(ScopeModel(Front(path)), Last(path)), Last(path))

splitCommand(path) ==
  LET step == txStepAtPath(form.steps, path) IN
  /\ txBlockCanSplitStep(step)
  /\ Room(Len(step.content.run.command) - 1)
  /\ changeCommands(Front(path), txBlockSplitStep(ScopeModel(Front(path)), Last(path)), Last(path))

\* changeStepControl: the branches of a choice.
changeStepControl(path) ==
  LET scope == Front(path) n == Last(path) block == ScopeModel(scope) choice == block.steps[n]
      Changed(next) == changeCommands(scope, [block EXCEPT !.steps[n] = next], n)
  IN /\ choice.kind = "choice"
     /\ \/ Len(choice.kids) < 3 /\ Changed(AddChoiceBranch(choice, 1))
        \/ \E b \in 1 .. Len(choice.kids) - 1 :
             \/ b + 1 < Len(choice.kids) /\ Changed(MoveChoiceBranch(choice, b, 1))
             \/ Len(choice.kids) > 2 /\ Changed(RemoveChoiceBranch(choice, b))

-----------------------------------------------------------------------------
(***************************************************************************)
(* The canvas of the block: a row for each command and each control step,    *)
(* the sequences of a control step inside its row.                           *)
(***************************************************************************)
KindOfContent(op) == IF op.kind = "flow" \/ op.prompts THEN "interactive" ELSE "command"
txBlockOperationKindText(op) ==
  IF op.kind = "flow" \/ "interactive" \in op.editor \/ op.prompts THEN "interactive" ELSE "command"
txBlockOperationSummaryText(op) ==
  IF op.kind # "flow" THEN op.command ELSE IF op.flow = <<>> THEN <<>> ELSE op.flow[1]
Card(op) == [kind |-> txBlockOperationKindText(op), summary |-> txBlockOperationSummaryText(op)]

stepRow(block, n) ==
  LET step == block.steps[n] IN
  [kind |-> IF step.kind = "block" THEN txBlockOperationKindText(step.content.run) ELSE step.kind,
   summary |-> IF step.kind = "block" THEN txBlockOperationSummaryText(step.content.run) ELSE <<>>,
   rollback |-> IF block.policy.kind = "per_step" /\ step.content.rollback # NoOperation
                THEN {Card(step.content.rollback)} ELSE {}]
RowAt(path) == stepRow(ScopeModel(Front(path)), Last(path))

\* A card for the rollback lies next to each command where commands are undone one by one,
\* whether it has one or not.
rollbackCards ==
  {path \in StepPaths(form.steps) :
     /\ txStepAtPath(form.steps, path).kind = "block"
     /\ ScopeModel(Front(path)).policy.kind = "per_step"}

\* The row that is drawn as selected, and the tools that are enabled on a row.
selectedRows == {path \in StepPaths(form.steps) : path = activePath}
CommandTools(path) ==
  LET count == Len(txStepScope(form.steps, Front(path))) IN
  {"duplicate", "delete"}
    \cup (IF Last(path) > 1 THEN {"previous"} ELSE {})
    \cup (IF Last(path) < count THEN {"next"} ELSE {})
    \cup (IF txBlockStepSplitStatus(txStepAtPath(form.steps, path)) = "ready" THEN {"split"} ELSE {})

\* The title of the inspector.
txBlockCommandTitle ==
  LET path == IF activePath \in StepPaths(form.steps) THEN activePath ELSE <<activePath[1]>>
      step == txStepAtPath(form.steps, path)
  IN CASE selectedTarget.operation # "run" -> selectedTarget.operation
       [] selectedTarget.step = NoStep -> "block"
       [] OTHER -> IF step.kind = "block" THEN txBlockOperationKindText(step.content.run) ELSE step.kind

\* The heights that are reserved, so that nodes below can be placed: of a command by its
\* lines, of a control step by its sequences, of a sequence with room for a button.
Lines(command) == IF command = <<>> THEN 1 ELSE Len(command)
flowCommandRowHeight(command) == 24 + (Lines(command) - 1) * 16
Highest(heights) == FoldLeft(LAMBDA top, height : IF height > top THEN height ELSE top, 24, heights)
Total(heights) == FoldLeft(+, 0, heights)

RECURSIVE flowWorkflowCommandBodyHeight(_), flowWorkflowBlockHeight(_, _)
flowWorkflowCommandPairHeight(block, n) ==
  LET row == stepRow(block, n) undo == SetToSeq(row.rollback) IN
  IF block.steps[n].kind # "block" THEN flowWorkflowBlockHeight(block, block.steps[n])
  ELSE Highest(<<flowCommandRowHeight(row.summary)>>
                 \o [r \in DOMAIN undo |-> flowCommandRowHeight(undo[r].summary)])
flowWorkflowCommandBodyHeight(block) ==
  LET rows == [n \in DOMAIN block.steps |-> flowWorkflowCommandPairHeight(block, n) + 4] IN
  Highest(<<(IF rows = <<>> THEN 24 ELSE Total(rows) - 4),
            (IF block.policy.kind = "whole_resource"
             THEN flowCommandRowHeight(txBlockOperationSummaryText(block.policy.rollback)) ELSE 0)>>)
nestedHeight(block, kid) == flowWorkflowCommandBodyHeight(NestedModel(block, kid.blocks)) + 44
flowWorkflowBlockHeight(block, step) ==
  58 + 24 + (IF step.kind = "choice" THEN 44 ELSE 0) + (Len(step.kids) - 1) * 8
    + Total([b \in DOMAIN step.kids |->
        42 + (IF step.kind = "choice" THEN 8 ELSE 0) + (IF step.kids[b].id # 0 THEN 40 ELSE 0)
          + nestedHeight(block, step.kids[b])])

\* What is drawn: the lines of a command in its frame; of a control step its head, then for
\* each branch a frame with its name, its condition and its sequence, then a button.
drawnCommand(command) == 2 + 6 + 16 * Lines(command)
drawnBranch(step, branch, height) ==
  2 + 16 + (IF step.kind = "loop" THEN 16 ELSE 24) + (IF branch.id # 0 THEN 8 + 32 ELSE 0) + 8 + height
drawnControl(block, step) ==
  2 + 16 + 32 + 6 + 18 + 8
    + Total([b \in DOMAIN step.kids |-> drawnBranch(step, step.kids[b], nestedHeight(block, step.kids[b]))])
    + (Len(step.kids) - 1) * 8 + (IF step.kind = "choice" THEN 8 + 32 ELSE 0)
drawnBody(block) ==
  12 + 32 + IF block.steps = <<>> THEN 24
            ELSE Total([n \in DOMAIN block.steps |-> flowWorkflowCommandPairHeight(block, n)])
                   + (Len(block.steps) - 1) * 4

-----------------------------------------------------------------------------
\* The inspector changes what it shows: the block, its rollback, or an operation of the
\* step that is opened, in the scope that step is in.
Panel ==
  CASE formError -> "none"
    [] selectedTarget.operation = "whole_resource_rollback" -> "whole"
    [] selectedTarget.step = NoStep -> "root"
    [] txStepAtPath(form.steps, Opened).kind # "block" -> "control"
    [] OTHER -> selectedTarget.operation

WithSteps(scope, steps) == [form EXCEPT !.steps = txStepReplaceScope(@, scope, steps)]
txBlockPatchStep(path, content) ==
  changeFormModel(WithSteps(Front(path),
    [txStepScope(form.steps, Front(path)) EXCEPT ![Last(path)].content = content]))

ChangedOperations(op) ==
  {changeTransactionOperationEditorKind(op, kind) : kind \in {"command", "interactive"}} \cup
  IF op.kind = "flow" THEN {}
  ELSE {[op EXCEPT !.command = command, !.editor = {transactionOperationEditorKind(op)}] :
          command \in Commands}

EditRun ==
  /\ Panel = "run"
  /\ LET content == txStepAtPath(form.steps, Opened).content IN
     \E op \in ChangedOperations(content.run) : txBlockPatchStep(Opened, [content EXCEPT !.run = op])

EditRollback ==
  /\ Panel = "rollback"
  /\ LET content == txStepAtPath(form.steps, Opened).content IN
     \/ \E op \in ChangedOperations(IF content.rollback = NoOperation THEN txBlockOperationDraft
                                    ELSE content.rollback) :
          txBlockPatchStep(Opened, [content EXCEPT !.rollback = op])
     \/ txBlockPatchStep(Opened, [content EXCEPT !.rollback = NoOperation, !.onFailure = FALSE])
     \/ /\ content.rollback # NoOperation
        /\ \E onFailure \in BOOLEAN :
             txBlockPatchStep(Opened, [content EXCEPT !.onFailure = onFailure])

EditWholeRollback ==
  /\ Panel = "whole"
  /\ \E op \in ChangedOperations(form.policy.rollback) :
       changeFormModel([form EXCEPT !.policy.rollback = op])

\* The inspector of the block itself, shown when no step is.
EditRoot ==
  /\ Panel = "root"
  /\ \E next \in
       {[form EXCEPT !.policy = Policy(kind,
                       IF kind = "whole_resource" THEN txBlockOperationDraft ELSE NoOperation,
                       IF kind = "whole_resource" THEN {1} ELSE {})] :
          kind \in Policies \ {form.policy.kind}} \cup
       {[form EXCEPT !.policy.trigger = {at}] :
          at \in IF form.policy.kind = "whole_resource" THEN 1 .. MaxSteps ELSE {}} \cup
       {[form EXCEPT !.failFast = ~@]} :
       changeFormModel(next)

selectCommand(path, operation) ==
  /\ operation = "rollback" => path \in rollbackCards
  /\ state' = [state EXCEPT !.selectedTarget = [step |-> path[1], operation |-> operation],
                            !.commandSelection = path]

SelectBlock(operation) ==
  /\ operation = "whole_resource_rollback" => form.policy.kind = "whole_resource"
  /\ state' = [state EXCEPT !.selectedTarget = [step |-> NoStep, operation |-> operation]]

\* A block is typed as JSON, or loaded.
changeJson ==
  \E json \in Loaded \cup {Invalid} :
    LET read == txBlockEditorFormStateFromJsonText(json) IN
    /\ json # text
    /\ state' = [state EXCEPT
         !.form = read.formModel, !.formError = read.formError, !.text = json,
         !.selectedTarget = txWorkflowNormalizeCommandSelection(read.formModel, @)]

Next ==
  \/ \E scope \in ScopePaths(form.steps), kind \in {"block", "loop", "choice"} :
       addCommand(scope, kind)
  \/ \E path \in StepPaths(form.steps) :
       \/ "previous" \in CommandTools(path) /\ moveCommand(path, -1)
       \/ "next" \in CommandTools(path) /\ moveCommand(path, 1)
       \/ duplicateCommand(path)
       \/ removeCommand(path)
       \/ "split" \in CommandTools(path) /\ splitCommand(path)
       \/ changeStepControl(path)
       \/ \E operation \in {"run", "rollback"} : selectCommand(path, operation)
  \/ \E operation \in {"run", "whole_resource_rollback"} : SelectBlock(operation)
  \/ EditRun \/ EditRollback \/ EditWholeRollback \/ EditRoot \/ changeJson

Spec == Init /\ [][Next]_state

-----------------------------------------------------------------------------
\* The selection has its type: a step that is selected is there, and a rollback that
\* is shown is one the block has.
TypeOK ==
  /\ formError => form = NoForm
  /\ form.policy.kind \in Policies
  /\ selectedTarget.step \in {NoStep} \cup DOMAIN form.steps
  /\ selectedTarget.operation = "rollback" => form.policy.kind = "per_step"
  /\ selectedTarget.operation = "whole_resource_rollback" => form.policy.kind = "whole_resource"

\* The commands and control steps of a tree in the order they are executed in: the plain
\* ones, with what is in the branches of the others in their place.
RECURSIVE StepsInOrder(_)
StepsInOrder(steps) ==
  FlattenSeq([n \in DOMAIN steps |->
    IF txControlKind(steps[n].kind) = "block" THEN <<steps[n].content>>
    ELSE FlattenSeq([b \in DOMAIN steps[n].kids |-> StepsInOrder(steps[n].kids[b].blocks)])])

\* What a block as JSON gives is in another one: its policy, if it is one there is, with
\* its trigger and its rollback, its flag, and each of its commands in its place, with
\* what undoes it, and nothing undoes a command that nothing has undone.
Executes(op) == <<OperationKind(op), op.command, op.prompts, op.flow>>
IsKept(json, written) ==
  LET before == StepsInOrder(json.steps) after == StepsInOrder(written.steps) IN
  /\ json.policy.kind \in Policies => written.policy.kind = json.policy.kind
  /\ json.policy.trigger \subseteq written.policy.trigger
  /\ Executes(json.policy.rollback) = Executes(written.policy.rollback)
  /\ json.failFast \subseteq written.failFast
  /\ Len(after) = Len(before)
  /\ \A n \in DOMAIN before :
       /\ Executes(after[n].run) = Executes(before[n].run)
       /\ Executes(after[n].rollback) = Executes(before[n].rollback)
       /\ after[n].rollback = NoOperation <=> before[n].rollback = NoOperation
       /\ TRUE \in after[n].onFailure <=> TRUE \in before[n].onFailure

\* What the form is written to is what its text is read as, so that nothing that is edited
\* stays out of the text; the defaults that are written change nothing the text gives; and
\* what is written reads back as the same once more.  A text whose operations cannot be
\* read shows no form, rather than a part of one.
ViewsAgree ==
  LET written == txBlockJsonFromFormModel(form)
      Rewritten(json) == txBlockJsonFromFormModel(txBlockFormModelFromJson(json))
  IN ~formError => /\ written = Rewritten(text)
                   /\ IsKept(text, written)
                   /\ Rewritten(written) = written

\* The canvas shows the block that is edited: a row, and the title of the inspector, name
\* the kind of editor the inspector shows for it; the row that is drawn as selected is the
\* step the inspector changes, and a rollback that is edited has its card; what is drawn
\* fits into the height that is reserved for it.
CanvasShowsBlock ==
  /\ \A path \in StepPaths(form.steps) :
       LET step == txStepAtPath(form.steps, path) row == RowAt(path) IN
       step.kind = "block" =>
         /\ row.kind = transactionOperationEditorKind(step.content.run)
         /\ \A card \in row.rollback : card.kind = transactionOperationEditorKind(step.content.rollback)
  /\ form.policy.kind = "whole_resource" =>
       Card(form.policy.rollback).kind = transactionOperationEditorKind(form.policy.rollback)
  /\ selectedTarget.step # NoStep =>
       /\ selectedRows \subseteq {Opened}
       /\ selectedTarget.operation = "run" => txBlockCommandTitle = RowAt(Opened).kind
       /\ selectedTarget.operation = "rollback" => Opened \in rollbackCards
  /\ \A scope \in ScopePaths(form.steps) :
       LET block == ScopeModel(scope) IN
       /\ drawnBody(block) <= flowWorkflowCommandBodyHeight(block) + 44
       /\ \A n \in DOMAIN block.steps :
            LET row == stepRow(block, n) height == flowWorkflowCommandPairHeight(block, n) IN
            IF block.steps[n].kind = "block"
            THEN \A command \in {row.summary} \cup {card.summary : card \in row.rollback} :
                   drawnCommand(command) <= height
            ELSE drawnControl(block, block.steps[n]) <= height

\* The lines of the commands of a block in the order they are executed in.
Script(steps) ==
  LET order == StepsInOrder(steps) IN FlattenSeq([n \in DOMAIN order |-> order[n].run.command])

\* A split changes neither what a block executes nor the step that triggers its rollback.
KeepsTheBlock ==
  (\E path \in StepPaths(form.steps) : splitCommand(path)) =>
       /\ Script(state'.form.steps) = Script(form.steps)
       /\ \A at \in form.policy.trigger \cap DOMAIN form.steps, next \in state'.form.policy.trigger :
            Script(SubSeq(state'.form.steps, 1, next - 1)) = Script(SubSeq(form.steps, 1, at - 1))
=============================================================================
