------------------------ MODULE OrchestrationEditor ------------------------
(***************************************************************************)
(* The editor of an orchestration plan: the plan as a canvas of stages, jobs *)
(* and the blocks of their workflows, and as JSON text in a dialog above it. *)
(*                                                                          *)
(* plan is the form, text the JSON that is executed and saved, error whether *)
(* an error is shown, selection what the inspector edits: a stage or a job   *)
(* by its position, a block by its identifier.  canvases holds for each job  *)
(* the source its blocks were read from and the identifiers they have since. *)
(* Jobs that name a template show its rendered workflow: previews is what is *)
(* shown at each position, batch the answers to the questions that were      *)
(* asked for the plan as it is, cache the answers that are kept.             *)
(***************************************************************************)
EXTENDS Requests, SequencesExt

CONSTANTS Names, Vars, NoVars,     \* templates and the variables they are rendered with
          Settings, NewSettings,   \* the settings of a plan, a stage or a job
          Parallel,                \* those of stages whose jobs are executed in parallel
          Targets,                 \* the groups, labels and connections of a job
          Contents, NewContent,    \* the blocks of workflows
          BlockHeight,             \* of a block on the canvas, whatever its commands are
          Texts,                   \* bound: the plans that are typed, imported or loaded
          MaxStages, MaxJobs, MaxBlocks   \* bounds of what is added on the canvas

OrchestrationEditorAssumption ==
  NoVars \in Vars /\ Parallel \subseteq Settings /\ NewSettings \in Settings \ {"no text"} /\ NewContent \in Contents
  /\ BlockHeight \in Nat \ {0}

VARIABLES state, calls

plan == state.plan
selection == state.selection
canvases == state.canvases

-----------------------------------------------------------------------------
(***************************************************************************)
(* Plans.  A job runs a workflow of its own or a template: an action has a   *)
(* set of at most one workflow and of at most one name.                      *)
(***************************************************************************)
Inline(workflows) ==
  [source |-> "workflow_json", workflow |-> workflows, name |-> {}, vars |-> NoVars]
Template(names) ==
  [source |-> "workflow_template_name", workflow |-> {}, name |-> names, vars |-> NoVars]

\* Until a name is chosen or a workflow typed a plan cannot be read back.
orchestrationValidateActionJson(action) == Cardinality(action.workflow) + Cardinality(action.name) = 1

orchestrationCreateJobModel(id) ==
  [id |-> id, settings |-> NewSettings, targets |-> {}, action |-> Inline({<<>>})]
orchestrationCreateStageModel == [settings |-> NewSettings, jobs |-> <<>>]
defaultOrchestrationPlanPayload ==
  [settings |-> NewSettings, stages |-> <<orchestrationCreateStageModel>>]

Keys(p) == UNION {{s} \X DOMAIN p.stages[s].jobs : s \in DOMAIN p.stages}
JobAt(p, key) == p.stages[key[1]].jobs[key[2]]
JobIds(p) == {JobAt(p, key).id : key \in Keys(p)}
JobOf(p, id) == JobAt(p, CHOOSE key \in Keys(p) : JobAt(p, key).id = id)

\* The jobs of a sequence of stages with new identifiers, in their order.
Numbered(stages, from) ==
  LET Before(s) == FoldLeft(LAMBDA n, stage : n + Len(stage.jobs), 0, SubSeq(stages, 1, s - 1))
  IN [s \in DOMAIN stages |->
       [stages[s] EXCEPT !.jobs = [j \in DOMAIN @ |-> [@[j] EXCEPT !.id = from + Before(s) + j - 1]]]]

orchestrationPlanFormModelFromJson(json, from) == [json EXCEPT !.stages = Numbered(@, from)]

\* Identifiers are not written.
orchestrationJobJsonFromModel(job) == [job EXCEPT !.id = 0]
orchestrationStageJsonFromModel(stage) ==
  [stage EXCEPT !.jobs = [j \in DOMAIN @ |-> orchestrationJobJsonFromModel(@[j])]]
orchestrationPlanFormModelToJsonText(p) ==
  [p EXCEPT !.stages = [s \in DOMAIN @ |-> orchestrationStageJsonFromModel(@[s])]]

\* What can be typed that is no plan: nothing, and a plan with a job that does not read.
Empty == [settings |-> "no text", stages |-> <<>>]
Readable(json) ==
  json # Empty /\ \A key \in Keys(json) : orchestrationValidateActionJson(JobAt(json, key).action)

-----------------------------------------------------------------------------
(***************************************************************************)
(* The previews of templates.                                               *)
(***************************************************************************)
TemplateKeys(p) == {key \in Keys(p) : JobAt(p, key).action.name # {}}
NameAt(p, key) == CHOOSE name \in Names : name \in JobAt(p, key).action.name
Wanted(p, key) == <<NameAt(p, key), JobAt(p, key).action.vars>>

Preview(wanted, status) == [wanted |-> wanted, status |-> status]
Call(key, wanted) ==
  [op |-> "preview", key |-> key, wanted |-> wanted, current |-> TRUE, latest |-> TRUE]

SupersedeAll(requests, key, wanted) ==
  Post([i \in DOMAIN requests |-> [requests[i] EXCEPT !.latest = FALSE]], Call(key, wanted))

\* A request for a template supersedes those for the same template, whatever their
\* variables: the generations are counted by name.
previewTemplate(requests, key, wanted) ==
  Post([i \in DOMAIN requests |->
         [requests[i] EXCEPT !.latest = @ /\ requests[i].wanted[1] # wanted[1]]],
       Call(key, wanted))

Questions(p) == {key \in TemplateKeys(p) : Wanted(p, key) \notin DOMAIN state.cache}
InOrder(keys) == SortSeq(SetToSeq(keys), LAMBDA k, l : k[1] < l[1] \/ (k[1] = l[1] /\ k[2] < l[2]))
Asked(p) ==
  FoldLeft(LAMBDA requests, key : previewTemplate(requests, key, Wanted(p, key)),
           [i \in DOMAIN calls |-> [calls[i] EXCEPT !.current = FALSE]],
           InOrder(Questions(p)))

\* A plan that changes shows all its previews as loading until all are answered;
\* answers that are kept are there at once.
Answers(p) ==
  [key \in TemplateKeys(p) |->
    IF key \in Questions(p) THEN "waiting" ELSE state.cache[Wanted(p, key)]]
Answered(batch) == \A key \in DOMAIN batch : batch[key] # "waiting"
Loading(p) == [key \in TemplateKeys(p) |-> Preview(Wanted(p, key), "loading")]
PreviewsKept(p, batch) ==
  [key \in TemplateKeys(p) |->
    IF Answered(batch) THEN Preview(Wanted(p, key), batch[key])
    ELSE IF key \in DOMAIN state.previews THEN state.previews[key]
    ELSE Preview(Wanted(p, key), "loading")]
Shown(p, batch) ==
  IF Answered(batch) THEN [key \in DOMAIN batch |-> Preview(Wanted(p, key), batch[key])]
  ELSE Loading(p)

-----------------------------------------------------------------------------
(***************************************************************************)
(* The canvases of the workflows and the selection.                         *)
(***************************************************************************)
\* What the blocks of a job are read from; a rendered template has one block.
Source(p, previews, key) ==
  LET action == JobAt(p, key).action IN
  IF action.name = {} THEN [template |-> {}, blocks |-> action.workflow]
  ELSE [template |-> action.name,
        blocks |-> IF previews[key].status = "ready" THEN {<<previews[key].wanted>>} ELSE {<<>>}]
BlocksOf(source) == IF source.blocks = {} THEN <<>> ELSE CHOOSE blocks \in source.blocks : TRUE

CanvasesKept(p, previews, kept, drawn) ==
  [id \in JobIds(p) |->
    LET source == Source(p, previews, CHOOSE k \in Keys(p) : JobAt(p, k).id = id) IN
    IF id \in DOMAIN kept THEN kept[id]
    ELSE [source |-> source, ids |-> [n \in DOMAIN BlocksOf(source) |-> <<id, drawn, n>>]]]

\* The canvas of a job is read again, with new identifiers for its blocks, when its
\* source is not the one the canvas has written itself.
models(p, previews, kept, drawn) ==
  [id \in JobIds(p) |->
    LET key == CHOOSE k \in Keys(p) : JobAt(p, k).id = id
        source == Source(p, previews, key)
    IN IF id \in DOMAIN kept /\ kept[id].source = source THEN kept[id]
       ELSE [source |-> source, ids |-> [n \in DOMAIN BlocksOf(source) |-> <<id, drawn, n>>]]]

NoSelection == [kind |-> "none"]
Stage(s) == [kind |-> "stage", stage |-> s]
Job(s, j) == [kind |-> "job", stage |-> s, job |-> j]
Block(s, j, id) == [kind |-> "workflow-block", stage |-> s, job |-> j, id |-> id]

PointsInto(p, canvas, wanted) ==
  CASE wanted.kind = "none" -> TRUE
    [] wanted.kind = "stage" -> wanted.stage \in DOMAIN p.stages
    [] wanted.kind = "job" -> <<wanted.stage, wanted.job>> \in Keys(p)
    [] wanted.kind = "workflow-block" ->
         /\ <<wanted.stage, wanted.job>> \in Keys(p)
         /\ wanted.id \in ToSet(canvas[JobAt(p, <<wanted.stage, wanted.job>>).id].ids)

\* A selection that points nowhere in the plan is given up.
orchestrationNormalizeFlowSelection(p, canvas, wanted) ==
  IF PointsInto(p, canvas, wanted) THEN wanted ELSE NoSelection

\* The state once the effects of the canvas have run for another plan: its previews
\* are asked for, its canvases and its selection follow.
Applied(p, json, kept, wanted, drawn) ==
  LET batch == Answers(p)
      canvas == models(p, Shown(p, batch), kept, state.nextId)
  IN /\ Cardinality(Questions(p)) <= Cardinality(Free(calls))
     /\ calls' = Asked(p)
     /\ state' = [state EXCEPT
          !.plan = p, !.text = json, !.error = FALSE, !.batch = batch,
          !.previews = Shown(p, batch), !.canvases = canvas,
          !.selection = orchestrationNormalizeFlowSelection(p, canvas, wanted),
          !.nextId = @ + drawn + 1]

Init ==
  LET p == orchestrationPlanFormModelFromJson(defaultOrchestrationPlanPayload, 1) IN
  /\ state = [plan |-> p, text |-> orchestrationPlanFormModelToJsonText(p), error |-> FALSE,
              selection |-> NoSelection, nextId |-> 1, canvases |-> [id \in {} |-> {}],
              previews |-> [key \in {} |-> {}], batch |-> [key \in {} |-> {}],
              cache |-> [wanted \in {} |-> {}]]
  /\ calls = NoCalls

\* changeFormModel: the form is written to the text.
changeFormModel(p, wanted, drawn) ==
  Applied(p, orchestrationPlanFormModelToJsonText(p), canvases, wanted, drawn)

-----------------------------------------------------------------------------
(***************************************************************************)
(* The graph of the plan: its nodes, the arrows between them, each from a    *)
(* handle of one node to a handle of another, and where the nodes lie.            *)
(***************************************************************************)
StageNodes == {<<"stage", s>> : s \in DOMAIN plan.stages}
JobNodes == {<<"job", key[1], key[2]>> : key \in Keys(plan)}
CanvasAt(key) == canvases[JobAt(plan, key).id]
BlockNodes ==
  UNION {{<<"block", key[1], key[2], n>> : n \in DOMAIN CanvasAt(key).ids} : key \in Keys(plan)}

\* Stages are inserted behind a stage, or where there is none yet.
InsertNodes == IF plan.stages = <<>> THEN {<<"insert", 0>>} ELSE {<<"insert", s>> : s \in DOMAIN plan.stages}
Nodes == StageNodes \cup JobNodes \cup BlockNodes \cup InsertNodes

Arrow(source, out, target, in) == [source |-> source, out |-> out, target |-> target, in |-> in]

stageEdges ==
  LET count == Len(plan.stages) IN
  {Arrow(<<"stage", s>>, "stage-output", <<"insert", s>>, "target") : s \in 1 .. count}
    \cup {Arrow(<<"insert", s>>, "source", <<"stage", s + 1>>, "stage-input") : s \in 1 .. count - 1}

isParallel(s) == plan.stages[s].settings \in Parallel

\* Jobs in parallel lead out of their stage one by one, others in a chain.
jobEdges(s) ==
  LET count == Len(plan.stages[s].jobs)
      Output(j) == Arrow(<<"job", s, j>>, "stage-out", <<"stage", s>>, "jobs-output")
  IN IF isParallel(s) THEN {Output(j) : j \in 1 .. count}
     ELSE {Arrow(<<"job", s, j>>, "serial-out", <<"job", s, j + 1>>, "serial-in") : j \in 1 .. count - 1}
            \cup {Output(j) : j \in {count} \ {0}}

workflowBlockEdges(s, j) ==
  {Arrow(<<"block", s, j, n>>, "block-output", <<"block", s, j, n + 1>>, "block-input") :
     n \in 1 .. Len(CanvasAt(<<s, j>>).ids) - 1}

graphEdges ==
  stageEdges \cup UNION {jobEdges(s) : s \in DOMAIN plan.stages}
    \cup UNION {workflowBlockEdges(key[1], key[2]) : key \in Keys(plan)}

\* The handles that a node draws; an arrow to one that is not there is not drawn.
Given(handle, condition) == IF condition THEN {handle} ELSE {}
stageInsertHandles(index) ==
  Given("target", Len(plan.stages) > 0) \cup Given("source", index < Len(plan.stages))
JobHandlesOfSerial(s, j) ==
  (IF isParallel(s) THEN {} ELSE {"serial-in", "serial-out"})
    \cup Given("stage-out", j = Len(plan.stages[s].jobs))
jobHandles(s, j) ==
  (IF isParallel(s) THEN {} ELSE {"serial-in", "serial-out"})
    \cup Given("stage-out", isParallel(s) \/ j = Len(plan.stages[s].jobs))
blockHandles(s, j, n) ==
  Given("block-input", n > 1) \cup Given("block-output", n < Len(CanvasAt(<<s, j>>).ids))
HandlesOf(node) ==
  CASE node[1] = "stage" -> {"stage-input", "jobs-output", "stage-output"}
    [] node[1] = "insert" -> stageInsertHandles(node[2])
    [] node[1] = "job" -> jobHandles(node[2], node[3])
    [] node[1] = "block" -> blockHandles(node[2], node[3], node[4])

\* Blocks lie below each other in their job, jobs in their stage, and below the last of
\* them there is room for a button that adds another.
SumOver(items, F(_)) == FoldLeft(LAMBDA sum, item : sum + F(item), 0, items)
canAddBlock(key) == JobAt(plan, key).action.name = {}
blockTop(n) == 136 + (n - 1) * (BlockHeight + 12)
groupHeight(key) ==
  LET count == Len(CanvasAt(key).ids) IN
  (IF count = 0 THEN 136 + 72 ELSE blockTop(count) + BlockHeight) + 18
    + IF canAddBlock(key) THEN 44 ELSE 0
jobTop(s, j) == 92 + SumOver([k \in 1 .. j - 1 |-> <<s, k>>], LAMBDA key : groupHeight(key) + 28)
stageHeight(s) ==
  LET jobs == [j \in DOMAIN plan.stages[s].jobs |-> <<s, j>>]
      gaps == IF jobs = <<>> THEN 0 ELSE (Len(jobs) - 1) * 28
      height == 92 + SumOver(jobs, groupHeight) + gaps + 56
  IN IF height < 220 THEN 220 ELSE height

\* The nodes that are drawn as selected: the job of a block with the block.
selectedNodes ==
  CASE selection.kind = "none" -> {}
    [] selection.kind = "stage" -> {<<"stage", selection.stage>>}
    [] selection.kind \in {"job", "workflow-block"} ->
         {<<"job", selection.stage, selection.job>>}
           \cup {node \in BlockNodes : selection.kind = "workflow-block"
                   /\ CanvasAt(<<node[2], node[3]>>).ids[node[4]] = selection.id}

-----------------------------------------------------------------------------
(***************************************************************************)
(* The operations on stages and jobs.  What is added, copied or moved is     *)
(* selected, and after a removal its neighbour.                              *)
(***************************************************************************)
Stages == plan.stages
Jobs(s) == Stages[s].jobs
WithStages(stages) == [plan EXCEPT !.stages = stages]
WithJobs(s, jobs) == [plan EXCEPT !.stages[s].jobs = jobs]
WithJob(s, j, job) == [plan EXCEPT !.stages[s].jobs[j] = job]
Moved(items, from, to) == InsertAt(RemoveAt(items, from), to, items[from])
Copied(items, index, item) == InsertAt(items, index + 1, item)
Before(index) == IF index = 1 THEN 1 ELSE index - 1

insertStage(s) ==
  /\ Len(Stages) < MaxStages
  /\ changeFormModel(WithStages(InsertAt(Stages, s, orchestrationCreateStageModel)), Stage(s), 0)

\* A copy of a stage has jobs of its own.
duplicateStage(s) ==
  /\ Len(Stages) < MaxStages
  /\ LET copy == Numbered(<<Stages[s]>>, state.nextId)[1] IN
     changeFormModel(WithStages(Copied(Stages, s, copy)), Stage(s + 1), Len(copy.jobs))

moveStage(s, target) ==
  changeFormModel(WithStages(Moved(Stages, s, target)), Stage(target), 0)

\* The stages that are left are counted: the last one is selected only by hand.
removeStage(s) ==
  changeFormModel(WithStages(RemoveAt(Stages, s)),
                  IF Len(Stages) - 1 > 1 THEN Stage(Before(s)) ELSE NoSelection, 0)

addJob(s) ==
  /\ Len(Jobs(s)) < MaxJobs
  /\ changeFormModel(WithJobs(s, Append(Jobs(s), orchestrationCreateJobModel(state.nextId))),
                     Job(s, Len(Jobs(s)) + 1), 1)

duplicateJob(s, j) ==
  /\ Len(Jobs(s)) < MaxJobs
  /\ changeFormModel(WithJobs(s, Copied(Jobs(s), j, [Jobs(s)[j] EXCEPT !.id = state.nextId])),
                     Job(s, j + 1), 1)

moveJob(s, j, target) ==
  changeFormModel(WithJobs(s, Moved(Jobs(s), j, target)), Job(s, target), 0)

removeJobsFrom(s, j) ==
  changeFormModel(WithJobs(s, SubSeq(Jobs(s), 1, j - 1)), Stage(s), 0)

removeJob(s, j) ==
  changeFormModel(WithJobs(s, RemoveAt(Jobs(s), j)),
                  IF Len(Jobs(s)) - 1 > 1 THEN Job(s, Before(j)) ELSE Stage(s), 0)

\* The canvas keeps what is selected through a change of settings.
Patch(p) == p # plan /\ changeFormModel(p, selection, 0)
orchestrationChangeRoot(settings) == Patch([plan EXCEPT !.settings = settings])
orchestrationPatchStage(s, settings) == Patch([plan EXCEPT !.stages[s].settings = settings])
orchestrationPatchJob(s, j, settings) ==
  Patch(WithJob(s, j, [Jobs(s)[j] EXCEPT !.settings = settings]))

replaceStringList(s, j, targets) ==
  Patch(WithJob(s, j, [Jobs(s)[j] EXCEPT !.targets = targets]))

-----------------------------------------------------------------------------
(***************************************************************************)
(* The action of a job.                                                     *)
(***************************************************************************)
orchestrationPatchTxWorkflowAction(s, j, action) == Patch(WithJob(s, j, [Jobs(s)[j] EXCEPT !.action = action]))

\* Another source starts with nothing chosen.
setSource(s, j, source) ==
  orchestrationPatchTxWorkflowAction(s, j,
    IF source = "workflow_json" THEN Inline({}) ELSE Template({}))

setTemplateName(s, j, names) ==
  orchestrationPatchTxWorkflowAction(s, j, [Jobs(s)[j].action EXCEPT !.name = names])

setWorkflowVars(s, j, vars) ==
  orchestrationPatchTxWorkflowAction(s, j, [Jobs(s)[j].action EXCEPT !.vars = vars])

\* JSON of a workflow that is typed in the inspector: no text is no workflow.
setJsonText(s, j, workflows) ==
  orchestrationPatchTxWorkflowAction(s, j, [Jobs(s)[j].action EXCEPT !.workflow = workflows])

\* Text that does not read leaves the plan, which is written again, and shows an error.
setUnreadableJsonText ==
  /\ ~(state.error /\ state.text = orchestrationPlanFormModelToJsonText(plan))
  /\ state' = [state EXCEPT !.text = orchestrationPlanFormModelToJsonText(plan), !.error = TRUE]
  /\ UNCHANGED calls

OfTemplate(s, j) == Jobs(s)[j].action.source = "workflow_template_name"

\* OrchestrationTxWorkflowActionEditor: what the inspector of a job offers.
EditAction(s, j) ==
  \/ setSource(s, j, IF OfTemplate(s, j) THEN "workflow_json" ELSE "workflow_template_name")
  \/ /\ OfTemplate(s, j)
     /\ \/ \E names \in {{}} \cup {{name} : name \in Names} : setTemplateName(s, j, names)
        \/ \E vars \in Vars : setWorkflowVars(s, j, vars)
  \/ /\ ~OfTemplate(s, j)
     /\ \/ \E workflows \in {{}, {<<>>}, {<<NewContent>>}} : setJsonText(s, j, workflows)
        \/ setUnreadableJsonText

\* A change on the canvas of a job: written to the job by its identifier, wherever
\* the job is by now, and only to the source the canvas was read from.
update(id, blocks, ids, wanted) ==
  LET key == CHOOSE k \in Keys(plan) : JobAt(plan, k).id = id
      p == WithJob(key[1], key[2], [JobAt(plan, key) EXCEPT !.action = Inline({blocks})])
      own == [source |-> [template |-> {}, blocks |-> {blocks}], ids |-> ids]
  IN /\ JobAt(plan, key).action.name = {}
     /\ canvases[id].source = Source(plan, state.previews, key)
     /\ Applied(p, orchestrationPlanFormModelToJsonText(p), [canvases EXCEPT ![id] = own],
                IF wanted = {} THEN Job(key[1], key[2])
                ELSE Block(key[1], key[2], CHOOSE b \in wanted : TRUE), 0)

\* The blocks of a job are added to and removed, and one that is selected is changed.
EditCanvas(id) ==
  LET blocks == BlocksOf(canvases[id].source) ids == canvases[id].ids new == <<id, state.nextId, 1>> IN
  \/ /\ Len(blocks) < MaxBlocks
     /\ update(id, Append(blocks, NewContent), Append(ids, new), {new})
  \/ \E n \in DOMAIN blocks :
       \/ LET left == RemoveAt(ids, n) IN
          update(id, RemoveAt(blocks, n), left, IF left = <<>> THEN {} ELSE {left[Before(n)]})
       \/ /\ selection.kind = "workflow-block" /\ selection.id = ids[n]
          /\ \E content \in Contents \ {blocks[n]} :
               update(id, [blocks EXCEPT ![n] = content], ids, {ids[n]})

-----------------------------------------------------------------------------
selectGraphNode(wanted) ==
  /\ wanted # selection
  /\ state' = [state EXCEPT !.selection = wanted]
  /\ UNCHANGED calls

\* Text that is typed in the dialog, imported or loaded from a template.  What does
\* not read leaves the form; no text at all is no error.
handleEditorJsonInput(json) ==
  /\ json # state.text
  /\ IF ~Readable(json)
     THEN /\ state' = [state EXCEPT !.text = json, !.error = json # Empty]
          /\ UNCHANGED calls
     ELSE LET p == orchestrationPlanFormModelFromJson(json, state.nextId) IN
          Applied(p, json, canvases, selection, Cardinality(Keys(p)))

\* The canvas keeps its place when another plan is put under it.
resetToDraft ==
  changeFormModel(orchestrationPlanFormModelFromJson(defaultOrchestrationPlanPayload, state.nextId),
                  selection, 0)

\* The answer to a preview.  One that another request for its template supersedes is
\* shown as still loading and not kept; a failure is kept whatever its place.
AnswerPreview(i) ==
  LET call == calls[i] IN
  \E status \in {"ready", "error"} :
    LET result == IF status = "ready" /\ ~call.latest THEN "loading" ELSE status
        batch == IF call.current THEN [state.batch EXCEPT ![call.key] = result] ELSE state.batch
        previews == IF call.current /\ Answered(batch) THEN Shown(plan, batch) ELSE state.previews
        canvas == models(plan, previews, canvases, state.nextId)
    IN /\ calls' = Settle(calls, i)
       /\ state' = [state EXCEPT
            !.batch = batch, !.previews = previews, !.canvases = canvas,
            !.selection = orchestrationNormalizeFlowSelection(plan, canvas, @),
            !.cache = IF result = "loading" THEN @ ELSE call.wanted :> result @@ @,
            !.nextId = @ + 1]

-----------------------------------------------------------------------------
\* An item is moved one place towards the first or the last, which it must not be yet.
canMove(index, step, items) == IF step = -1 THEN index > 1 ELSE index < Len(items)

\* What a node of the canvas offers when it is pointed at, and the inspector too.
StageTools(s) ==
  \/ duplicateStage(s) \/ removeStage(s)
  \/ \E step \in {-1, 1} : canMove(s, step, Stages) /\ moveStage(s, s + step)

JobTools(s, j) ==
  \/ duplicateJob(s, j) \/ removeJob(s, j)
  \/ \E step \in {-1, 1} : canMove(j, step, Jobs(s)) /\ moveJob(s, j, j + step)

\* The inspector: OrchestrationStageSettingsEditor or OrchestrationJobEditor, and the
\* operations of the canvas on what is selected.
InspectStage(s) ==
  \/ \E settings \in Settings : orchestrationPatchStage(s, settings)
  \/ StageTools(s)

InspectJob(s, j) ==
  \/ \E settings \in Settings : orchestrationPatchJob(s, j, settings)
  \/ \E targets \in SUBSET Targets : replaceStringList(s, j, targets)
  \/ EditAction(s, j)
  \/ JobTools(s, j)

Inspector ==
  \/ selection.kind = "stage" /\ InspectStage(selection.stage)
  \/ selection.kind = "job" /\ InspectJob(selection.stage, selection.job)

\* The nodes of the canvas have the same operations.
StageNode(s) ==
  \/ StageTools(s) \/ addJob(s)
  \/ selectGraphNode(Stage(s))

JobNode(s, j) ==
  \/ JobTools(s, j)
  \/ selectGraphNode(Job(s, j))
  \/ \E id \in ToSet(canvases[Jobs(s)[j].id].ids) : selectGraphNode(Block(s, j, id))
  \/ EditCanvas(Jobs(s)[j].id)

\* OrchestrationFlowCanvas.
Canvas ==
  \/ \E node \in InsertNodes : insertStage(node[2] + 1)
  \/ \E settings \in Settings : orchestrationChangeRoot(settings)
  \/ \E s \in DOMAIN Stages : StageNode(s) \/ \E j \in DOMAIN Jobs(s) : JobNode(s, j)
  \/ Inspector

Next ==
  \/ Canvas
  \/ \E json \in Texts \cup {Empty} : handleEditorJsonInput(json)
  \/ resetToDraft
  \/ \E i \in DOMAIN calls : AnswerPreview(i)

-----------------------------------------------------------------------------
Results == {"waiting", "loading", "ready", "error"}

\* What is held for positions, jobs and templates is held for those of the plan; the
\* canvas of a job has one identifier for each of its blocks.
TypeOK ==
  /\ DOMAIN calls \subseteq CallIds
  /\ \A i \in DOMAIN calls : calls[i].current => calls[i].key \in TemplateKeys(plan)
  /\ DOMAIN state.batch = TemplateKeys(plan) /\ DOMAIN state.previews = TemplateKeys(plan)
  /\ \A key \in TemplateKeys(plan) : state.batch[key] \in Results
  /\ DOMAIN canvases = JobIds(plan)
  /\ \A id \in JobIds(plan) : Len(canvases[id].ids) = Len(BlocksOf(canvases[id].source))

\* A preview that is shown is of the template and the variables the job at its place
\* has now, and the selection is a stage, a job or a block the plan has: no answer and
\* no change of the plan leaves the canvas with what was there before.
ShownIsOfPlan ==
  /\ \A key \in TemplateKeys(plan) : state.previews[key].wanted = Wanted(plan, key)
  /\ PointsInto(plan, canvases, selection)

\* A preview that is loading has a call in flight that will end it, or there is another
\* job of the same template, whose request has superseded it.
LoadingIsPending ==
  \A key \in TemplateKeys(plan) :
    state.previews[key].status = "loading" =>
      \/ \E i \in DOMAIN calls : calls[i].current
      \/ \E other \in TemplateKeys(plan) \ {key} : NameAt(plan, other) = NameAt(plan, key)

\* The plan that is shown is the one that the text reads as, or has been written to it, or
\* an error is shown, or there is no text; the blocks on a canvas are those of its job, which no other job shares.
ViewsAgree ==
  /\ Cardinality(JobIds(plan)) = Cardinality(Keys(plan))
  /\ LET written == orchestrationPlanFormModelToJsonText(plan) = state.text
     IN IF Readable(state.text) THEN written ELSE written \/ state.error \/ state.text = Empty
  /\ \A key \in Keys(plan) :
       canvases[JobAt(plan, key).id].source = Source(plan, state.previews, key)

\* The graph tells how the plan is executed: every arrow is drawn between two nodes, a
\* handle that is there for an arrow has one, every stage is reached from the one before
\* it and every job leads out of its stage; no node lies on another or outside of the one
\* it belongs to, and the selection is one node, or a block and its job.
GraphShowsPlan ==
  LET edges == graphEdges nodes == Nodes IN
  /\ \A e \in edges : /\ {e.source, e.target} \subseteq nodes
                       /\ e.out \in HandlesOf(e.source) /\ e.in \in HandlesOf(e.target)
  /\ \A node \in nodes : \A handle \in HandlesOf(node) \cap {"source", "stage-out", "block-input", "block-output"} :
       \E e \in edges : <<node, handle>> \in {<<e.source, e.out>>, <<e.target, e.in>>}
  /\ \A s \in DOMAIN plan.stages :
       LET jobs == DOMAIN plan.stages[s].jobs IN
       /\ \A j \in jobs : \E k \in jobs :
            k >= j /\ (isParallel(s) => k = j)
              /\ \E e \in edges : e.source = <<"job", s, k>> /\ e.target = <<"stage", s>>
       /\ \A j \in jobs :
            LET bottom == jobTop(s, j) + groupHeight(<<s, j>>) count == Len(CanvasAt(<<s, j>>).ids) IN
            /\ bottom < IF j + 1 \in jobs THEN jobTop(s, j + 1) ELSE stageHeight(s) - 44
            /\ count > 0 => blockTop(count) + BlockHeight + (IF canAddBlock(<<s, j>>) THEN 44 ELSE 0)
                             < groupHeight(<<s, j>>)
  /\ selectedNodes \subseteq nodes
  /\ Cardinality(selectedNodes) =
       CASE selection.kind = "none" -> 0 [] selection.kind \in {"stage", "job"} -> 1 [] OTHER -> 2

\* A change on the canvas removes and changes one job or stage: the others keep their
\* identifiers and all they do.
KeepsOtherJobs ==
  LET next == state'.plan
      gone == JobIds(plan) \ JobIds(next)
      both == JobIds(plan) \cap JobIds(next)
  IN next # plan /\ both # {} =>
       /\ \/ Cardinality(gone) <= 1
          \/ /\ Len(next.stages) < Len(Stages)
             /\ \E s \in DOMAIN Stages : gone = {job.id : job \in ToSet(Jobs(s))}
       /\ Cardinality({id \in both : JobOf(next, id) # JobOf(plan, id)}) <= 1
=============================================================================
