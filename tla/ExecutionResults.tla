-------------------------- MODULE ExecutionResults --------------------------
(***************************************************************************)
(* The results of executions, which a sheet at the bottom of each page that *)
(* runs something shows: the entries of the history that pass its filter,   *)
(* the entry that is selected, and of that the outputs by device and        *)
(* command, or the detail of a workflow or an orchestration.  Runs end in   *)
(* any order, also on pages that have been left.                            *)
(***************************************************************************)
EXTENDS Requests, ExecutionHistory

CONSTANTS Features,     \* functions that run something
          OutputsOf,    \* lists of outputs that a run of a function gives
          DetailsOf,    \* results that a workflow or an orchestration gives
          Limits,       \* bound: the numbers of entries to keep that are chosen from
          MaxRuns,      \* bound: runs in one behaviour
          Legacy        \* histories as an earlier version has stored them

VARIABLES state, calls

ExecutionResultsAssumption ==
  /\ MaxRuns \in Nat /\ Limits \subseteq Nat \ {0}
  /\ Features \cap {"tx-workflow", "orchestrate"} \subseteq DOMAIN DetailsOf
  /\ Features \subseteq DOMAIN DetailsOf \cup DOMAIN OutputsOf

NoEntry == 0
NoKey == <<NoEntry, "">>
HasDetail(feature) == feature \in DOMAIN DetailsOf

-----------------------------------------------------------------------------
\* What is shown of a history.

\* The newest run of a page's own function, and the key that tells a change of it.
currentLatest(s) ==
  LET own == filterExecutionHistory(s.entries, {s.feature})
  IN IF own = <<>> THEN {} ELSE {own[1]}
statusKey(s) ==
  IF currentLatest(s) = {} THEN NoKey
  ELSE LET latest == CHOOSE e \in currentLatest(s) : TRUE IN <<latest.id, latest.status>>

\* The entry that is shown: the one that is selected, if the filter lets it pass.
selected(s) ==
  LET entries == filterExecutionHistory(s.entries, s.filter)
      chosen == {e \in ToSet(entries) : e.id = s.selectedId}
  IN IF chosen # {} THEN chosen ELSE IF entries = <<>> THEN {} ELSE {entries[1]}

\* The devices of an entry in the order of their first outputs, each failed if one of
\* its outputs is.
deviceRows(entry) ==
  LET outputs == entry.outputs
      First == {n \in DOMAIN outputs : \A m \in 1..(n - 1) : outputs[m].device # outputs[n].device}
      firsts == SetToSortSeq(First, <)
      Of(device) == {n \in DOMAIN outputs : outputs[n].device = device}
  IN [k \in DOMAIN firsts |->
        LET device == outputs[firsts[k]].device IN
        [key |-> device, failed |-> \E n \in Of(device) : executionResultFailed(outputs[n])]]

commands(entry, device) ==
  LET rows == deviceRows(entry)
      keys == {rows[k].key : k \in DOMAIN rows}
      current == IF device \in keys THEN device ELSE IF rows = <<>> THEN "" ELSE rows[1].key
  IN SelectSeq(entry.outputs, LAMBDA output : output.device = current)

outputOf(entry, device, command) ==
  LET rows == commands(entry, device)
  IN IF rows = <<>> THEN {}
     ELSE {IF command \in DOMAIN rows THEN rows[command] ELSE rows[1]}

hasParsed(entry, output) ==
  entry.textfsm /\ (output.parsed_output # {} \/ output.parse_error)

\* The views of an output that there are tabs for.
viewsOf(entry, output) ==
  {"output"} \cup (IF hasParsed(entry, output) THEN {"parsed"} ELSE {})
             \cup (IF output.normalized_content # Null THEN {"normalized"} ELSE {})

\* What the block of a parsed output has: a table if all that was parsed are rows.
parsedOutputBlockDisplay(output) ==
  LET Columns(rows) == UNION {DOMAIN rows[n] : n \in DOMAIN rows} IN
  IF output.parsed_output = {} THEN (IF output.parse_error THEN "error" ELSE "nothing")
  ELSE CHOOSE shown \in {"json", "no rows", "no columns", "table"} :
         \A parsed \in output.parsed_output :
           shown = CASE parsed.kind = "json" -> "json"
                     [] parsed.kind = "rows" /\ parsed.rows = <<>> -> "no rows"
                     [] parsed.kind = "rows" /\ Columns(parsed.rows) = {} -> "no columns"
                     [] OTHER -> "table"

\* The text a view shows.
shownText(output, view) ==
  IF view = "normalized" THEN output.normalized_content
  ELSE executionResultOutputText(output, executionResultFailed(output))

\* The sheets of an entry that are exported: of a batch of shows one per object, with
\* the device in a column of its own, of others one per output.
parsedOutputSheetsFromBatchShow(outputs) ==
  LET WithDevice(row, device) ==
        [column \in DOMAIN row \cup {"device"} \cup
                    (IF "device" \in DOMAIN row THEN {"parsed_device"} ELSE {}) |->
           CASE column = "device" -> device
             [] column = "parsed_device" -> row["device"]
             [] OTHER -> row[column]]
      RowsOf(output) ==
        UNION {{WithDevice(parsed.rows[n], output.device) : n \in DOMAIN parsed.rows} :
                 parsed \in {p \in output.parsed_output : p.kind = "rows"}}
      objects == {outputs[n].object : n \in {m \in DOMAIN outputs : RowsOf(outputs[m]) # {}}}
  IN {[name |-> object,
       rows |-> UNION {RowsOf(output) : output \in {o \in ToSet(outputs) : o.object = object}}] :
        object \in objects}
parsedOutputSheetsFromParsedOutputItems(outputs) ==
  {[name |-> output.command, rows |-> UNION {ToSet(parsed.rows) : parsed \in output.parsed_output}] :
     output \in {o \in ToSet(outputs) : o.parsed_output # {}}}
executionHistoryExportSheets(entry) ==
  IF entry.batch /\ entry.feature = "show" THEN parsedOutputSheetsFromBatchShow(entry.outputs)
  ELSE parsedOutputSheetsFromParsedOutputItems(entry.outputs)

-----------------------------------------------------------------------------
\* The result of a workflow.

operationOutputOfContent(step) == Printed(IF step.content # Null THEN step.content ELSE step.all)

\* The output of an operation: what a good one has given, the transcript of one that failed.
operationOutputText(step) ==
  Printed(IF step.success THEN (IF step.content # Null THEN step.content ELSE step.all)
          ELSE IF step.all # Null THEN step.all ELSE step.content)

txOperationStepRows(steps) ==
  [n \in DOMAIN steps |->
     [outputText |-> operationOutputText(steps[n]), success |-> steps[n].success]]

txStepResultRows(steps) ==
  [n \in DOMAIN steps |->
     [forward |-> txOperationStepRows(steps[n].forward),
      rollback |-> txOperationStepRows(steps[n].rollback)]]

\* What a failure has given is part of its reason; steps tell it better.
failureOutputFromReason(reason) == {output \in reason : output # "reason"}

txBlockResultPresentation(block) ==
  LET steps == txStepResultRows(block.steps) IN
  [stepResultRows |-> steps,
   rollbackStepRows |-> txOperationStepRows(block.rollback),
   showFailureOutput |-> steps = <<>> /\ failureOutputFromReason(block.reason) # {}]

txWorkflowExecutionBlockRow(block, index, failedBlockIndex) ==
  [panel |-> txBlockResultPresentation(block), reason |-> block.reason,
   rollbackErrors |-> block.rollbackErrors, currentBlockFailed |-> index \in failedBlockIndex]

\* The sections of a block: the output of a failure is part of the one with its reason.
txWorkflowBlockResultPanelDisplay(row) ==
  (IF row.reason = {} THEN {}
   ELSE {"reason"} \cup (IF row.panel.showFailureOutput THEN {"output"} ELSE {}))
  \cup (IF row.rollbackErrors THEN {"rollback errors"} ELSE {})
  \cup (IF row.currentBlockFailed THEN {"rollback of the failed block"} ELSE {})
  \cup (IF row.panel.rollbackStepRows # <<>> THEN {"rollback"} ELSE {})
  \cup {IF row.panel.stepResultRows # <<>> THEN "steps" ELSE "no steps"}

txWorkflowExecutionPresentation(result) ==
  [n \in DOMAIN result.blocks |->
     txWorkflowExecutionBlockRow(result.blocks[n], n, result.failedBlock)]

-----------------------------------------------------------------------------
\* The result of an orchestration.

\* Three chips, of what has succeeded, failed and been skipped.
orchestrationCountChipRows(succeeded, failed, skipped) ==
  [success |-> succeeded, failed |-> failed, skipped |-> skipped]

orchestrationJobDetailRow(job) ==
  [status |-> job.status,
   targetRows |-> [t \in DOMAIN job.results |-> [label |-> job.results[t].label,
                                                status |-> job.results[t].status]],
   chips |-> orchestrationCountChipRows(job.targets_succeeded, job.targets_failed,
                                        job.targets_skipped)]
orchestrationExecutionStageRows(stages) ==
  [s \in DOMAIN stages |->
     [status |-> stages[s].status,
      jobs |-> [j \in DOMAIN stages[s].jobs |-> orchestrationJobDetailRow(stages[s].jobs[j])],
      chips |-> orchestrationCountChipRows(stages[s].jobs_succeeded, stages[s].jobs_failed,
                                           stages[s].jobs_skipped)]]

\* The details that can be opened, by the places of their stages, jobs and targets.
orchestrationExecutionDetailIndex(stages) ==
  [stageDetails |->
     [s \in DOMAIN stages |-> [kind |-> "stage", path |-> <<s>>, item |-> stages[s]]],
   targetDetails |->
     [s \in DOMAIN stages |-> [j \in DOMAIN stages[s].jobs |->
        [t \in DOMAIN stages[s].jobs[j].results |->
           [kind |-> "target", path |-> <<s, j, t>>, item |-> stages[s].jobs[j].results[t]]]]]]

orchestrationExecutionDetailSource(index, stage, job) ==
  IF job = {} THEN index.stageDetails
  ELSE LET details == index.targetDetails[stage] IN details[CHOOSE j \in job : TRUE]

DetailAtStage(index, stage, job, target) ==
  LET source == orchestrationExecutionDetailSource(index, stage, job)
  IN IF stage \in DOMAIN source THEN {source[stage]} ELSE {}
orchestrationExecutionDetailAt(index, stage, job, target) ==
  LET source == orchestrationExecutionDetailSource(index, stage, job)
      place == IF target = {} THEN stage ELSE CHOOSE t \in target : TRUE
  IN IF place \in DOMAIN source THEN {source[place]} ELSE {}

-----------------------------------------------------------------------------
\* The history, what the session storage has of it, and the sheet: observed is the key
\* it has seen last, device, command, view and opened are those of the detail.
SnapshotOf(s) == [entries |-> s.entries, limit |-> s.limit]

\* The sheet of a page that has just been opened shows its own function.
Mounted(s, feature) ==
  LET shown == [s EXCEPT !.feature = feature, !.filter = {feature}, !.sheetOpen = FALSE,
                  !.selectedId = NoEntry, !.device = "", !.command = 1, !.view = "output",
                  !.opened = {}, !.exporting = NoCall]
  IN [shown EXCEPT !.observed = statusKey(shown)]

readExecutionHistory(entries, limit, sequence, feature) ==
  Mounted([entries |-> entries, limit |-> limit,
           stored |-> [entries |-> entries, limit |-> limit],
           sequence |-> sequence, feature |-> feature, filter |-> {}, sheetOpen |-> FALSE,
           selectedId |-> NoEntry, observed |-> NoKey, device |-> "", command |-> 1,
           view |-> "output", opened |-> {}, exporting |-> NoCall], feature)

Init ==
  /\ \E rows \in Legacy, limit \in Limits, feature \in Features :
       state = readExecutionHistory(migrateShowExecutionHistory(rows, limit), limit, Len(rows), feature)
  /\ calls = NoCalls

Shown(s) == IF s.sheetOpen THEN selected(s) ELSE {}
IdsOf(entries) == {e.id : e \in entries}

\* The page has seen its newest run begin or end: it selects it, and opens the sheet
\* for one that has ended.
Observed(s) ==
  LET key == statusKey(s) IN
  IF key \in {s.observed, NoKey} THEN [s EXCEPT !.observed = key]
  ELSE [s EXCEPT !.observed = key,
                 !.selectedId = IF s.feature \in s.filter THEN key[1] ELSE @,
                 !.sheetOpen = @ \/ key[2] # "running"]

KeptDetail(s) == s
\* The detail is mounted anew for another entry, and begins again when its entry changes.
ExecutionHistoryDetail(s) ==
  IF IdsOf(Shown(s)) # IdsOf(Shown(state))
  THEN [s EXCEPT !.device = "", !.command = 1, !.view = "output", !.opened = {},
                 !.exporting = NoCall]
  ELSE IF Shown(s) # Shown(state) THEN [s EXCEPT !.device = "", !.command = 1, !.view = "output"]
  ELSE s

Show(s) == state' = ExecutionHistoryDetail(Observed(s))

\* A change of the history is stored, unless the storage refuses it.
update(s, entries, limit) ==
  \E stored \in {state.stored, [entries |-> entries, limit |-> limit]} :
    Show([s EXCEPT !.entries = entries, !.limit = limit, !.stored = stored])

-----------------------------------------------------------------------------
\* Runs of the page's function.
OneDevice(outputs) == \A m, n \in DOMAIN outputs : outputs[m].device = outputs[n].device
Scopes(feature) ==
  CASE feature = "tx-workflow" -> {FALSE} [] feature = "orchestrate" -> {TRUE} [] OTHER -> BOOLEAN
Parses(feature) == IF feature \in {"show", "command", "interactive"} THEN BOOLEAN ELSE {FALSE}

\* A run is timed by the wall clock, which may have been set back.
CanStart == ~state.sheetOpen /\ state.sequence < MaxRuns
begin(entries) ==
  update([state EXCEPT !.sequence = @ + 1], entries, state.limit)
begun(batch, textfsm, started) ==
  startHistory(state.entries, state.limit, state.sequence + 1, state.feature, batch, textfsm, started)

Start ==
  /\ CanStart /\ CanPost(calls)
  /\ \E batch \in Scopes(state.feature) :
       /\ \E textfsm \in Parses(state.feature), started \in {0, state.sequence + 1} :
            begin(begun(batch, textfsm, started))
       /\ calls' = Post(calls, [op |-> "run", id |-> state.sequence + 1,
                                feature |-> state.feature, batch |-> batch])

\* A show without what it needs has ended when it begins.
Refuse ==
  /\ CanStart /\ state.feature = "show"
  /\ \E batch \in BOOLEAN :
       begin(fail(begun(batch, FALSE, state.sequence + 1), state.sequence + 1))
  /\ UNCHANGED calls

AnswerRun(i) ==
  /\ calls[i].op = "run"
  /\ \/ update(state, fail(state.entries, calls[i].id), state.limit)
     \/ /\ HasDetail(calls[i].feature)
        /\ \E detail \in DetailsOf[calls[i].feature] :
             update(state, finishDetail(state.entries, calls[i].id, detail), state.limit)
     \/ /\ ~HasDetail(calls[i].feature)
        /\ \E outputs \in OutputsOf[calls[i].feature], failed \in BOOLEAN :
             /\ calls[i].batch \/ OneDevice(outputs)
             /\ update(state, finish(state.entries, calls[i].id, outputs, FALSE, failed, {}), state.limit)
  /\ calls' = Settle(calls, i)

-----------------------------------------------------------------------------
\* The sheet.
OpenSheet == ~state.sheetOpen /\ Show([state EXCEPT !.sheetOpen = TRUE])
CloseSheet == Show([state EXCEPT !.sheetOpen = FALSE])
SelectEntry ==
  \E entry \in ToSet(filterExecutionHistory(state.entries, state.filter)) :
    Show([state EXCEPT !.selectedId = entry.id])
toggleFeature ==
  \E feature \in Features :
    Show([state EXCEPT !.filter = IF feature \in @ THEN @ \ {feature} ELSE @ \cup {feature}])
AllFunctions == \E filter \in {Features, {}} : Show([state EXCEPT !.filter = filter])
ChangeLimit ==
  \E limit \in Limits \ {state.limit} : update(state, setLimit(state.entries, limit), limit)

\* The detail of an entry with outputs.
SelectDevice(entry) ==
  LET rows == deviceRows(entry) IN
  \E k \in DOMAIN rows :
    /\ entry.batch \/ Len(rows) > 1
    /\ Show([state EXCEPT !.device = rows[k].key, !.command = 1, !.view = "output"])
SelectCommandOnly(entry) ==
  \E n \in DOMAIN commands(entry, state.device) : Show([state EXCEPT !.command = n])
SelectCommand(entry) ==
  \E n \in DOMAIN commands(entry, state.device) :
    Show([state EXCEPT !.command = n, !.view = "output"])
SelectView(entry) ==
  \E output \in outputOf(entry, state.device, state.command) :
    \E view \in viewsOf(entry, output) : Show([state EXCEPT !.view = view])

exportAll(entry) ==
  /\ entry.textfsm /\ executionHistoryExportSheets(entry) # {}
  /\ state.exporting = NoCall /\ CanPost(calls)
  /\ Show([state EXCEPT !.exporting = NextId(calls)])
  /\ calls' = Post(calls, [op |-> "export"])
AnswerExport(i) ==
  /\ calls[i].op = "export"
  /\ Show([state EXCEPT !.exporting = IF @ = i THEN NoCall ELSE @])
  /\ calls' = Settle(calls, i)

\* The detail of an orchestration: a stage or a target of it.  Its button is at the place
\* that is remembered.
OpenAt(place, details) ==
  Show([state EXCEPT !.opened = {[button |-> place, detail |-> d] : d \in details}])
openStageDetail(index, stage) ==
  OpenAt(<<stage>>, orchestrationExecutionDetailAt(index, stage, {}, {}))
openTargetDetail(index, stage, job, target) ==
  OpenAt(<<stage, job, target>>, orchestrationExecutionDetailAt(index, stage, {job}, {target}))
OpenDetail(result) ==
  LET index == orchestrationExecutionDetailIndex(result.stages) IN
  \E s \in DOMAIN result.stages :
    \/ openStageDetail(index, s)
    \/ \E j \in DOMAIN result.stages[s].jobs :
         \E t \in DOMAIN result.stages[s].jobs[j].results : openTargetDetail(index, s, j, t)
BackToResult == state.opened # {} /\ Show([state EXCEPT !.opened = {}])

DetailNext(entry) ==
  \/ /\ entry.detail = {}
     /\ \/ SelectDevice(entry) \/ SelectCommand(entry) \/ SelectView(entry)
     /\ UNCHANGED calls
  \/ entry.detail = {} /\ exportAll(entry)
  \/ /\ \E detail \in entry.detail : \E result \in detail.result :
          /\ detail.kind = "orchestrate" /\ state.opened = {}
          /\ OpenDetail(result)
     /\ UNCHANGED calls
  \/ BackToResult /\ UNCHANGED calls

SheetNext ==
  /\ state.sheetOpen
  /\ \/ /\ CloseSheet \/ SelectEntry \/ toggleFeature \/ AllFunctions \/ ChangeLimit
        /\ UNCHANGED calls
     \/ \E entry \in Shown(state) : DetailNext(entry)

ChangePage ==
  /\ \E feature \in Features \ {state.feature} : state' = Mounted(state, feature)
  /\ UNCHANGED calls

\* The console is loaded again: what the storage has is left of the history.
Reload ==
  /\ state' = readExecutionHistory(parseExecutionHistory(state.stored.entries, state.stored.limit),
                                   state.stored.limit, state.sequence, state.feature)
  /\ calls' = NoCalls

Next ==
  \/ Start \/ Refuse \/ (OpenSheet /\ UNCHANGED calls) \/ SheetNext \/ ChangePage \/ Reload
  \/ \E i \in DOMAIN calls : AnswerRun(i) \/ AnswerExport(i)

Spec == Init /\ [][Next]_<<state, calls>>

-----------------------------------------------------------------------------
\* The history keeps at most limit entries of each function, newest first, and the
\* sheet and the calls have their types.
TypeOK ==
  LET lists == UNION {OutputsOf[f] : f \in DOMAIN OutputsOf}
                 \cup UNION {{rows[n].results : n \in DOMAIN rows} : rows \in Legacy}
      snapshots == {[n \in DOMAIN outputs |-> historyOutputSnapshot(outputs[n])] : outputs \in lists}
      details == {{historyDetailSnapshot(d)} : d \in UNION {DetailsOf[f] : f \in DOMAIN DetailsOf}}
  IN /\ \A n \in DOMAIN state.entries :
          /\ state.entries[n] \in HistoryEntry(1..MaxRuns, Features,
                                  snapshots \cup {<<>>}, details \cup {{}})
          /\ n > 1 => state.entries[n].started <= state.entries[n - 1].started
     /\ \A feature \in Features :
          Len(filterExecutionHistory(state.entries, {feature})) <= state.limit
     /\ state.limit \in Limits /\ state.sequence \in 0..MaxRuns
     /\ state.feature \in Features /\ state.filter \subseteq Features
     /\ state.view \in {"output", "parsed", "normalized"}
     /\ DOMAIN calls \subseteq CallIds

\* What the sheet shows belongs together: the device and the command are of the entry
\* that is shown, the view is one that its output has, and the stage or target that is
\* open is the one at its place in the result of that entry.
DetailIsOfEntry ==
  /\ Shown(state) = {} => state.opened = {} /\ state.view = "output"
  /\ \A entry \in Shown(state) :
       /\ state.device # "" => \E k \in DOMAIN deviceRows(entry) : deviceRows(entry)[k].key = state.device
       /\ state.command > 1 => state.command \in DOMAIN commands(entry, state.device)
       /\ \A output \in outputOf(entry, state.device, state.command) :
            /\ state.view \in viewsOf(entry, output)
            /\ IF state.view = "parsed" THEN parsedOutputBlockDisplay(output) # "nothing"
               ELSE shownText(output, state.view) # Null
       /\ outputOf(entry, state.device, state.command) = {} => state.view = "output"
       /\ \A open \in state.opened : \E detail \in entry.detail : \E result \in detail.result :
            LET place == open.button stage == result.stages[place[1]] IN
            /\ open.detail.path = place
            /\ open.detail.item = IF Len(place) = 1 THEN stage
                                  ELSE stage.jobs[place[2]].results[place[3]]

\* No recording of a session stays in the history or in the storage of the browser.
NoRecordingIsKept ==
  \A entries \in {state.entries, state.stored.entries} : \A n \in DOMAIN entries :
    /\ \A m \in DOMAIN entries[n].outputs : DOMAIN entries[n].outputs[m] = HistoryFields
    /\ entries[n].feature = "orchestrate" =>
         \A detail \in entries[n].detail : \A result \in detail.result :
           \A s \in DOMAIN result.stages : \A j \in DOMAIN result.stages[s].jobs :
             \A target \in ToSet(result.stages[s].jobs[j].results) :
               \A part \in {target} \cup target.compensation : part.recording_jsonl = Null

\* An entry that is running is one that an answer will end, after reloads too, and an
\* export that is shown as running has its call.
BusyIsPending ==
  /\ \A n \in DOMAIN state.entries : state.entries[n].status = "running" =>
       \E i \in DOMAIN calls : calls[i].op = "run" /\ calls[i].id = state.entries[n].id
  /\ state.exporting # NoCall => Pending(calls, state.exporting, "export")

\* A run of another page that ends opens nothing and turns the sheet to nothing else.
OtherRunsStayAside ==
  \A i \in DOMAIN calls \ DOMAIN calls' :
    (calls[i].op = "run" /\ calls[i].feature # state.feature /\ state'.sequence = state.sequence
       /\ calls' # NoCalls) =>
      /\ state'.sheetOpen = state.sheetOpen
      /\ IdsOf(selected(state')) = IdsOf(selected(state))

\* What an entry says of its run is what its parts say, and nothing they say is lost: no
\* good run has a failed device and a mixed one has both; what is downloaded has every
\* error and what is exported every column of every device.
EntryTellsItsOutputs(entry) ==
  LET rows == deviceRows(entry) text == commandOutputText(entry.outputs) IN
  /\ entry.status = "success" => \A k \in DOMAIN rows : ~rows[k].failed
  /\ entry.status = "warning" => /\ \E k \in DOMAIN rows : rows[k].failed
                                 /\ \E output \in ToSet(entry.outputs) : ~executionResultFailed(output)
  /\ \A n \in DOMAIN entry.outputs :
       entry.outputs[n].error # Null => entry.outputs[n].error \subseteq text[n]
  /\ \A output \in ToSet(entry.outputs) : \A parsed \in output.parsed_output : \A n \in DOMAIN parsed.rows :
       \E sheet \in executionHistoryExportSheets(entry) : \E row \in sheet.rows :
         \A column \in DOMAIN parsed.rows[n] :
           \E as \in DOMAIN row : /\ as \in {column, "parsed_device"}
                                 /\ row[as] = parsed.rows[n][column]
                                 /\ entry.batch /\ entry.feature = "show" => row["device"] = output.device

\* Of a workflow, only the block that failed tells of its rollback, an output that is
\* part of a failure is seen unless steps tell it, and a failed operation shows all it gave.
BlocksTellFailures(result) ==
  LET rows == txWorkflowExecutionPresentation(result) IN
  \A n \in DOMAIN rows :
    LET sections == txWorkflowBlockResultPanelDisplay(rows[n])
        block == result.blocks[n]
        Tells(steps, shown) ==
          \A k \in DOMAIN steps : ~steps[k].success =>
            Printed(steps[k].content) \cup Printed(steps[k].all) \subseteq shown[k].outputText
    IN /\ "rollback of the failed block" \in sections <=> n \in result.failedBlock
       /\ block.reason \ {"reason"} # {} => "output" \in sections \/ "steps" \in sections
       /\ Tells(block.rollback, rows[n].panel.rollbackStepRows)
       /\ \A k \in DOMAIN block.steps :
            /\ Tells(block.steps[k].forward, rows[n].panel.stepResultRows[k].forward)
            /\ Tells(block.steps[k].rollback, rows[n].panel.stepResultRows[k].rollback)

\* Of an orchestration, the chips of a stage and of a job count the rows below them.
ChipsCountRows(result) ==
  LET stages == orchestrationExecutionStageRows(result.stages)
      Count(rows, status) == Cardinality({n \in DOMAIN rows : rows[n].status = status})
      Counts(row, rows) == \A status \in {"success", "failed", "skipped"} :
                             row.chips[status] = Count(rows, status)
  IN \A s \in DOMAIN stages :
       /\ Counts(stages[s], stages[s].jobs)
       /\ \A j \in DOMAIN stages[s].jobs : Counts(stages[s].jobs[j], stages[s].jobs[j].targetRows)

ResultsTellAll ==
  \A n \in DOMAIN state.entries :
    /\ EntryTellsItsOutputs(state.entries[n])
    /\ \A detail \in state.entries[n].detail : \A result \in detail.result :
         IF detail.kind = "tx-workflow" THEN BlocksTellFailures(result) ELSE ChipsCountRows(result)

\* As long as the storage takes what it is given, a run that has ended stays as it has
\* ended, whichever others end and however often the console is loaded; what goes is
\* older than as many runs of its function as are kept.
EndedRunsStay ==
  state.stored = SnapshotOf(state) =>
    \A entry \in ToSet(state.entries) :
      LET next == {e \in ToSet(state'.entries) : e.id = entry.id} IN
      IF next = {}
      THEN Cardinality({e \in ToSet(state'.entries) :
                          e.feature = entry.feature /\ e.started >= entry.started}) = state'.limit
      ELSE entry.status # "running" => next = {entry}
=============================================================================
