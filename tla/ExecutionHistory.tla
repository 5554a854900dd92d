-------------------------- MODULE ExecutionHistory --------------------------
(***************************************************************************)
(* The history of executions that the pages of the console share.  It is a  *)
(* sequence of entries, newest first, with at most limit entries of every   *)
(* feature; each change is stored in the session storage of the browser, so *)
(* a reload finds the same entries.  An entry is added when an execution    *)
(* begins and completed when its answer arrives, unless it was dropped.     *)
(*                                                                          *)
(* An output is what one command gave on one device.  A text is the set of  *)
(* what it contains: Null is none at all, {} the empty text.  An output or  *)
(* an entry that may lack a part has a set of at most one of it.            *)
(***************************************************************************)
EXTENDS Naturals, Sequences, SequencesExt, FiniteSets

HistoryStatuses == {"running", "success", "warning", "error", "interrupted"}

HistoryEntry(Entries, Features, OutputLists, Details) ==
  [id: Entries, feature: Features, batch: BOOLEAN, started: Nat, textfsm: BOOLEAN,
   status: HistoryStatuses, message: BOOLEAN, outputs: OutputLists, detail: Details]

-----------------------------------------------------------------------------
\* Outputs.
Null == {"null"}
Falsy(text) == text = Null \/ text = {}
\* The first of two texts that says something, and what is printed of a text.
Or(text, other) == IF Falsy(text) THEN other ELSE text
Printed(text) == IF text = Null THEN {} ELSE text

\* An output of the history has neither a response nor a summary of the service: it
\* has failed if it says so, has an error, or ended with another code than zero.
executionResultFailed(row) ==
  ~Falsy(row.error) \/ row.success = {FALSE} \/ row.exit_code = "nonzero"

\* The text of an output: the whole transcript if there is one and it is preferred.
executionResultOutputText(row, preferTranscript) ==
  Printed(IF preferTranscript THEN Or(row.all, Or(row.output, row.error))
          ELSE IF row.output # Null THEN row.output ELSE Or(row.error, row.all))

commandOutputTextAlone(outputs) ==
  [n \in DOMAIN outputs |->
     executionResultOutputText(outputs[n], executionResultFailed(outputs[n]))]

\* What a downloaded file says of each output.
commandOutputText(outputs) ==
  [n \in DOMAIN outputs |->
     executionResultOutputText(outputs[n], executionResultFailed(outputs[n]))
       \cup (IF Falsy(outputs[n].error) THEN {} ELSE outputs[n].error)]

\* A field may be in the history if it is not a recording.
HistoryFields == {"device", "command", "output", "all", "error", "success", "exit_code",
                  "object", "parsed_output", "parse_error", "normalized_content"}
historyOutputAsIs(row) == row
historyOutputSnapshot(row) == [field \in HistoryFields |-> row[field]]

\* The mix of failed and successful outputs of a run, and whether the service
\* says that the whole has failed.
historyStatus(outputs, failed) ==
  LET failures == {n \in DOMAIN outputs : executionResultFailed(outputs[n])} IN
  IF failures = {} THEN (IF failed THEN "error" ELSE "success")
  ELSE IF failures = DOMAIN outputs THEN "error" ELSE "warning"

-----------------------------------------------------------------------------
\* Details: the result of a workflow, or of an orchestration with its recordings, if
\* the service has sent one.
withoutRecordingOfTarget(target) == [target EXCEPT !.recording_jsonl = Null]
withoutRecordings(target) ==
  [target EXCEPT !.recording_jsonl = Null,
     !.compensation = {[c EXCEPT !.recording_jsonl = Null] : c \in @}]

OfTargets(stages, Op(_)) ==
  [s \in DOMAIN stages |-> [stages[s] EXCEPT !.jobs =
     [j \in DOMAIN @ |-> [@[j] EXCEPT !.results = [t \in DOMAIN @ |-> Op(@[t])]]]]]

historyDetailSnapshot(detail) ==
  IF detail.kind = "tx-workflow" THEN detail
  ELSE [detail EXCEPT !.result =
          {[r EXCEPT !.stages = OfTargets(@, withoutRecordings)] : r \in @}]

historyDetailSucceeded(detail) ==
  \E result \in detail.result :
    IF detail.kind = "tx-workflow" THEN result.committed ELSE result.success

-----------------------------------------------------------------------------
retainExecutionHistoryAndOne(entries, limit) ==
  LET kept == {n \in DOMAIN entries : n <= limit + 1}
  IN [k \in 1..Cardinality(kept) |-> entries[k]]

\* The newest entries of each feature, at most limit of them, by the wall clock.
retainExecutionHistory(entries, limit) ==
  LET Newer(m, n) == \/ entries[m].started > entries[n].started
                     \/ entries[m].started = entries[n].started /\ m < n
      Before(n, among) == Cardinality({m \in among : Newer(m, n)})
      OfFeature(n) == {m \in DOMAIN entries : entries[m].feature = entries[n].feature}
      kept == {n \in DOMAIN entries : Before(n, OfFeature(n)) < limit}
  IN [k \in 1..Cardinality(kept) |-> entries[CHOOSE n \in kept : Before(n, kept) = k - 1]]

startHistory(entries, limit, id, feature, batch, textfsm, started) ==
  retainExecutionHistory(
    <<[id |-> id, feature |-> feature, batch |-> batch, textfsm |-> textfsm,
       started |-> started, status |-> "running", message |-> FALSE,
       outputs |-> <<>>, detail |-> {}]>> \o entries, limit)

finishNewest(entries, id, outputs, message, failed, detail) ==
  [n \in DOMAIN entries |->
     IF n # 1 THEN entries[n]
     ELSE [entries[n] EXCEPT !.outputs = [m \in DOMAIN outputs |-> historyOutputSnapshot(outputs[m])],
             !.message = message, !.detail = {historyDetailSnapshot(d) : d \in detail},
             !.status = IF message THEN "error" ELSE historyStatus(outputs, failed)]]

\* The entry of a run is completed; of the others nothing changes.
finish(entries, id, outputs, message, failed, detail) ==
  LET snapshot == [n \in DOMAIN outputs |-> historyOutputSnapshot(outputs[n])]
  IN [n \in DOMAIN entries |->
        IF entries[n].id # id THEN entries[n]
        ELSE [entries[n] EXCEPT
                !.outputs = snapshot, !.message = message,
                !.detail = {historyDetailSnapshot(d) : d \in detail},
                !.status = IF message THEN "error" ELSE historyStatus(snapshot, failed)]]

finishDetail(entries, id, detail) ==
  finish(entries, id, <<>>, FALSE, ~historyDetailSucceeded(detail), {detail})

\* A run that could not be carried out keeps what it has given so far.
fail(entries, id) ==
  LET Existing == {n \in DOMAIN entries : entries[n].id = id}
      outputs == IF Existing = {} THEN <<>> ELSE entries[CHOOSE n \in Existing : TRUE].outputs
      detail == IF Existing = {} THEN {} ELSE entries[CHOOSE n \in Existing : TRUE].detail
  IN finish(entries, id, outputs, TRUE, TRUE, detail)

setLimit(entries, limit) == retainExecutionHistory(entries, limit)

filterExecutionHistory(entries, features) ==
  SelectSeq(entries, LAMBDA entry : entry.feature \in features)

parseExecutionHistoryAsIs(entries, limit) == retainExecutionHistory(entries, limit)

\* What a reload of the console reads back: nobody waits any more for what was
\* running.
parseExecutionHistory(entries, limit) ==
  retainExecutionHistory(
    [n \in DOMAIN entries |->
       IF entries[n].status = "running" THEN [entries[n] EXCEPT !.status = "interrupted"]
       ELSE entries[n]], limit)

\* The history of an earlier version, which had shows alone: rows that were running have
\* been interrupted as well.
migrateShowExecutionHistory(rows, limit) ==
  retainExecutionHistory(
    [n \in DOMAIN rows |->
       LET outputs == [m \in DOMAIN rows[n].results |-> historyOutputSnapshot(rows[n].results[m])] IN
       [id |-> rows[n].id, feature |-> "show", batch |-> rows[n].batch,
        started |-> rows[n].started, textfsm |-> rows[n].textfsm, outputs |-> outputs,
        message |-> rows[n].kind = "error", detail |-> {},
        status |-> CASE rows[n].kind = "running" -> "interrupted"
                     [] rows[n].kind = "error" -> "error"
                     [] OTHER -> historyStatus(outputs, FALSE)]], limit)
=============================================================================
