------------------------------ MODULE TasksPage ------------------------------
(***************************************************************************)
(* The Task Center page: a list of task runs that is filtered by the        *)
(* service (query) and by the page (filters), and the detail of the         *)
(* selected run with its events, which have filters of their own, and its   *)
(* artifacts.  state is the store of the workspace with the variables its   *)
(* closures share.                                                          *)
(***************************************************************************)
EXTENDS Requests, FiniteSets, Sequences, SequencesExt, TLC

CONSTANTS Tasks,            \* identifiers of task runs
          Queries,          \* limit, operation and status the service filters by
          DefaultQuery,
          RunOf,            \* RunOf[t]: what the list says of a run
          DetailOf,         \* DetailOf[t]: its events, artifacts and counts
          Words,            \* what is searched for
          MaxFilters,       \* bound: filters that are set at one time
          None              \* the empty selection, no detail, no status, no outcome

VARIABLES state, calls

TasksAssumption ==
  /\ DefaultQuery \in Queries
  /\ DOMAIN RunOf = Tasks /\ DOMAIN DetailOf = Tasks
  /\ "" \notin Words /\ MaxFilters \in Nat
  /\ None \notin Tasks /\ None \notin Queries

vars == <<state, calls>>

Statuses == {None, "running", "error"}

\* What the filters of the page offer.
EventGroups == {"lifecycle", "execution", "audit"}
taskFilterOptions ==
  [search |-> Words \cup {""},
   outcome |-> {"all", "success", "partial_success", "failed", "none"},
   recording |-> {"all", "yes", "no"}, error |-> {"all", "yes", "no"},
   timeRange |-> {"all", "1h", "6h", "24h", "7d"},
   eventGroup |-> {"all"} \cup EventGroups, eventSearch |-> Words \cup {""}]
DefaultFilters ==
  [field \in DOMAIN taskFilterOptions |-> IF field \in {"search", "eventSearch"} THEN "" ELSE "all"]
ListFields == DOMAIN taskFilterOptions \ {"eventGroup", "eventSearch"}
resetTaskFilters(filters) ==
  [field \in DOMAIN filters |-> IF field \in ListFields THEN DefaultFilters[field] ELSE filters[field]]
SetFields(filters) == {field \in DOMAIN filters : filters[field] # DefaultFilters[field]}

\* The fields of the store; runsOf names the query that runs answers.
TaskState ==
  [runs: SUBSET Tasks, runsOf: Queries \cup {None},
   currentTaskId: Tasks \cup {None}, currentTaskDetail: Tasks \cup {None},
   listStatus: Statuses, detailStatus: Statuses,
   query: Queries, refreshLoading: BOOLEAN,
   filters: [DOMAIN taskFilterOptions -> UNION {taskFilterOptions[f] : f \in DOMAIN taskFilterOptions}],
   active: BOOLEAN, didInitialLoad: BOOLEAN, refreshRunning: BOOLEAN,
   listVersion: CallIds \cup {NoCall}, detailVersion: CallIds \cup {NoCall}]

newTaskState ==
  [runs |-> {}, runsOf |-> None, currentTaskId |-> None,
   currentTaskDetail |-> None, listStatus |-> None, detailStatus |-> None,
   query |-> DefaultQuery, filters |-> DefaultFilters, refreshLoading |-> FALSE,
   active |-> FALSE, didInitialLoad |-> FALSE, refreshRunning |-> FALSE,
   listVersion |-> NoCall, detailVersion |-> NoCall]

Call == [op: {"list"}, query: Queries, refresh: BOOLEAN]
          \cup [op: {"detail"}, task: Tasks]

Init == state = newTaskState /\ calls = NoCalls

-----------------------------------------------------------------------------
\* The filters of the list and what it says of a run.
Hours == ("1h" :> 1) @@ ("6h" :> 6) @@ ("24h" :> 24) @@ ("7d" :> 168)

\* By when a run began or, where that is not known, ended.
matchesTaskTimeRange(run, range) ==
  range = "all" \/ \E hours \in IF run.started # {} THEN run.started ELSE run.completed :
                     hours <= Hours[range]

matchesOutcome(run, outcome) == outcome = "all" \/ run.outcome = outcome
matchesTaskListFilter(run, filters) ==
  /\ filters.search \in run.words \cup {""}
  /\ matchesTaskTimeRange(run, filters.timeRange)
  /\ IF filters.outcome = "none" THEN run.outcome = None ELSE matchesOutcome(run, filters.outcome)
  /\ filters.recording # "all" => run.recording = (filters.recording = "yes")
  /\ filters.error # "all" => run.error = (filters.error = "yes")

taskStatusTone(status) ==
  CASE status = "running" -> "cyan" [] status = "success" -> "emerald"
    [] status = "failed" -> "rose" [] OTHER -> "slate"
taskOutcomeTone(outcome) ==
  CASE outcome = "success" -> "emerald" [] outcome = "partial_success" -> "slate" [] OTHER -> "rose"

\* The tones of the badges of a run.
taskRunBadgeRows(run) ==
  <<taskStatusTone(run.status)>>
    \o (IF run.outcome = None THEN <<>> ELSE <<taskOutcomeTone(run.outcome)>>)

-----------------------------------------------------------------------------
\* The detail of a run: its events in three groups, of which those are shown that pass
\* the filters, its artifacts by type, and its cards.
eventGroupOfStage(event) ==
  IF event.type \in {"started", "progress", "completed", "failed"} THEN "lifecycle"
  ELSE IF event.stage = {} THEN "execution" ELSE CHOOSE word \in event.stage : TRUE
taskEventAuditGroup(event) ==
  IF event.type \in {"started", "progress", "completed", "failed"} THEN "lifecycle"
  ELSE IF \/ event.stage \cap {"audit", "callback", "record", "report"} # {}
          \/ event.message \cap {"callback", "recording saved"} # {} THEN "audit"
  ELSE "execution"

matchesTaskEventFilter(event, group, search) ==
  /\ group \in {"all", taskEventAuditGroup(event)}
  /\ search \in {"", event.type, event.level} \cup event.stage \cup event.message

\* The groups that have events, in their order.
groupTaskEvents(events) ==
  LET Of(group) == SelectSeq(events, LAMBDA event : taskEventAuditGroup(event) = group)
      groups == SelectSeq(<<"lifecycle", "execution", "audit">>, LAMBDA group : Of(group) # <<>>)
  IN [k \in DOMAIN groups |-> [eventGroupName |-> groups[k], taskEvents |-> Of(groups[k])]]

\* An event stands out if it is an error.
taskEventRow(event) ==
  [event |-> event, tone |-> IF event.level = "error" THEN "rose" ELSE "slate"]

taskEventsPresentation(events, filters) ==
  LET filtered == SelectSeq(events, LAMBDA event :
                    matchesTaskEventFilter(event, filters.eventGroup, filters.eventSearch))
      groups == groupTaskEvents(filtered)
  IN [countText |-> <<Len(filtered), Len(events)>>,
      eventGroupRows |->
        [k \in DOMAIN groups |->
           [groups[k] EXCEPT !.taskEvents = [n \in DOMAIN @ |-> taskEventRow(@[n])]]]]

groupTypedArtifacts(artifacts) ==
  LET types == SetToSeq({artifacts[n].type : n \in DOMAIN artifacts} \ {""}) IN
  [k \in DOMAIN types |-> SelectSeq(artifacts, LAMBDA artifact : artifact.type = types[k])]
\* What has no type is with the others.
groupTaskArtifacts(artifacts) ==
  LET TypeOf(artifact) == IF artifact.type = "" THEN "other" ELSE artifact.type
      types == SetToSeq({TypeOf(artifacts[n]) : n \in DOMAIN artifacts})
  IN [k \in DOMAIN types |-> SelectSeq(artifacts, LAMBDA artifact : TypeOf(artifact) = types[k])]

\* A count of skipped targets has a card if the service has sent one.
taskDetailPresentation(task) ==
  LET detail == DetailOf[task] IN
  [badgeRows |-> taskRunBadgeRows(RunOf[task]),
   outcome |-> taskOutcomeTone(RunOf[task].outcome),
   recording |-> detail.recordingAvailable \/ RunOf[task].recording,
   events |-> Len(detail.events),
   countCards |-> UNION {{<<name, counts[name]>> : name \in DOMAIN counts} : counts \in detail.counts},
   artifactGroups |-> groupTaskArtifacts(detail.artifacts)]

-----------------------------------------------------------------------------
\* The part of loadTaskList before its await, from the store s.
loadTaskList(s, refresh) ==
  /\ CanPost(calls)
  /\ state' = [s EXCEPT !.listStatus = "running", !.listVersion = NextId(calls)]
  /\ calls' = Post(calls, [op |-> "list", query |-> s.query, refresh |-> refresh])

\* The store after the list has answered with runs.
Listed(s, query, runs) ==
  LET kept == s.currentTaskId \in runs IN
  [s EXCEPT !.runs = runs, !.runsOf = query, !.listStatus = None,
            !.currentTaskDetail = IF kept THEN @ ELSE None,
            !.currentTaskId = IF kept THEN @ ELSE None,
            !.detailStatus = IF ~kept /\ s.currentTaskId # None THEN None ELSE @,
            !.detailVersion = IF ~kept /\ s.currentTaskId # None THEN NoCall ELSE @]

ListFailed(s) == [s EXCEPT !.listStatus = "error", !.runs = {}, !.runsOf = None]

\* Only the latest list call changes the list; a refresh that was waiting for
\* the call ends in any case.
EndRefresh(s, call) ==
  IF call.refresh THEN [s EXCEPT !.refreshLoading = FALSE, !.refreshRunning = FALSE]
                  ELSE s

AnswerList(i) ==
  /\ calls[i].op = "list"
  /\ \/ \E runs \in SUBSET Tasks :
          state' = EndRefresh(IF i = state.listVersion
                              THEN Listed(state, calls[i].query, runs) ELSE state,
                              calls[i])
     \/ state' = EndRefresh(IF i = state.listVersion THEN ListFailed(state) ELSE state,
                            calls[i])
  /\ calls' = Settle(calls, i)

loadTaskDetail(task) ==
  /\ CanPost(calls)
  /\ state' = [state EXCEPT !.currentTaskDetail = None, !.currentTaskId = task,
                            !.detailStatus = "running",
                            !.detailVersion = NextId(calls)]
  /\ calls' = Post(calls, [op |-> "detail", task |-> task])

DetailCountsAlways(i) == TRUE
DetailCounts(i) == i = state.detailVersion

AnswerDetail(i) ==
  /\ calls[i].op = "detail"
  /\ \/ state' = IF DetailCounts(i)
                 THEN [state EXCEPT !.currentTaskDetail = calls[i].task,
                                    !.detailStatus = None]
                 ELSE state
     \/ state' = IF DetailCounts(i)
                 THEN [state EXCEPT !.currentTaskDetail = None,
                                    !.detailStatus = "error"]
                 ELSE state
  /\ calls' = Settle(calls, i)

-----------------------------------------------------------------------------
\* The tab is opened: the first time, and the first time after it was left,
\* the list is loaded.
Activate ==
  /\ ~state.active
  /\ loadTaskList([state EXCEPT !.active = TRUE, !.didInitialLoad = TRUE], FALSE)

\* The tab is left: destroy raises both versions and replaces the store.
destroy ==
  /\ state.active
  /\ state' = newTaskState
  /\ UNCHANGED calls

clearFilters ==
  loadTaskList([state EXCEPT !.query = DefaultQuery, !.filters = resetTaskFilters(@)], FALSE)

refreshTasks ==
  /\ ~state.refreshRunning
  /\ loadTaskList([state EXCEPT !.refreshRunning = TRUE, !.refreshLoading = TRUE], TRUE)

updateAndReload(query) == loadTaskList([state EXCEPT !.query = query], FALSE)

updateFilter(field, option) ==
  LET filters == [state.filters EXCEPT ![field] = option] IN
  /\ option # state.filters[field] /\ Cardinality(SetFields(filters)) <= MaxFilters
  /\ state' = [state EXCEPT !.filters = filters]
  /\ UNCHANGED calls

FiltersPanel ==
  \/ clearFilters
  \/ ~state.refreshLoading /\ refreshTasks
  \/ \E query \in Queries \ {state.query} : updateAndReload(query)
  \/ \E field \in ListFields : \E option \in taskFilterOptions[field] : updateFilter(field, option)

\* The runs the list shows.
filteredTaskRuns == {task \in state.runs : matchesTaskListFilter(RunOf[task], state.filters)}

RunListPanel == \E task \in filteredTaskRuns : loadTaskDetail(task)

TaskDetailPanel ==
  /\ state.currentTaskDetail # None
  /\ \E field \in {"eventGroup", "eventSearch"} :
       \E option \in taskFilterOptions[field] : updateFilter(field, option)

Next ==
  \/ Activate
  \/ state.active /\ (destroy \/ FiltersPanel \/ RunListPanel \/ TaskDetailPanel)
  \/ \E i \in DOMAIN calls : AnswerList(i) \/ AnswerDetail(i)

Spec == Init /\ [][Next]_vars

-----------------------------------------------------------------------------
\* Every field of the store has its type and every call is a list or a detail.
TypeOK ==
  /\ state \in TaskState
  /\ DOMAIN calls \subseteq CallIds
  /\ \A i \in DOMAIN calls : calls[i] \in Call

\* The detail next to the list is that of the selected run, whatever order the
\* answers of the list and of several details arrive in.
DetailIsOfSelection == state.currentTaskDetail \in {None, state.currentTaskId}

\* Without a list call that is still to count, the list answers the filters
\* the user sees, or failed and is empty.
ListIsCurrent ==
  state.active /\ ~Pending(calls, state.listVersion, "list") =>
     state.listStatus = "error" \/ state.runsOf = state.query

\* Whatever the page shows as running has a call that will end it.
BusyIsPending ==
  /\ state.listStatus = "running" => Pending(calls, state.listVersion, "list")
  /\ state.detailStatus = "running" => Pending(calls, state.detailVersion, "detail")
  /\ state.refreshLoading =>
       \E i \in DOMAIN calls : calls[i].op = "list" /\ calls[i].refresh

\* Whatever the service has sent of a run can be seen: each run passes one of the options
\* of a filter next to "all", and longer ranges show more; each event is in one group
\* that there is an option for, those shown are counted, and each artifact is in one
\* group; a failure is never shown in a good tone.
DetailTellsAll ==
  LET options == taskFilterOptions
      PassingOne(run, field) ==
        {option \in options[field] \ {"all"} :
           matchesTaskListFilter(run, [DefaultFilters EXCEPT ![field] = option])}
      InGroups(row, groups) == Cardinality({k \in DOMAIN groups : row \in ToSet(groups[k])})
  IN /\ SetFields(state.filters) \cap ListFields = {} => filteredTaskRuns = state.runs
     /\ \A task \in state.runs :
          LET run == RunOf[task] badges == ToSet(taskRunBadgeRows(run)) IN
          /\ \A field \in {"outcome", "recording", "error"} : Cardinality(PassingOne(run, field)) = 1
          /\ PassingOne(run, "timeRange") \in {{"1h", "6h", "24h", "7d"}, {"6h", "24h", "7d"},
                                              {"24h", "7d"}, {"7d"}, {}}
          /\ (run.status = "failed" \/ run.outcome = "failed") <=> "rose" \in badges
     /\ \A task \in {state.currentTaskDetail} \ {None} :
          LET events == DetailOf[task].events
              shown == taskEventsPresentation(events, state.filters)
              groups == [k \in DOMAIN shown.eventGroupRows |-> shown.eventGroupRows[k].taskEvents]
              artifacts == taskDetailPresentation(task).artifactGroups
              Total[k \in 0..Len(groups)] == IF k = 0 THEN 0 ELSE Len(groups[k]) + Total[k - 1]
          IN /\ shown.countText = <<Total[Len(groups)], Len(events)>>
             /\ SetFields(state.filters) \subseteq ListFields =>
                  \A event \in ToSet(events) : InGroups(taskEventRow(event), groups) = 1
             /\ \A k \in DOMAIN shown.eventGroupRows :
                  shown.eventGroupRows[k].eventGroupName \in
                    IF state.filters.eventGroup = "all" THEN EventGroups ELSE {state.filters.eventGroup}
             /\ \A artifact \in ToSet(DetailOf[task].artifacts) : InGroups(artifact, artifacts) = 1
=============================================================================
