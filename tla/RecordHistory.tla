--------------------------- MODULE RecordHistory ---------------------------
(***************************************************************************)
(* The record drawer with the history of connections, the dialog of one      *)
(* record, the drawer of one event, and the page that replays a recording.   *)
(*                                                                          *)
(* The drawer filters by device and number at the service, by operation in   *)
(* the console; its list has a request version, its records have none.  A    *)
(* recording reaches the replay page through a store: transfer is the last   *)
(* one that was sent, fresh whether the page is still to take it.  A page    *)
(* that is left is destroyed and takes its answers with it.                  *)
(***************************************************************************)
EXTENDS Requests, FiniteSets

CONSTANTS Items,         \* records, numbered in the order of their time
          DeviceOf,      \* their devices
          OperationOf,   \* their operations
          RecordingOf,   \* their recordings
          Blank,         \* no recording
          Failing,       \* recordings with failed commands
          Limits, DefaultLimit, Operations, All

RecordHistoryAssumption ==
  /\ Items \subseteq Nat
  /\ DefaultLimit \in Limits /\ Limits \subseteq Nat \ {0}
  /\ All \in Operations /\ Blank \notin Failing

VARIABLES state, calls

Devices == {DeviceOf[i] : i \in Items}
Recordings == {RecordingOf[i] : i \in Items} \cup {Blank}
ListStatuses == {"running", "info", "success", "error"}
NoDetail == [kind |-> "none"]
TextDetail(text) == [kind |-> "text", text |-> text]
HistoryDetail(id) == [kind |-> "historyDetail", id |-> id]
Details == {NoDetail, TextDetail("running"), TextDetail("error")} \cup {HistoryDetail(i) : i \in Items}

\* stored is the history the service keeps; listOf the device and the number the
\* list answers; reset whether the timer that clears a closed dialog runs.
RecordHistoryState ==
  [stored: SUBSET Items,
   drawerOpen: BOOLEAN, device: Devices \cup {All}, limit: Limits, operation: Operations,
   devices: SUBSET Devices, items: SUBSET Items,
   listOf: [device: Devices \cup {All}, limit: Limits],
   listStatus: ListStatuses, listVersion: CallIds \cup {NoCall},
   refreshes: 0..Cardinality(CallIds), refreshLoading: BOOLEAN,
   detailOpen: BOOLEAN, detail: Details, reset: BOOLEAN, entryOpen: BOOLEAN,
   page: {"replay", "other"}, transfer: Recordings, fresh: BOOLEAN, message: BOOLEAN,
   jsonl: Recordings, result: Recordings, status: {"", "running", "error", "message"},
   keys: SUBSET {"list", "command"}, failedOnly: BOOLEAN]

Call ==
  [op: {"history"}, device: Devices \cup {All}, limit: Limits,
   refreshDevices: BOOLEAN, refresh: BOOLEAN]
  \cup [op: {"detail", "replay", "delete"}, id: Items]
  \cup [op: {"list", "command"}, jsonl: Recordings]

NewReplay(s) ==
  [s EXCEPT !.jsonl = Blank, !.result = Blank, !.status = "", !.keys = {}]

Init ==
  /\ state = [stored |-> Items, drawerOpen |-> FALSE, device |-> All, limit |-> DefaultLimit,
              operation |-> All, devices |-> {}, items |-> {},
              listOf |-> [device |-> All, limit |-> DefaultLimit],
              listStatus |-> "info", listVersion |-> NoCall,
              refreshes |-> 0, refreshLoading |-> FALSE,
              detailOpen |-> FALSE, detail |-> NoDetail, reset |-> FALSE, entryOpen |-> FALSE,
              page |-> "other", transfer |-> Blank, fresh |-> FALSE, message |-> FALSE,
              jsonl |-> Blank, result |-> Blank, status |-> "", keys |-> {},
              failedOnly |-> FALSE]
  /\ calls = NoCalls

\* The overlays are modal: only the uppermost can be clicked.
DrawerOnTop == state.drawerOpen /\ ~state.detailOpen /\ ~state.entryOpen
PageOnTop == ~state.drawerOpen /\ ~state.detailOpen /\ ~state.entryOpen

-----------------------------------------------------------------------------
(***************************************************************************)
(* The list.                                                                *)
(***************************************************************************)
selectedHistoryTargetQuery(s) == IF s.device \in s.devices THEN s.device ELSE All

HistoryCall(s, refreshDevices, refresh) ==
  [op |-> "history", device |-> selectedHistoryTargetQuery(s), limit |-> s.limit,
   refreshDevices |-> refreshDevices, refresh |-> refresh]

\* The list is emptied when it is asked for; id is the call it takes.
Asking(s, id) == [s EXCEPT !.items = {}, !.listStatus = "running", !.listVersion = id]

loadConnectionHistory(s) ==
  /\ CanPost(calls)
  /\ state' = Asking(s, NextId(calls))
  /\ calls' = Post(calls, HistoryCall(s, FALSE, FALSE))

refreshConnectionHistory(s) ==
  /\ CanPost(calls)
  /\ state' = [Asking(s, NextId(calls)) EXCEPT !.refreshes = @ + 1, !.refreshLoading = TRUE]
  /\ calls' = Post(calls, HistoryCall(s, TRUE, TRUE))

\* Opening the drawer shows the device of the active connection.
openConnectionHistory(target) ==
  /\ PageOnTop
  /\ refreshConnectionHistory(
       [state EXCEPT !.drawerOpen = TRUE, !.device = target, !.devices = {target} \ {All}])

refreshHistory == DrawerOnTop /\ ~state.refreshLoading /\ refreshConnectionHistory(state)
changeDevice(device) ==
  /\ DrawerOnTop /\ device \in (state.devices \cup {All}) \ {state.device}
  /\ loadConnectionHistory([state EXCEPT !.device = device])
changeLimit(limit) ==
  /\ DrawerOnTop /\ limit # state.limit
  /\ loadConnectionHistory([state EXCEPT !.limit = limit])
changeOperation(operation) ==
  /\ DrawerOnTop /\ operation # state.operation
  /\ state' = [state EXCEPT !.operation = operation] /\ UNCHANGED calls
clearFilters ==
  /\ DrawerOnTop
  /\ loadConnectionHistory([state EXCEPT !.device = All, !.operation = All])

\* The newest records of a device.
Listed(stored, device, limit) ==
  LET matching == {i \in stored : device \in {All, DeviceOf[i]}}
  IN {i \in matching : Cardinality({j \in matching : j >= i}) <= limit}

FoundAlone(found) == found
\* The selected device stays in the list of devices whatever the service knows.
mergeHistoryDevices(found) == found \cup ({selectedHistoryTargetQuery(state)} \ {All})

EndLatestRefresh(s, i) ==
  IF i # state.listVersion THEN s
  ELSE [s EXCEPT !.refreshes = @ - 1, !.refreshLoading = FALSE]

\* Refreshes are counted: the last one that ends frees the button.
EndRefresh(s, i) ==
  IF ~calls[i].refresh THEN s
  ELSE [s EXCEPT !.refreshes = @ - 1, !.refreshLoading = s.refreshes > 1]

\* The same with any answer taken for the latest.
AnswerAnyHistory(i) ==
  /\ calls[i].op = "history"
  /\ state' = EndRefresh([state EXCEPT
                !.items = Listed(state.stored, calls[i].device, calls[i].limit),
                !.listOf = [device |-> calls[i].device, limit |-> calls[i].limit],
                !.listStatus = "info"], i)
  /\ calls' = Settle(calls, i)

AnswerHistory(i) ==
  /\ calls[i].op = "history"
  /\ \E s \in
       IF i # state.listVersion THEN {state}
       ELSE {[state EXCEPT !.items = {}, !.listStatus = "error"]}
            \cup {[state EXCEPT
                    !.devices = IF known = {} THEN @ ELSE mergeHistoryDevices(known),
                    !.items = Listed(state.stored, calls[i].device, calls[i].limit),
                    !.listOf = [device |-> calls[i].device, limit |-> calls[i].limit],
                    !.listStatus = "info"]
                  : known \in {{}} \cup
                      (IF calls[i].refreshDevices THEN {{DeviceOf[n] : n \in state.stored}} ELSE {})} :
       state' = EndRefresh(s, i)
  /\ calls' = Settle(calls, i)

\* The rows of the drawer.
historyDrawerFilteredItems ==
  {i \in state.items : state.device \in {All, DeviceOf[i]}
                       /\ state.operation \in {All, OperationOf[i]}}

-----------------------------------------------------------------------------
(***************************************************************************)
(* Deleting a record, and showing one.                                      *)
(***************************************************************************)
deleteConnectionHistoryItem(id) ==
  /\ DrawerOnTop /\ id \in historyDrawerFilteredItems /\ CanPost(calls)
  /\ state' = [state EXCEPT !.listStatus = "running"]
  /\ calls' = Post(calls, [op |-> "delete", id |-> id])

AnswerDeleteAlone(i) ==
  /\ calls[i].op = "delete"
  /\ state' = [state EXCEPT !.stored = @ \ {calls[i].id}, !.listStatus = "success"]
  /\ calls' = Settle(calls, i)

\* What was deleted is read again, with the filters as they are by then.
AnswerDelete(i) ==
  /\ calls[i].op = "delete"
  /\ \/ LET s == [state EXCEPT !.stored = @ \ {calls[i].id}] IN
        /\ state' = Asking(s, i)
        /\ calls' = Chain(calls, i, HistoryCall(s, TRUE, FALSE))
     \/ state' = [state EXCEPT !.listStatus = "error"] /\ calls' = Settle(calls, i)

openDetailModal(s, detail) == [s EXCEPT !.detailOpen = TRUE, !.detail = detail, !.reset = FALSE]

loadConnectionHistoryDetail(id) ==
  /\ DrawerOnTop /\ id \in historyDrawerFilteredItems /\ CanPost(calls)
  /\ state' = openDetailModal(state, TextDetail("running"))
  /\ calls' = Post(calls, [op |-> "detail", id |-> id])

\* The record opens the dialog again if it was closed meanwhile.
AnswerDetail(i) ==
  /\ calls[i].op = "detail"
  /\ \/ calls[i].id \in state.stored /\ state' = openDetailModal(state, HistoryDetail(calls[i].id))
     \/ state' = openDetailModal(state, TextDetail("error"))
  /\ calls' = Settle(calls, i)

closeDetailModal(s) == [s EXCEPT !.detailOpen = FALSE, !.reset = TRUE]

\* The content of a closed dialog is cleared once it has faded out.
ResetTimer ==
  /\ state.reset
  /\ state' = [state EXCEPT !.reset = FALSE,
                            !.detail = IF state.detailOpen THEN @ ELSE NoDetail]
  /\ UNCHANGED calls

historyEntryOpenHandler ==
  /\ state.detailOpen /\ ~state.entryOpen /\ state.detail.kind = "historyDetail"
  /\ state' = [state EXCEPT !.entryOpen = TRUE] /\ UNCHANGED calls

\* Escape and the buttons of the overlays close the uppermost.
closeTopDashboardOverlayOnEscape ==
  /\ state' = IF state.entryOpen THEN [state EXCEPT !.entryOpen = FALSE]
              ELSE IF state.detailOpen THEN closeDetailModal(state)
              ELSE [state EXCEPT !.drawerOpen = FALSE]
  /\ ~PageOnTop /\ UNCHANGED calls

-----------------------------------------------------------------------------
(***************************************************************************)
(* The replay page.                                                         *)
(***************************************************************************)
TransferAlways(s) ==
  [s EXCEPT !.jsonl = s.transfer, !.result = Blank, !.fresh = FALSE]

\* A recording is taken once; it clears the result of another.
applyReplayJsonlTransfer(s) ==
  IF ~s.fresh THEN s
  ELSE [s EXCEPT !.jsonl = s.transfer, !.result = Blank, !.fresh = FALSE]

applyReplaySyncState(s) ==
  IF s.page # "replay" THEN s
  ELSE [applyReplayJsonlTransfer(s) EXCEPT !.status = IF s.message THEN "message" ELSE ""]

\* A record without recording leaves a message only.
sendRecordingToReplay(s, recording) ==
  applyReplaySyncState(
    IF recording = Blank THEN [s EXCEPT !.message = TRUE]
    ELSE [s EXCEPT !.transfer = recording, !.fresh = TRUE, !.message = TRUE])

replayConnectionHistoryItem(id) ==
  /\ DrawerOnTop /\ id \in historyDrawerFilteredItems /\ CanPost(calls)
  /\ calls' = Post(calls, [op |-> "replay", id |-> id]) /\ UNCHANGED state

\* Entering the page makes another one, which takes the last recording again.
setPageContext(s) ==
  IF s.page = "replay" THEN s
  ELSE applyReplaySyncState([NewReplay(s) EXCEPT !.page = "replay", !.fresh = s.transfer # Blank])

AnswerReplay(i) ==
  /\ calls[i].op = "replay"
  /\ LET recording == RecordingOf[calls[i].id]
         sent == sendRecordingToReplay(state, recording)
     IN \/ state' = IF recording = Blank THEN sent
                    ELSE setPageContext([sent EXCEPT !.drawerOpen = FALSE])
        \/ state' = [state EXCEPT !.listStatus = "error"]
  /\ calls' = Settle(calls, i)

enterReplay ==
  /\ PageOnTop /\ state.page = "other"
  /\ state' = setPageContext(state) /\ UNCHANGED calls

\* The answers to a page that is left reach nobody.
destroy ==
  /\ PageOnTop /\ state.page = "replay"
  /\ state' = [NewReplay(state) EXCEPT !.page = "other", !.fresh = FALSE]
  /\ calls' = [i \in {j \in DOMAIN calls : calls[j].op \notin {"list", "command"}} |-> calls[i]]

OnReplay == PageOnTop /\ state.page = "replay"

setJsonl(jsonl) ==
  /\ OnReplay /\ jsonl # state.jsonl
  /\ state' = [state EXCEPT !.jsonl = jsonl] /\ UNCHANGED calls

\* Listing and running a recording are counted apart, and both show their answer.
executeReplay(op) ==
  /\ OnReplay /\ op \notin state.keys
  /\ IF state.jsonl = Blank
     THEN state' = [state EXCEPT !.status = "error"] /\ UNCHANGED calls
     ELSE /\ CanPost(calls)
          /\ state' = [state EXCEPT !.status = "running", !.keys = @ \cup {op}]
          /\ calls' = Post(calls, [op |-> op, jsonl |-> state.jsonl])

AnswerExecute(i) ==
  /\ calls[i].op \in {"list", "command"}
  /\ LET s == [state EXCEPT !.keys = @ \ {calls[i].op}] IN
     \/ state' = [s EXCEPT !.result = calls[i].jsonl, !.status = ""]
     \/ state' = [s EXCEPT !.status = "error"]
  /\ calls' = Settle(calls, i)

setFailedOnly(failedOnly) ==
  /\ OnReplay /\ failedOnly # state.failedOnly
  /\ state' = [state EXCEPT !.failedOnly = failedOnly] /\ UNCHANGED calls

\* The events of the result can be opened unless a status stands in their place.
replayFilteredEntries == state.result # Blank /\ (state.failedOnly => state.result \in Failing)
replayEntryOpenIndexHandler ==
  /\ OnReplay /\ state.status = "" /\ replayFilteredEntries
  /\ state' = [state EXCEPT !.entryOpen = TRUE] /\ UNCHANGED calls

-----------------------------------------------------------------------------
HistoryFilters ==
  \/ refreshHistory \/ clearFilters
  \/ \E device \in Devices \cup {All} : changeDevice(device)
  \/ \E limit \in Limits : changeLimit(limit)
  \/ \E operation \in Operations : changeOperation(operation)

historyCard(id) ==
  \/ deleteConnectionHistoryItem(id)
  \/ loadConnectionHistoryDetail(id)
  \/ replayConnectionHistoryItem(id)

ReplayControlsPanel ==
  \/ \E jsonl \in Recordings : setJsonl(jsonl)
  \/ \E op \in {"list", "command"} : executeReplay(op)

ReplayResultsPanel ==
  \/ \E failedOnly \in BOOLEAN : setFailedOnly(failedOnly)
  \/ replayEntryOpenIndexHandler

Next ==
  \/ \E target \in Devices \cup {All} : openConnectionHistory(target)
  \/ HistoryFilters \/ (\E id \in Items : historyCard(id))
  \/ ReplayControlsPanel \/ ReplayResultsPanel
  \/ historyEntryOpenHandler \/ closeTopDashboardOverlayOnEscape \/ ResetTimer
  \/ enterReplay \/ destroy
  \/ \E i \in DOMAIN calls : \/ AnswerHistory(i) \/ AnswerDelete(i) \/ AnswerDetail(i)
                             \/ AnswerReplay(i) \/ AnswerExecute(i)

-----------------------------------------------------------------------------
TypeOK ==
  /\ state \in RecordHistoryState
  /\ DOMAIN calls \subseteq CallIds /\ \A i \in DOMAIN calls : calls[i] \in Call

\* The records in the drawer are those of the device and the number that are selected
\* above it, and none of them was deleted before the list was read.
ListIsCurrent ==
  /\ state.items # {} => state.listOf = [device |-> state.device, limit |-> state.limit]
  /\ state.items \subseteq state.stored

\* The device that is selected can be asked for: it is among the devices of the drawer.
DeviceIsKnown == state.device \in state.devices \cup {All}

\* "running" is shown while something runs that will end it: in the list, in the dialog,
\* on the replay page and on the buttons of the two.
BusyIsPending ==
  LET InFlight(ops) == \E i \in DOMAIN calls : calls[i].op \in ops IN
  /\ state.listStatus = "running" => InFlight({"history", "delete"})
  /\ state.refreshLoading => \E i \in DOMAIN calls : calls[i].op = "history" /\ calls[i].refresh
  /\ state.detail = TextDetail("running") => InFlight({"detail"})
  /\ state.status = "running" => InFlight({"list", "command"})
  /\ \A key \in state.keys : InFlight({key})

\* An open dialog has a content.
OpenHasContent == state.detailOpen => state.detail # NoDetail

\* The text on the replay page changes when it is typed and when the recording of a
\* record arrives, never because a message does.
TextIsKept ==
  state.page = "replay" /\ state'.page = "replay" /\ state'.jsonl # state.jsonl
  => \/ \E jsonl \in Recordings : setJsonl(jsonl)
     \/ \E i \in DOMAIN calls :
          /\ calls[i].op = "replay" /\ i \notin DOMAIN calls'
          /\ state'.jsonl = RecordingOf[calls[i].id] /\ state'.jsonl # Blank
=============================================================================
