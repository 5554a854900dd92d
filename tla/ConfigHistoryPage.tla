-------------------------- MODULE ConfigHistoryPage --------------------------
(***************************************************************************)
(* The page of archived configurations: devices, the snapshots of the       *)
(* selected device, the selected snapshot in a dialog.  Each level has its  *)
(* own request version; a choice on one level raises the versions below it. *)
(* Until the user has chosen a device the page follows the connection that  *)
(* is active in the console.                                                *)
(***************************************************************************)
EXTENDS Requests, FiniteSets

CONSTANTS Devices,
          Snapshots,
          Queries,          \* kind, time range and order
          DefaultQuery,
          InvalidQuery,     \* a range whose start is later than its end
          None

VARIABLES state, calls

ConfigHistoryAssumption ==
  /\ DefaultQuery \in Queries
  /\ InvalidQuery # DefaultQuery
  /\ None \notin Devices \cup Snapshots /\ None \notin {"info", "error"}

vars == <<state, calls>>

Statuses == {None, "info", "error"}

\* listOf: the device and query that snapshots answers.
ConfigHistoryState ==
  [devices: SUBSET Devices, connectionName: Devices \cup {None},
   target: Devices \cup {None}, touched: BOOLEAN, activated: BOOLEAN,
   snapshots: SUBSET Snapshots, listOf: (Devices \X Queries) \cup {None},
   selectedId: Snapshots \cup {None}, detail: Snapshots \cup {None},
   detailOpen: BOOLEAN, query: Queries,
   deviceStatus: Statuses, listStatus: Statuses, detailStatus: Statuses,
   deviceVersion: CallIds \cup {NoCall}, listVersion: CallIds \cup {NoCall},
   detailVersion: CallIds \cup {NoCall}]

Call ==
  [op: {"devices"}] \cup [op: {"history"}, device: Devices, query: Queries]
    \cup [op: {"detail", "remove"}, id: Snapshots]

Init ==
  /\ \E target \in Devices \cup {None} :
       state = [devices |-> {}, connectionName |-> None, target |-> target,
                touched |-> FALSE, activated |-> FALSE, snapshots |-> {},
                listOf |-> None, selectedId |-> None, detail |-> None,
                detailOpen |-> FALSE, query |-> DefaultQuery,
                deviceStatus |-> None, listStatus |-> None, detailStatus |-> None,
                deviceVersion |-> NoCall, listVersion |-> NoCall,
                detailVersion |-> NoCall]
  /\ calls = NoCalls

-----------------------------------------------------------------------------
\* Everything that belongs to the selected device is cleared.
clearConfigHistoryState(s, device) ==
  [s EXCEPT !.connectionName = device, !.snapshots = {}, !.listOf = None,
            !.selectedId = None, !.detail = None, !.detailOpen = FALSE,
            !.query = DefaultQuery, !.listStatus = None, !.detailStatus = None]

Unselected(s) ==
  [s EXCEPT !.detail = None, !.detailOpen = FALSE, !.detailStatus = None]

\* refreshHistory from the store s and the calls cs; id is the call it takes.
NeedsCall(s) == s.connectionName # None /\ s.query # InvalidQuery
refreshHistory(s, id) ==
  IF s.connectionName = None
  THEN [clearConfigHistoryState(s, None) EXCEPT !.listVersion = NoCall,
                                                !.detailVersion = NoCall]
  ELSE IF s.query = InvalidQuery
       THEN [s EXCEPT !.listVersion = NoCall, !.listStatus = "error"]
       ELSE [s EXCEPT !.listVersion = id, !.listStatus = "info"]

HistoryCall(s) == [op |-> "history", device |-> s.connectionName, query |-> s.query]

\* A handler that ends with refreshHistory.
ThenHistory(s) ==
  /\ CanPost(calls)
  /\ state' = refreshHistory(s, NextId(calls))
  /\ calls' = IF NeedsCall(s) THEN Post(calls, HistoryCall(s)) ELSE calls

\* The same where it is the continuation of call i.
GoOnWithHistory(s, i) ==
  /\ state' = refreshHistory(s, i)
  /\ calls' = IF NeedsCall(s) THEN Chain(calls, i, HistoryCall(s)) ELSE Settle(calls, i)

refreshDevices(s) ==
  /\ CanPost(calls)
  /\ state' = [s EXCEPT !.deviceVersion = NextId(calls), !.deviceStatus = "info"]
  /\ calls' = Post(calls, [op |-> "devices"])

\* The first activation takes the device of the active connection.
setPageContext ==
  /\ ~state.activated
  /\ refreshDevices([state EXCEPT !.activated = TRUE,
                                  !.connectionName = state.target])

refresh == refreshDevices(state)

\* A device that is gone takes its history with it.
WithDevices(s, found) ==
  LET gone == s.connectionName # None /\ s.connectionName \notin found IN
  [(IF s.connectionName \in found THEN s ELSE clearConfigHistoryState(s, None))
     EXCEPT !.devices = found, !.deviceStatus = None,
            !.listVersion = IF gone THEN NoCall ELSE @,
            !.detailVersion = IF gone THEN NoCall ELSE @]

\* What refresh does after the answer of refreshDevices, whatever it was.
AnswerDevices(i) ==
  /\ calls[i].op = "devices"
  /\ \E s \in IF i # state.deviceVersion THEN {state}
              ELSE {WithDevices(state, found) : found \in SUBSET Devices}
                     \cup {[state EXCEPT !.deviceStatus = "error"]} :
       IF s.connectionName # None THEN GoOnWithHistory(s, i)
       ELSE state' = s /\ calls' = Settle(calls, i)

Listed(s, call, found) ==
  LET kept == s.selectedId \in found
      listed == [s EXCEPT !.snapshots = found, !.listOf = <<call.device, call.query>>,
                          !.listStatus = None,
                          !.selectedId = IF kept THEN @ ELSE None,
                          !.detailVersion = IF ~kept /\ s.selectedId # None
                                            THEN NoCall ELSE @]
  IN IF kept THEN listed ELSE Unselected(listed)

AnswerHistory(i) ==
  /\ calls[i].op = "history"
  /\ IF i # state.listVersion THEN UNCHANGED state
     ELSE \/ \E found \in SUBSET Snapshots : state' = Listed(state, calls[i], found)
          \/ state' = [state EXCEPT !.listStatus = "error"]
  /\ calls' = Settle(calls, i)

\* The active connection changes, in the console next to this page.
TargetChanges(device) ==
  /\ device # state.target
  /\ LET s == [state EXCEPT !.target = device]
         cleared == clearConfigHistoryState([s EXCEPT !.listVersion = NoCall,
                                                      !.detailVersion = NoCall], device)
     IN IF ~s.activated \/ s.touched \/ device = None \/ s.connectionName = device
        THEN state' = s /\ UNCHANGED calls
        ELSE IF device \in s.devices THEN ThenHistory(cleared)
             ELSE state' = cleared /\ UNCHANGED calls

selectDevice(device) ==
  ThenHistory(clearConfigHistoryState([state EXCEPT !.touched = TRUE,
                                                    !.detailVersion = NoCall], device))

updateHistoryQuery(query) ==
  ThenHistory([Unselected(state) EXCEPT !.query = query, !.selectedId = None,
                                        !.detailVersion = NoCall])

selectSnapshot(id) ==
  /\ CanPost(calls)
  /\ state' = [state EXCEPT !.detail = None, !.detailOpen = TRUE, !.selectedId = id,
                            !.detailStatus = "info", !.detailVersion = NextId(calls)]
  /\ calls' = Post(calls, [op |-> "detail", id |-> id])

DetailCounts(i) == i = state.detailVersion

AnswerDetail(i) ==
  /\ calls[i].op = "detail"
  /\ IF ~DetailCounts(i) THEN UNCHANGED state
     ELSE \/ state' = [state EXCEPT !.detail = calls[i].id, !.detailStatus = None]
          \/ state' = [state EXCEPT !.detail = None, !.detailStatus = "error"]
  /\ calls' = Settle(calls, i)

closeDetail ==
  /\ state' = [Unselected(state) EXCEPT !.detailVersion = NoCall]
  /\ UNCHANGED calls

removeSelected ==
  /\ state.selectedId # None
  /\ CanPost(calls)
  /\ calls' = Post(calls, [op |-> "remove", id |-> state.selectedId])
  /\ UNCHANGED state

\* Whatever is selected when the deletion has succeeded is unselected.
AnswerRemove(i) ==
  /\ calls[i].op = "remove"
  /\ \/ GoOnWithHistory([state EXCEPT !.detail = None, !.detailOpen = FALSE,
                                      !.selectedId = None], i)
     \/ state' = [state EXCEPT !.detailStatus = "error"] /\ calls' = Settle(calls, i)

-----------------------------------------------------------------------------
\* The dialog covers the page; it offers to delete what it shows.
DetailDialog ==
  \/ closeDetail
  \/ state.detail # None /\ removeSelected

DeviceList ==
  \/ refresh
  \/ state.deviceStatus = None /\ \E device \in state.devices : selectDevice(device)

HistoryList ==
  /\ state.connectionName # None
  /\ \/ \E query \in Queries \ {state.query} : updateHistoryQuery(query)
     \/ state.listStatus = None /\ \E id \in state.snapshots : selectSnapshot(id)

Next ==
  \/ setPageContext
  \/ \E device \in Devices \cup {None} : TargetChanges(device)
  \/ state.activated /\ state.detailOpen /\ DetailDialog
  \/ state.activated /\ ~state.detailOpen /\ (DeviceList \/ HistoryList)
  \/ \E i \in DOMAIN calls : \/ AnswerDevices(i) \/ AnswerHistory(i)
                             \/ AnswerDetail(i) \/ AnswerRemove(i)

Spec == Init /\ [][Next]_vars

-----------------------------------------------------------------------------
\* The store and the calls have their types.
TypeOK ==
  /\ state \in ConfigHistoryState
  /\ DOMAIN calls \subseteq CallIds
  /\ \A i \in DOMAIN calls : calls[i] \in Call

\* The open dialog shows the selected snapshot, so that Delete deletes what the
\* user sees, while deletions, lists and details end in any order.
DetailIsOfSelection ==
  state.detailOpen => state.detail \in {None, state.selectedId}

\* A list that is shown without a status is the one of the selected device under
\* the chosen filters, unless it is still loading.
ListIsCurrent ==
  state.connectionName \in state.devices /\ state.listStatus = None =>
    \/ state.listOf = <<state.connectionName, state.query>>
    \/ \E i \in DOMAIN calls : calls[i].op = "devices"

\* What is shown as loading is being loaded.
BusyIsPending ==
  /\ state.deviceStatus = "info" => Pending(calls, state.deviceVersion, "devices")
  /\ state.listStatus = "info" => Pending(calls, state.listVersion, "history")
  /\ state.detailStatus = "info" => Pending(calls, state.detailVersion, "detail")
=============================================================================
