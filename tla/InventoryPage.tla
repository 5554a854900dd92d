---------------------------- MODULE InventoryPage ----------------------------
(***************************************************************************)
(* One collection of the inventory page, groups or labels: its list, the    *)
(* selected item, the form with the members of the item, and the dialog     *)
(* that creates one.  Both collections run the same code on their own part  *)
(* of the store.  formOf names the item whose members and description the   *)
(* form was filled with, None for an empty form.                            *)
(***************************************************************************)
EXTENDS Requests, FiniteSets

CONSTANTS Names, None

VARIABLES state, calls

InventoryAssumption == None \notin Names

vars == <<state, calls>>

Tones == {"info", "running", "success", "error"}

\* failed: the item whose detail could not be loaded, for the properties only.
InventoryCollectionState ==
  [items: SUBSET Names, selectedName: Names \cup {None}, formOf: Names \cup {None},
   edited: BOOLEAN, statusTone: Tones, listFailed: BOOLEAN,
   failed: Names \cup {None},
   active: BOOLEAN, didInitialLoad: BOOLEAN, destroyed: BOOLEAN,
   dialog: {"closed", "open", "submitting"},
   listVersion: CallIds \cup {NoCall}, detailVersion: CallIds \cup {NoCall},
   connectionsVersion: CallIds \cup {NoCall}]

\* dialog: the dialog waits for the call; reload: the call is part of
\* reloadAfterMutation and the next part follows it.
Call ==
  [op: {"list", "connections", "reload"}, dialog: BOOLEAN, reload: BOOLEAN]
    \cup [op: {"detail"}, name: Names, dialog: BOOLEAN]
    \cup [op: {"save"}, name: Names, of: Names \cup {None}, dialog: BOOLEAN]
    \cup [op: {"delete"}, name: Names, dialog: {FALSE}]

Init ==
  /\ state = [items |-> {}, selectedName |-> None, formOf |-> None,
              edited |-> FALSE, statusTone |-> "info", listFailed |-> FALSE,
              failed |-> None, active |-> FALSE, didInitialLoad |-> FALSE,
              destroyed |-> FALSE, dialog |-> "closed", listVersion |-> NoCall,
              detailVersion |-> NoCall, connectionsVersion |-> NoCall]
  /\ calls = NoCalls

-----------------------------------------------------------------------------
applyInventoryItem(s, name) ==
  [s EXCEPT !.selectedName = name, !.formOf = name, !.edited = FALSE,
            !.failed = None]

resetInventorySelection(s, name) ==
  [s EXCEPT !.selectedName = name, !.formOf = None, !.edited = FALSE,
            !.failed = None]

\* Nothing changes the store of a page that was destroyed.
Alive(s) == IF state.destroyed THEN state ELSE s

\* The end of what the dialog waits for closes it.
Closes(s, call) == IF call.dialog THEN [s EXCEPT !.dialog = "closed"] ELSE s

\* loadCollections: three calls at once, of which the saved connections are one.
loadCollections(s) ==
  /\ Cardinality(Free(calls)) >= 2
  /\ LET id == NextId(calls)
         listing == Post(calls, [op |-> "list", dialog |-> FALSE, reload |-> FALSE])
     IN /\ calls' = Post(listing, [op |-> "connections", dialog |-> FALSE,
                                   reload |-> FALSE])
        /\ state' = [s EXCEPT !.listVersion = id,
                              !.connectionsVersion = NextId(listing)]

loadConnections ==
  /\ CanPost(calls)
  /\ calls' = Post(calls, [op |-> "connections", dialog |-> FALSE, reload |-> FALSE])
  /\ state' = [state EXCEPT !.connectionsVersion = NextId(calls)]

\* The list replaces the form of the selected item too, edited or not.
Listed(s, found) ==
  LET listed == [s EXCEPT !.items = found, !.listFailed = FALSE] IN
  IF s.selectedName \in found THEN applyInventoryItem(listed, s.selectedName)
  ELSE IF s.selectedName # None THEN resetInventorySelection(listed, None)
  ELSE listed

AnswerList(i) ==
  LET call == calls[i] IN
  /\ call.op = "list"
  /\ \E s \in IF i # state.listVersion \/ state.destroyed THEN {state}
              ELSE {Listed(state, found) : found \in SUBSET Names}
                     \cup {resetInventorySelection([state EXCEPT !.items = {},
                                                    !.listFailed = TRUE], None)} :
       state' = s
  /\ calls' = IF call.reload THEN Chain(calls, i, [call EXCEPT !.op = "reload"])
              ELSE Settle(calls, i)

\* The saved connections of the console are reloaded before those of the page.
AnswerReload(i) ==
  LET call == calls[i] IN
  /\ call.op = "reload"
  /\ \/ /\ calls' = Chain(calls, i, [call EXCEPT !.op = "connections"])
        /\ state' = [state EXCEPT !.connectionsVersion = i]
     \/ /\ calls' = Settle(calls, i)
        /\ state' = Closes(Alive([state EXCEPT !.statusTone = "error"]), call)

AnswerConnections(i) ==
  /\ calls[i].op = "connections"
  /\ state' = Closes(state, calls[i])
  /\ calls' = Settle(calls, i)

\* The selection shows at once, its members when they have arrived.
loadDetail(s, name, dialog) ==
  /\ CanPost(calls)
  /\ calls' = Post(calls, [op |-> "detail", name |-> name, dialog |-> dialog])
  /\ state' = [s EXCEPT !.selectedName = name, !.statusTone = "running",
                        !.detailVersion = NextId(calls)]

DetailCounts(i) == i = state.detailVersion /\ ~state.destroyed

AnswerDetail(i) ==
  LET call == calls[i]
      hint(s) == IF call.dialog /\ ~s.destroyed
                 THEN [s EXCEPT !.statusTone = "info"] ELSE s
  IN /\ call.op = "detail"
     /\ \E s \in IF ~DetailCounts(i) THEN {state}
                 ELSE {applyInventoryItem([state EXCEPT !.statusTone = "success"],
                                          call.name),
                       [state EXCEPT !.statusTone = "error", !.failed = call.name]} :
          state' = Closes(hint(s), call)
     /\ calls' = Settle(calls, i)

\* What is saved is what the form holds when the button is pressed.
saveByName(s, name, dialog) ==
  /\ CanPost(calls)
  /\ calls' = Post(calls, [op |-> "save", name |-> name, of |-> s.formOf,
                           dialog |-> dialog])
  /\ state' = [s EXCEPT !.statusTone = "running"]

reloadAfterMutation(i, dialog) ==
  calls' = Chain(calls, i, [op |-> "list", dialog |-> dialog, reload |-> TRUE])

AnswerSave(i) ==
  LET call == calls[i] IN
  /\ call.op = "save"
  /\ \/ /\ state' = [Alive(applyInventoryItem([state EXCEPT !.statusTone = "success"],
                                              call.name))
                       EXCEPT !.listVersion = i]
        /\ reloadAfterMutation(i, call.dialog)
     \/ /\ state' = Closes(Alive([state EXCEPT !.statusTone = "error"]), call)
        /\ calls' = Settle(calls, i)

createDraft(name) ==
  LET submitting == [state EXCEPT !.dialog = "submitting"] IN
  IF name \in state.items THEN loadDetail(submitting, name, TRUE)
  ELSE saveByName(resetInventorySelection(submitting, name), name, TRUE)

deleteSelection ==
  /\ CanPost(calls)
  /\ calls' = Post(calls, [op |-> "delete", name |-> state.selectedName,
                           dialog |-> FALSE])
  /\ state' = [state EXCEPT !.statusTone = "running"]

AnswerDelete(i) ==
  /\ calls[i].op = "delete"
  /\ \/ /\ state' = [Alive(resetInventorySelection(
                       [state EXCEPT !.statusTone = "success"], None))
                       EXCEPT !.listVersion = i]
        /\ reloadAfterMutation(i, FALSE)
     \/ /\ state' = Alive([state EXCEPT !.statusTone = "error"])
        /\ calls' = Settle(calls, i)

Edit ==
  /\ ~state.edited
  /\ state' = [state EXCEPT !.edited = TRUE]
  /\ UNCHANGED calls

-----------------------------------------------------------------------------
setPageContext ==
  IF state.active
  THEN /\ state' = [state EXCEPT !.active = FALSE, !.didInitialLoad = FALSE]
       /\ UNCHANGED calls
  ELSE loadCollections([state EXCEPT !.active = TRUE, !.didInitialLoad = TRUE])

\* Another part of the console has changed connections or all resources.
RefreshVersions ==
  /\ state.active /\ state.didInitialLoad
  /\ loadConnections \/ loadCollections(state)

destroy ==
  /\ ~state.destroyed
  /\ state' = [state EXCEPT !.active = FALSE, !.didInitialLoad = FALSE,
                            !.destroyed = TRUE, !.listVersion = NoCall,
                            !.detailVersion = NoCall, !.connectionsVersion = NoCall]
  /\ UNCHANGED calls

OpenDialog(to) == state' = [state EXCEPT !.dialog = to] /\ UNCHANGED calls

CreateDialog ==
  \/ state.dialog = "open" /\ OpenDialog("closed")
  \/ state.dialog = "open" /\ \E name \in Names : createDraft(name)

CollectionPanel ==
  /\ state.dialog = "closed"
  /\ \/ OpenDialog("open")
     \/ \E name \in state.items : loadDetail(state, name, FALSE)
     \/ /\ state.selectedName # None
        /\ Edit \/ saveByName(state, state.selectedName, FALSE) \/ deleteSelection

Next ==
  \/ ~state.destroyed /\ (setPageContext \/ RefreshVersions \/ destroy)
  \/ state.active /\ (CreateDialog \/ CollectionPanel)
  \/ \E i \in DOMAIN calls : \/ AnswerList(i) \/ AnswerReload(i)
                             \/ AnswerConnections(i) \/ AnswerDetail(i)
                             \/ AnswerSave(i) \/ AnswerDelete(i)

Spec == Init /\ [][Next]_vars

-----------------------------------------------------------------------------
\* The store and the calls have their types.
TypeOK ==
  /\ state \in InventoryCollectionState
  /\ DOMAIN calls \subseteq CallIds
  /\ \A i \in DOMAIN calls : calls[i] \in Call

\* When nothing is in flight, the members in the form are those of the selected
\* item, whatever order lists, details, saves and deletions have ended in; or
\* the form is that of a new item, or the detail could not be loaded.
FormIsOfSelection ==
  calls = NoCalls => \/ state.formOf \in {None, state.selectedName}
                     \/ state.failed = state.selectedName
                     \/ state.destroyed

\* A save of an item sends the members that were loaded for it, or those chosen for
\* a new one.  It does not hold: nothing keeps an item that is selected from being
\* saved before its members arrive, and then it is given those of the one before.
SavesItsMembers ==
  \A i \in DOMAIN calls :
    calls[i].op = "save" => calls[i].of \in {None, calls[i].name}

\* The dialog that waits is waiting for a call, which will close it.
BusyIsPending ==
  /\ state.dialog = "submitting" => \E i \in DOMAIN calls : calls[i].dialog
  /\ state.statusTone = "running" /\ ~state.destroyed =>
       \/ Pending(calls, state.detailVersion, "detail")
       \/ \E i \in DOMAIN calls : calls[i].op \in {"save", "delete"}
=============================================================================
