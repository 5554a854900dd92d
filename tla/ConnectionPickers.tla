--------------------------- MODULE ConnectionPickers ---------------------------
(***************************************************************************)
(* The pickers of groups, labels, devices and show objects: one store each,  *)
(* under a key, that the forms, the pages and the answers of the service     *)
(* write to, and a field that shows it while its place is open.             *)
(*                                                                          *)
(* A name and what is typed are members of Texts; a query finds the name it  *)
(* is.  What the service keeps of groups and labels is numbered, so that an  *)
(* answer may be older than what is known already: the two lists are read    *)
(* at any time between the question and the answer.                         *)
(***************************************************************************)
EXTENDS Requests, FiniteSets, SequencesExt

CONSTANTS Keys,         \* the pickers of the model
          Texts, None,
          Inventories,  \* what the service may keep: groups and labels
          DeviceLists,  \* the names a list of saved connections may have
          Selections,   \* what is selected by a connection, a job or a page
          MaxChanges    \* bound: how often the inventory changes

VARIABLES state, calls

GroupKeys == {"savedGroups", "savedEditGroups", "batchShowGroups", "batchExecGroups",
              "batchInteractiveGroups", "configFetchGroups", "orchestrationTargetGroups"}
LabelKeys == {"savedLabels", "savedEditLabels", "batchShowLabels", "batchExecLabels",
              "batchInteractiveLabels", "configFetchLabels", "orchestrationTargetTags"}
DeviceKeys == {"batchShowTargets", "batchExecTargets", "batchInteractiveTargets",
               "configFetchTargets", "orchestrationTargets"}
ObjectKeys == {"showObject", "batchShowObject"}
KindOf(key) ==
  CASE key \in GroupKeys -> "groups" [] key \in LabelKeys -> "labels"
    [] key \in DeviceKeys -> "devices" [] key \in ObjectKeys -> "show-objects"
AllowsCustom(key) == key \in LabelKeys \ {"orchestrationTargetTags"}

\* Where a picker is shown: the two forms of connections lie over the pages.
Dialogs == {"temporary", "editor"}
PlaceOf(key) ==
  CASE key \in {"savedGroups", "savedLabels"} -> "temporary"
    [] key \in {"savedEditGroups", "savedEditLabels"} -> "editor"
    [] key \in {"batchShowGroups", "batchShowLabels", "batchShowTargets"} \cup ObjectKeys -> "show"
    [] key \in {"batchExecGroups", "batchExecLabels", "batchExecTargets"} -> "command"
    [] key \in {"configFetchGroups", "configFetchLabels", "configFetchTargets"} -> "config"
    [] key \in {"batchInteractiveGroups", "batchInteractiveLabels", "batchInteractiveTargets"} -> "interactive"
    [] OTHER -> "orchestration"
Pages == {PlaceOf(key) : key \in Keys} \ Dialogs

ConnectionPickersAssumption ==
  /\ CallIdsAssumption /\ Keys \subseteq GroupKeys \cup LabelKeys \cup DeviceKeys \cup ObjectKeys
  /\ None \notin Texts /\ Pages # {} /\ MaxChanges \in Nat
  /\ Inventories \subseteq [groups: SUBSET Texts, labels: SUBSET Texts] /\ Inventories # {}
  /\ DeviceLists \subseteq SUBSET Texts
  /\ \A selection \in Selections : IsInjective(selection) /\ ToSet(selection) \subseteq Texts

\* known: the numbers of the groups and the labels that are known, zero for none;
\* shown: the rows of the menu, as they were when the picker changed last.
Init ==
  /\ \E inventory \in Inventories, page \in Pages :
       state = [history |-> <<inventory>>, known |-> [groups |-> 0, labels |-> 0],
                version |-> NoCall, devices |-> {}, places |-> {page},
                objects |-> [key \in Keys \cap ObjectKeys |-> {}],
                pickers |-> [key \in Keys |-> [open |-> FALSE, query |-> None, values |-> <<>>,
                                               shown |-> {}, custom |-> FALSE]]]
  /\ calls = NoCalls

Shown(s) == state' = s /\ UNCHANGED calls
mounted(s, key) == PlaceOf(key) \in s.places

-----------------------------------------------------------------------------
(***************************************************************************)
(* The store.                                                               *)
(***************************************************************************)
connectionPickerOptionValues(s, key) ==
  LET values == ToSet(s.pickers[key].values)
      available ==
        CASE KindOf(key) = "devices" -> s.devices
          [] KindOf(key) = "show-objects" -> s.objects[key]
          [] OTHER -> IF s.known[KindOf(key)] = 0 THEN {}
                      ELSE s.history[s.known[KindOf(key)]][KindOf(key)]
  IN available \cup values

connectionPickerChoices(s, key) ==
  LET picker == s.pickers[key]
      rows == {v \in connectionPickerOptionValues(s, key) : picker.query \in {None, v}}
  IN [picker EXCEPT !.shown = rows,
                    !.custom = AllowsCustom(key) /\ picker.query \notin rows \cup {None}]

\* A picker that changes shows the options that are known then.
refreshPickers(s, keys) ==
  [s EXCEPT !.pickers = [key \in Keys |-> IF key \in keys THEN connectionPickerChoices(s, key)
                                          ELSE s.pickers[key]]]
updateConnectionPickerState(s, key, picker) == refreshPickers([s EXCEPT !.pickers[key] = picker], {key})

setConnectionPickerValues(s, key, values) ==
  IF key \notin Keys THEN s
  ELSE updateConnectionPickerState(s, key, [s.pickers[key] EXCEPT !.values = values, !.query = None])
hideAlone(s, key, open) == updateConnectionPickerState(s, key, [s.pickers[key] EXCEPT !.open = open])
setOpen(s, key, open) ==
  updateConnectionPickerState(s, key,
    IF open THEN [s.pickers[key] EXCEPT !.open = TRUE]
    ELSE [s.pickers[key] EXCEPT !.open = FALSE, !.query = None])

withValue(values, v) == IF v \in ToSet(values) THEN values ELSE Append(values, v)
withoutValue(values, v) == SelectSeq(values, LAMBDA w : w # v)

\* The groups of a connection go to the temporary form and to the editor.
refreshSavedConnectionGroupOptions(s, groups) ==
  setConnectionPickerValues(setConnectionPickerValues(s, "savedGroups", groups), "savedEditGroups", groups)

-----------------------------------------------------------------------------
(***************************************************************************)
(* The field.                                                               *)
(***************************************************************************)
openPicker(key) == ~state.pickers[key].open /\ Shown(setOpen(state, key, TRUE))
closePicker(key) == state.pickers[key].open /\ Shown(setOpen(state, key, FALSE))

handleQueryInput(key, query) ==
  /\ query # state.pickers[key].query
  /\ Shown(updateConnectionPickerState(state, key,
             [state.pickers[key] EXCEPT !.query = query, !.open = TRUE]))

\* A row of the menu is selected or not any more; the last row may be what is typed.
toggled(values, v) == IF v \in ToSet(values) THEN withoutValue(values, v) ELSE withValue(values, v)
selectRow(key, v) ==
  LET picker == state.pickers[key] IN
  /\ picker.open /\ v \in picker.shown \cup (IF picker.custom THEN {picker.query} ELSE {})
  /\ Shown(setConnectionPickerValues(state, key, toggled(picker.values, v)))

setSelectedValues(key, values) ==
  state.pickers[key].values # <<>> /\ Shown(setConnectionPickerValues(state, key, values))
removePickerValueAction(key, v) ==
  /\ v \in ToSet(state.pickers[key].values)
  /\ Shown(setConnectionPickerValues(state, key, withoutValue(state.pickers[key].values, v)))

canRemoveLastOnBackspace(picker) == picker.query = None /\ picker.values # <<>>
handleBackspace(key) ==
  LET picker == state.pickers[key] IN
  /\ canRemoveLastOnBackspace(picker)
  /\ Shown(setConnectionPickerValues(state, key, withoutValue(picker.values, Last(picker.values))))

\* A comma in a picker of labels takes what is typed, where only options may be
\* selected if it is one of them.
commitsAnything(key, query) == query # None
commits(key, query) ==
  query # None /\ (AllowsCustom(key) \/ query \in connectionPickerOptionValues(state, key))
handleComma(key) ==
  LET picker == state.pickers[key]
      new == commits(key, picker.query) /\ picker.query \notin ToSet(picker.values)
      s == IF new THEN setConnectionPickerValues(state, key, withValue(picker.values, picker.query))
           ELSE state
  IN KindOf(key) = "labels" /\ (new \/ ~picker.open) /\ Shown(setOpen(s, key, TRUE))

PickerField(key) ==
  /\ mounted(state, key)
  /\ \/ openPicker(key) \/ closePicker(key) \/ handleBackspace(key) \/ handleComma(key)
     \/ setSelectedValues(key, <<>>)
     \/ \E query \in Texts \cup {None} : handleQueryInput(key, query)
     \/ \E v \in Texts : selectRow(key, v) \/ removePickerValueAction(key, v)

\* What is written in a language is written again, the rows with it.
changeLanguage ==
  LET again == refreshPickers(state, {key \in Keys : mounted(state, key)})
  IN again # state /\ Shown(again)

\* A field that goes is closed, one that comes shows its store.
moveTo(s, places) ==
  LET gone == {key \in Keys : mounted(s, key) /\ PlaceOf(key) \notin places}
      closed == [key \in Keys |-> IF key \in gone
                   THEN [s.pickers[key] EXCEPT !.open = FALSE, !.query = None] ELSE s.pickers[key]]
  IN refreshPickers([s EXCEPT !.places = places, !.pickers = closed],
                    {key \in Keys : PlaceOf(key) \notin s.places \ places})

changePage(page) == page \notin state.places /\ Shown(moveTo(state, (state.places \cap Dialogs) \cup {page}))
openDialog == "temporary" \notin state.places /\ Shown(moveTo(state, state.places \cup {"temporary"}))
closeDialog(dialog) == dialog \in state.places /\ Shown(moveTo(state, state.places \ {dialog}))

-----------------------------------------------------------------------------
(***************************************************************************)
(* What the forms and the pages write.                                      *)
(***************************************************************************)
applySavedConnectionEditorForm(groups, labels) ==
  /\ "editor" \notin state.places
  /\ Shown(moveTo(setConnectionPickerValues(setConnectionPickerValues(state, "savedEditLabels", labels),
                                            "savedEditGroups", groups),
                  state.places \cup {"editor"}))

\* A list of connections ends with the groups of the connection that is the target, with
\* those of the temporary form, or with none.
setDevicesAlone(s, devices) == [s EXCEPT !.devices = devices]
setConnectionPickerSavedConnections(s, devices) ==
  refreshPickers([s EXCEPT !.devices = devices],
                 {"batchShowTargets", "configFetchTargets", "orchestrationTargets"})
loadSavedConnections(devices, groups) ==
  Shown(refreshSavedConnectionGroupOptions(setConnectionPickerSavedConnections(state, devices), groups))

setShowObjectPickerOptions(key, objects, values) ==
  LET s == [state EXCEPT !.objects[key] = objects, !.pickers[key].query = None,
                         !.pickers[key].values = values]
  IN s.objects # state.objects /\ Shown(refreshPickers(s, {key}))

\* The job that is edited.
setJobTargets(groups, labels, devices) ==
  /\ "orchestration" \in state.places
  /\ Shown(setConnectionPickerValues(
             setConnectionPickerValues(
               setConnectionPickerValues(state, "orchestrationTargetGroups", groups),
               "orchestrationTargetTags", labels),
             "orchestrationTargets", devices))

WritesPickers ==
  \/ \E groups, labels \in Selections : applySavedConnectionEditorForm(groups, labels)
  \/ \E devices \in DeviceLists :
       \E groups \in Selections \cup {state.pickers[key].values : key \in Keys \cap {"savedGroups"}} :
         loadSavedConnections(devices, groups)
  \/ \E key \in Keys \cap ObjectKeys :
       \E objects \in DeviceLists, values \in {state.pickers[key].values, <<>>} :
         setShowObjectPickerOptions(key, objects, values)
  \/ \E groups, labels, devices \in Selections : setJobTargets(groups, labels, devices)

-----------------------------------------------------------------------------
(***************************************************************************)
(* Groups and labels.                                                       *)
(***************************************************************************)
latest == Len(state.history)
InventoryKeys ==
  {"savedGroups", "savedEditGroups", "savedLabels", "savedEditLabels", "batchShowGroups",
   "batchShowLabels", "configFetchGroups", "configFetchLabels", "orchestrationTargetGroups",
   "orchestrationTargetTags"}

\* Whoever writes the lists ends the refresh that is under way.
setSnapshotsQuietly(s, known) == refreshPickers([s EXCEPT !.known = known], InventoryKeys)
dropSelected(s, known) ==
  LET set == [s EXCEPT !.known = known, !.version = NoCall]
      options(key) == connectionPickerOptionValues([set EXCEPT !.pickers[key].values = <<>>], key)
      kept == [key \in Keys |-> IF key \in InventoryKeys
                 THEN [set.pickers[key] EXCEPT !.values = SelectSeq(@, LAMBDA v : v \in options(key))]
                 ELSE set.pickers[key]]
  IN refreshPickers([set EXCEPT !.pickers = kept], InventoryKeys)
setConnectionInventorySnapshots(s, known) ==
  refreshPickers([s EXCEPT !.known = known, !.version = NoCall], InventoryKeys)

\* The inventory page keeps, and knows, what it has saved.
syncConnectionInventory(inventory) ==
  /\ latest <= MaxChanges
  /\ LET s == [state EXCEPT !.history = Append(@, inventory)]
     IN Shown(setConnectionInventorySnapshots(s, [groups |-> latest + 1, labels |-> latest + 1]))

changedElsewhere(inventory) ==
  latest <= MaxChanges /\ Shown([state EXCEPT !.history = Append(@, inventory)])

loadConnectionInventory ==
  /\ CanPost(calls)
  /\ state' = [state EXCEPT !.version = NextId(calls)]
  /\ calls' = Post(calls, [op |-> "refresh", since |-> latest])

\* The editor of an orchestration asks for the lists when it is opened.
initializeTargetOptions ==
  /\ "orchestration" \in state.places /\ CanPost(calls) /\ UNCHANGED state
  /\ calls' = Post(calls, [op |-> "targets", since |-> latest])

isRefreshing(i) == state.version # NoCall
isCurrentRefresh(i) == state.version = i
AnswerRefresh(i) ==
  /\ calls[i].op = "refresh" /\ calls' = Settle(calls, i)
  /\ \/ state' = [state EXCEPT !.version = IF @ = i THEN NoCall ELSE @]
     \/ \E groups, labels \in calls[i].since..latest :
          state' = IF isCurrentRefresh(i)
                   THEN setConnectionInventorySnapshots(state, [groups |-> groups, labels |-> labels])
                   ELSE state

\* A list that cannot be read is empty.
AnswerTargets(i) ==
  /\ calls[i].op = "targets" /\ calls' = Settle(calls, i)
  /\ \E groups, labels \in {0} \cup calls[i].since..latest :
       state' = setConnectionInventorySnapshots(state, [groups |-> groups, labels |-> labels])

-----------------------------------------------------------------------------
Next ==
  \/ \E key \in Keys : PickerField(key)
  \/ changeLanguage \/ openDialog \/ WritesPickers
  \/ \E page \in Pages : changePage(page)
  \/ \E dialog \in Dialogs : closeDialog(dialog)
  \/ \E inventory \in Inventories : syncConnectionInventory(inventory) \/ changedElsewhere(inventory)
  \/ loadConnectionInventory \/ initializeTargetOptions
  \/ \E i \in DOMAIN calls : AnswerRefresh(i) \/ AnswerTargets(i)

Spec == Init /\ [][Next]_<<state, calls>>

-----------------------------------------------------------------------------
\* The stores and what is known of the inventory have their types.
TypeOK ==
  /\ \A i \in 1..latest : state.history[i] \in Inventories
  /\ state.known \in [groups: 0..latest, labels: 0..latest]
  /\ state.version \in CallIds \cup {NoCall} /\ state.devices \in DeviceLists \cup {{}}
  /\ state.places \subseteq Pages \cup Dialogs
  /\ \A key \in Keys : LET picker == state.pickers[key]
                       IN /\ picker.open \in BOOLEAN /\ picker.custom \in BOOLEAN
                          /\ picker.query \in Texts \cup {None} /\ picker.shown \subseteq Texts
                          /\ IsInjective(picker.values) /\ ToSet(picker.values) \subseteq Texts
  /\ DOMAIN calls \subseteq CallIds

\* The menu of a picker that the refreshes know of offers what is known and what is
\* selected, and a picker that is closed looks for nothing.
MenuIsCurrent ==
  \A key \in Keys :
    /\ state.pickers[key].query # None => state.pickers[key].open /\ mounted(state, key)
    /\ (mounted(state, key) /\ key \in InventoryKeys \cup ObjectKeys \cup {"batchShowTargets"})
         => state.pickers[key] = connectionPickerChoices(state, key)

\* Lists of groups and labels do not go back behind what is known, in whatever order they
\* arrive, but for those of the editor of an orchestration, which carry no version.
ListsAdvance ==
  \/ \E i \in DOMAIN calls \ DOMAIN calls' : calls[i].op = "targets"
  \/ state'.known.groups >= state.known.groups /\ state'.known.labels >= state.known.labels

\* Lists that arrive drop nothing that is selected, and what is done in one picker
\* changes its selection by one value, or clears it, and no other.
SelectionsAreKept ==
  LET changed == {key \in Keys : state'.pickers[key].values # state.pickers[key].values}
      Apart(old, new) == Cardinality(ToSet(old) \ ToSet(new)) + Cardinality(ToSet(new) \ ToSet(old))
  IN /\ (calls' # calls \/ state'.known # state.known) => changed = {}
     /\ \A key \in Keys : PickerField(key) =>
          /\ changed \subseteq {key}
          /\ \/ state'.pickers[key].values = <<>>
             \/ Apart(state.pickers[key].values, state'.pickers[key].values) <= 1

\* A picker that offers options alone takes options alone.
RestrictedTakesOptions ==
  \A key \in Keys : PickerField(key) /\ ~AllowsCustom(key) =>
    ToSet(state'.pickers[key].values) \subseteq
      state.pickers[key].shown \cup connectionPickerOptionValues(state, key)
=============================================================================
