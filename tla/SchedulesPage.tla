---------------------------- MODULE SchedulesPage ----------------------------
(***************************************************************************)
(* The page that lists schedules, shows the runs of the selected one and    *)
(* edits one in a dialog.                                                   *)
(*                                                                          *)
(* Two ways of writing meet in it.  An action (mutate) takes the object that *)
(* is in the store, changes it across its awaits and stores it again at the *)
(* end; previews and runs store a changed copy.  So the objects themselves  *)
(* are modelled: objs is the heap, store the object in the store, and a call *)
(* names the objects its continuations have captured.                       *)
(***************************************************************************)
EXTENDS Requests, FiniteSets

CONSTANTS Schedules,     \* identifiers of schedules
          NewId,         \* the identifier that creating one gives
          None,          \* no schedule, no status, no object, and the default form
          ObjIds         \* bound: objects alive at once

SchedulesPageAssumption ==
  /\ NewId \in Schedules /\ None \notin Schedules \cup ObjIds
  /\ IsFiniteSet(ObjIds) /\ ObjIds # {}

VARIABLES state, calls

\* "use" stands for toggling and for running now.
Actions == {"refresh", "save", "delete", "use"}

\* form and runsOf: the schedules whose definition and whose runs are held; valid:
\* the form can be made a definition.
SchedulesState ==
  [schedules: SUBSET Schedules, selectedId: Schedules \cup {None},
   editingId: Schedules \cup {None}, form: Schedules \cup {None}, valid: BOOLEAN,
   runsOf: Schedules \cup {None}, runsStatus: {None, "info", "error"},
   previewStatus: {None, "info", "error"},
   busyAction: Actions \cup {None}, busyId: Schedules \cup {None}, dialogOpen: BOOLEAN]

newSchedulesState ==
  [schedules |-> {}, selectedId |-> None, editingId |-> None, form |-> None, valid |-> TRUE,
   runsOf |-> None, runsStatus |-> None, previewStatus |-> None,
   busyAction |-> None, busyId |-> None, dialogOpen |-> FALSE]

\* outer: the object of the action, None if it is the refresh itself; inner: the
\* object of its refresh.
Call ==
  [op: {"mutate"}, action: Actions, id: Schedules \cup {None}, outer: ObjIds \cup {None},
   step: {"act", "lists", "runs"}, inner: ObjIds \cup {None}, selected: Schedules \cup {None}]
  \cup [op: {"runs"}, id: Schedules] \cup [op: {"preview"}]

\* stored: the schedules the service keeps.
Init ==
  /\ \E o \in ObjIds, stored \in SUBSET (Schedules \ {NewId}) :
       state = [objs |-> [x \in ObjIds |-> IF x = o THEN newSchedulesState ELSE None],
                store |-> o, stored |-> stored, loaded |-> FALSE, timer |-> FALSE,
                previewVersion |-> NoCall, runsVersion |-> NoCall]
  /\ calls = NoCalls

Current == state.objs[state.store]

\* A handler that changes the object in the store.
Changed(s, Change(_)) == [s EXCEPT !.objs[s.store] = Change(@)]

Mutations(cs) == {cs[i] : i \in {j \in DOMAIN cs : cs[j].op = "mutate"}}
Captured(cs) == {m.outer : m \in Mutations(cs)} \cup {m.inner : m \in Mutations(cs)}

\* Objects that neither the store nor a call refers to are gone.
Collected(s, cs) ==
  [s EXCEPT !.objs = [o \in ObjIds |-> IF o = s.store \/ o \in Captured(cs) THEN @[o] ELSE None]]

\* The store gets a changed copy, which may take the place of the object it replaces if
\* nothing else refers to that one.
Places(s, cs) == {o \in ObjIds : s.objs[o] = None} \cup ({s.store} \ Captured(cs))
CanUpdate(s, cs) == Places(s, cs) # {}
Updated(s, cs, obj) ==
  LET o == CHOOSE x \in Places(s, cs) : TRUE
  IN Collected([s EXCEPT !.objs[o] = obj, !.store = o], cs)

-----------------------------------------------------------------------------
(***************************************************************************)
(* Actions: a request of their own, then the lists, then the runs of the    *)
(* selected schedule.                                                       *)
(***************************************************************************)
\* The action is cleared in what the store holds, and what it had captured is stored.
FinishedCurrent(s, o) ==
  [s EXCEPT !.objs[s.store].busyAction = None, !.objs[s.store].busyId = None, !.store = o]

\* What an action has captured is cleared and stored, whatever the store holds by then.
Finished(s, o) ==
  [s EXCEPT !.objs[o].busyAction = None, !.objs[o].busyId = None, !.store = o]

mutate(action, id) ==
  /\ CanPost(calls)
  /\ calls' = Post(calls, [op |-> "mutate", action |-> action, id |-> id, outer |-> state.store,
                           step |-> "act", inner |-> None, selected |-> None])
  /\ state' = [state EXCEPT !.objs[state.store].busyAction = action,
                            !.objs[state.store].busyId = id]

save ==
  /\ Current.busyAction # "save"
  /\ IF Current.valid THEN mutate("save", Current.editingId)
     ELSE UNCHANGED calls /\ state' = Finished(state, state.store)

\* The refresh of a call begins with what is in the store now.
Refreshing(s, id) ==
  [s EXCEPT !.objs[s.store].busyAction = "refresh", !.objs[s.store].busyId = None,
            !.runsVersion = id]

refresh ==
  /\ CanPost(calls)
  /\ calls' = Post(calls, [op |-> "mutate", action |-> "refresh", id |-> None, outer |-> None,
                           step |-> "lists", inner |-> state.store,
                           selected |-> Current.selectedId])
  /\ state' = [Refreshing(state, NextId(calls)) EXCEPT !.loaded = TRUE]

remove(s, o, id) ==
  IF s.objs[o].editingId # id THEN s
  ELSE [s EXCEPT !.objs[o].editingId = None, !.objs[o].form = None,
                 !.objs[o].valid = TRUE, !.objs[o].dialogOpen = FALSE]

Acted(s, call) ==
  LET o == call.outer
      saved == IF call.id = None THEN NewId ELSE call.id
  IN CASE call.action = "save" ->
            [state |-> [s EXCEPT !.objs[o].selectedId = saved, !.objs[o].editingId = saved,
                                 !.stored = @ \cup {saved}],
             selected |-> saved]
       [] call.action = "delete" ->
            [state |-> [remove(s, o, call.id) EXCEPT !.stored = @ \ {call.id}],
             selected |-> IF s.objs[o].selectedId = call.id THEN None ELSE s.objs[o].selectedId]
       [] OTHER -> [state |-> s, selected |-> call.id]

AnswerAct(i) ==
  /\ calls[i].op = "mutate" /\ calls[i].step = "act"
  /\ \/ LET acted == Acted(state, calls[i]) IN
        /\ state' = Refreshing(acted.state, i)
        /\ calls' = Chain(calls, i, [calls[i] EXCEPT !.step = "lists", !.inner = state.store,
                                                     !.selected = acted.selected])
     \/ /\ calls' = Settle(calls, i)
        /\ state' = Collected(Finished(state, calls[i].outer), calls')

\* A save closes the dialog of its own object.
RefreshEnds(s, i) ==
  LET call == calls[i]
      inner == Finished(s, call.inner)
      outer == IF call.action = "save" THEN [inner EXCEPT !.objs[call.outer].dialogOpen = FALSE]
               ELSE inner
  IN /\ calls' = Settle(calls, i)
     /\ state' = Collected(IF call.outer = None THEN inner ELSE Finished(outer, call.outer), calls')

\* Only the latest refresh or selection goes on to the schedule and its runs.
AnswerLists(i) ==
  LET o == calls[i].inner
      s == [state EXCEPT !.objs[o].schedules = state.stored]
  IN
  /\ calls[i].op = "mutate" /\ calls[i].step = "lists"
  /\ \/ IF i # state.runsVersion THEN RefreshEnds(s, i)
        ELSE IF calls[i].selected \in state.stored
        THEN /\ calls' = Chain(calls, i, [calls[i] EXCEPT !.step = "runs"])
             /\ state' = [s EXCEPT !.objs[o].selectedId = calls[i].selected,
                                   !.objs[o].form = calls[i].selected, !.objs[o].valid = TRUE]
        ELSE RefreshEnds([s EXCEPT !.objs[o].selectedId = None, !.objs[o].runsOf = None,
                                   !.objs[o].runsStatus = None], i)
     \/ RefreshEnds(state, i)

AnswerRefreshedRuns(i) ==
  LET o == calls[i].inner IN
  /\ calls[i].op = "mutate" /\ calls[i].step = "runs"
  /\ \/ i = state.runsVersion
        /\ RefreshEnds([state EXCEPT !.objs[o].runsOf = calls[i].selected,
                                     !.objs[o].runsStatus = None], i)
     \/ RefreshEnds(state, i)

-----------------------------------------------------------------------------
(***************************************************************************)
(* The selected schedule, the form and its preview.                         *)
(***************************************************************************)
selectSchedule(id) ==
  /\ CanPost(calls)
  /\ calls' = Post(calls, [op |-> "runs", id |-> id])
  /\ state' = Changed([state EXCEPT !.runsVersion = NextId(calls)],
                LAMBDA c : [c EXCEPT !.selectedId = id, !.form = id, !.valid = TRUE,
                                     !.runsStatus = "info"])

AnswerRuns(i) ==
  /\ calls[i].op = "runs"
  /\ calls' = Settle(calls, i)
  /\ IF i # state.runsVersion \/ Current.selectedId # calls[i].id THEN UNCHANGED state
     ELSE /\ CanUpdate(state, calls')
          /\ \E c \in {[Current EXCEPT !.runsOf = calls[i].id, !.runsStatus = None],
                       [Current EXCEPT !.runsOf = None, !.runsStatus = "error"]} :
               state' = Updated(state, calls', c)

Opened(c, id) == [c EXCEPT !.editingId = id, !.form = id, !.valid = TRUE, !.dialogOpen = TRUE]
Open(id) ==
  /\ state' = Changed([state EXCEPT !.timer = TRUE], LAMBDA c : Opened(c, id))
  /\ UNCHANGED calls
startCreate == Open(None)
editSchedule(id) == Open(id)

closeEditor ==
  /\ state' = Changed([state EXCEPT !.previewVersion = NoCall, !.timer = FALSE],
                LAMBDA c : [c EXCEPT !.dialogOpen = FALSE, !.previewStatus = None])
  /\ UNCHANGED calls

\* A change of the expression or of the time zone queues a preview.
patchForm(valid, queued) ==
  /\ state' = Changed([state EXCEPT !.timer = @ \/ queued], LAMBDA c : [c EXCEPT !.valid = valid])
  /\ UNCHANGED calls

refreshCronPreview ==
  /\ state.timer
  /\ IF Current.dialogOpen
     THEN /\ CanPost(calls)
          /\ calls' = Post(calls, [op |-> "preview"])
          /\ CanUpdate(state, calls')
          /\ state' = Updated([state EXCEPT !.timer = FALSE, !.previewVersion = NextId(calls)],
                              calls', [Current EXCEPT !.previewStatus = "info"])
     ELSE state' = [state EXCEPT !.timer = FALSE] /\ UNCHANGED calls

AnswerPreview(i) ==
  /\ calls[i].op = "preview"
  /\ calls' = Settle(calls, i)
  /\ IF i # state.previewVersion THEN UNCHANGED state
     ELSE /\ CanUpdate(state, calls')
          /\ \E status \in {None, "error"} :
               state' = Updated(state, calls', [Current EXCEPT !.previewStatus = status])

-----------------------------------------------------------------------------
\* Variables that cannot be read make the form invalid, and so does the run time.
TaskFields == \E valid \in BOOLEAN : patchForm(valid, FALSE)
TriggerFields ==
  \/ patchForm(Current.valid, TRUE)
  \/ \E valid \in BOOLEAN : patchForm(valid, FALSE)

\* The dialog covers the page.
ScheduleEditorDialog ==
  Current.dialogOpen /\ (closeEditor \/ save \/ TaskFields \/ TriggerFields)

ScheduleRow(id) ==
  \/ selectSchedule(id) \/ editSchedule(id) \/ mutate("use", id)
  \/ (Current.busyAction # "delete" \/ Current.busyId # id) /\ mutate("delete", id)

SchedulesWorkspace ==
  /\ ~Current.dialogOpen
  /\ refresh \/ startCreate \/ \E id \in Current.schedules : ScheduleRow(id)

Next ==
  \/ ~state.loaded /\ refresh
  \/ state.loaded /\ (ScheduleEditorDialog \/ SchedulesWorkspace)
  \/ refreshCronPreview
  \/ \E i \in DOMAIN calls : \/ AnswerAct(i) \/ AnswerLists(i) \/ AnswerRefreshedRuns(i)
                             \/ AnswerRuns(i) \/ AnswerPreview(i)

-----------------------------------------------------------------------------
\* Every object on the heap is a state of the page, and the store and the calls refer to
\* objects that exist.
TypeOK ==
  /\ \A o \in ObjIds : state.objs[o] \in SchedulesState \cup {None}
  /\ state.objs[state.store] # None /\ state.stored \subseteq Schedules
  /\ \A o \in Captured(calls) \ {None} : state.objs[o] # None
  /\ DOMAIN calls \subseteq CallIds /\ \A i \in DOMAIN calls : calls[i] \in Call

\* An action is shown as busy only while one is in flight: no copy of the state that was
\* taken during an action outlives it in the store.
BusyIsPending ==
  Current.busyAction # None => \E i \in DOMAIN calls : calls[i].op = "mutate"
=============================================================================
