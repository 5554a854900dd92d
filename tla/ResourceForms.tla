---------------------------- MODULE ResourceForms ----------------------------
(***************************************************************************)
(* The list and the form of TextFSM mappings, and of custom show objects.   *)
(* What is stored is known by its identity, which the form may change: then *)
(* a save is a new entry and the deletion of the one it was made from.      *)
(* form is the identity in the form, None while it is incomplete; original  *)
(* is the identity the form was selected with.  The list stays usable while *)
(* a save is under way; the buttons are disabled.                           *)
(***************************************************************************)
EXTENDS Requests, FiniteSets

CONSTANTS Ids, None

VARIABLES state, calls

ResourceFormsAssumption == None \notin Ids

\* kind: show objects await the modes and the mappings of a profile, mappings do not.
ShowObjectState ==
  [kind: {"mapping", "object"}, items: SUBSET Ids, form: Ids \cup {None},
   originalIdentity: Ids \cup {None}, loadingAction: {"", "load", "save", "delete"},
   loaded: BOOLEAN, stored: SUBSET Ids]

\* "for" is what goes on once the list is there: nothing, the selection of what has
\* been saved, or a draft.
Call == [op: {"list"}, for: {"load", "save", "delete"}, id: Ids \cup {None}]
          \cup [op: {"context"}, id: Ids \cup {None}]
          \cup [op: {"save"}, id: Ids, original: Ids \cup {None}]
          \cup [op: {"rename"}, id: Ids, original: Ids] \cup [op: {"delete"}, id: Ids]

Init ==
  /\ calls = NoCalls
  /\ \E kind \in {"mapping", "object"}, stored \in SUBSET Ids :
       state = [kind |-> kind, items |-> {}, form |-> None, originalIdentity |-> None,
                loadingAction |-> "", loaded |-> FALSE, stored |-> stored]

busy == state.loadingAction # ""
Show(s) == state' = s /\ UNCHANGED calls
End(i, s) == state' = s /\ calls' = Settle(calls, i)
runWorkspaceAction(action, call) ==
  /\ CanPost(calls)
  /\ state' = [state EXCEPT !.loadingAction = action]
  /\ calls' = Post(calls, call)
Failed(i) == End(i, [state EXCEPT !.loadingAction = ""])

ListCall(for, id) == [op |-> "list", for |-> for, id |-> id]
ContextCall(id) == [op |-> "context", id |-> id]

load ==
  ~busy /\ runWorkspaceAction("load", ListCall("load", None))

selectSection ==
  /\ ~state.loaded /\ CanPost(calls)
  /\ state' = [state EXCEPT !.loaded = TRUE, !.loadingAction = "load"]
  /\ calls' = Post(calls, ListCall("load", None))

Selected(s, id) == [s EXCEPT !.form = id, !.originalIdentity = id]
Draft(s) == [s EXCEPT !.form = None, !.originalIdentity = None]

createDraft == ~busy /\ state.loaded /\ Show(Draft(state))

\* A mapping is selected at once; the form of a show object is set again once its
\* profile is known.
select(id) ==
  IF state.kind = "mapping" THEN Show(Selected(state, id))
  ELSE /\ CanPost(calls)
       /\ state' = Selected(state, id)
       /\ calls' = Post(calls, ContextCall(id))

AnswerContext(i) ==
  LET id == calls[i].id IN
  /\ calls[i].op = "context"
  /\ \/ End(i, IF id = None THEN state ELSE [state EXCEPT !.form = id])
     \/ End(i, IF id = None THEN [state EXCEPT !.loadingAction = ""] ELSE state)

\* The list is shown, then what the save or the deletion was for happens, though
\* the list may have failed.  A show object awaits its context once more.
loadAnswered(i) ==
  LET call == calls[i] IN
  /\ call.op = "list"
  /\ \E items \in {state.stored, state.items} :
       LET s == [state EXCEPT !.items = items, !.loadingAction = ""] IN
       IF call.for = "save" /\ call.id \in items
       THEN IF state.kind = "mapping" THEN End(i, Selected(s, call.id))
            ELSE state' = Selected(s, call.id) /\ calls' = Chain(calls, i, ContextCall(call.id))
       ELSE IF call.for = "delete" THEN End(i, Draft(s))
       ELSE IF state.kind = "object" /\ call.for = "load"
            THEN state' = s /\ calls' = Chain(calls, i, ContextCall(None))
       ELSE End(i, s)

patchForm(id) == id # state.form /\ Show([state EXCEPT !.form = id])

save ==
  /\ ~busy /\ state.form # None
  /\ runWorkspaceAction("save", [op |-> "save", id |-> state.form,
                                 original |-> state.originalIdentity])

Reload(i, s, for, id) ==
  /\ state' = [s EXCEPT !.loadingAction = "load"]
  /\ calls' = Chain(calls, i, ListCall(for, id))

\* Under a new identity the old entry is deleted after the new one is there.
AnswerSave(i) ==
  LET call == calls[i] s == [state EXCEPT !.stored = @ \cup {call.id}] IN
  /\ call.op = "save"
  /\ \/ IF call.original \in {None, call.id} THEN Reload(i, s, "save", call.id)
        ELSE state' = s /\ calls' = Chain(calls, i, [call EXCEPT !.op = "rename"])
     \/ Failed(i)

AnswerRename(i) ==
  LET call == calls[i] IN
  /\ call.op = "rename"
  /\ \/ Reload(i, [state EXCEPT !.stored = @ \ {call.original}], "save", call.id)
     \/ Failed(i)

\* What was selected is deleted, or what the form names.
remove ==
  /\ ~busy /\ state.originalIdentity # None
  /\ runWorkspaceAction("delete", [op |-> "delete", id |-> state.originalIdentity])

AnswerDelete(i) ==
  /\ calls[i].op = "delete"
  /\ \/ Reload(i, [state EXCEPT !.stored = @ \ {calls[i].id}], "delete", None)
     \/ Failed(i)

ListPanel == load \/ createDraft \/ \E id \in state.items : select(id)
FormPanel == save \/ remove \/ \E id \in Ids \cup {None} : patchForm(id)

Next ==
  \/ selectSection
  \/ state.loaded /\ (ListPanel \/ FormPanel)
  \/ \E i \in DOMAIN calls : \/ loadAnswered(i) \/ AnswerContext(i) \/ AnswerSave(i)
                             \/ AnswerRename(i) \/ AnswerDelete(i)

Spec == Init /\ [][Next]_<<state, calls>>

-----------------------------------------------------------------------------
\* The store, what is kept and the calls have their types.
TypeOK ==
  /\ state \in ShowObjectState
  /\ DOMAIN calls \subseteq CallIds
  /\ \A i \in DOMAIN calls : calls[i] \in Call

\* A button that is disabled by an action has a call in flight that will enable it.
BusyIsPending == busy => \E i \in DOMAIN calls : calls[i].op # "context"

\* Before what a save replaces is deleted, what it is replaced with is stored: one of
\* the two requests may fail, and nothing is lost.
RenameKeepsOne ==
  \A i \in DOMAIN calls : calls[i].op = "rename" => calls[i].id \in state.stored
=============================================================================
