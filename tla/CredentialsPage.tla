--------------------------- MODULE CredentialsPage ---------------------------
(***************************************************************************)
(* The page of device credentials: a list, the form of the selected one, a  *)
(* dialog that confirms a deletion and one that imports a file.  formOf is  *)
(* the credential the form was filled from, None for a new one; failed is   *)
(* the selection whose loading has failed last, for the properties only.    *)
(***************************************************************************)
EXTENDS Requests, FiniteSets

CONSTANTS Ids,      \* credentials
          None

VARIABLES state, calls

CredentialsAssumption == None \notin Ids

vars == <<state, calls>>

Tones == {"info", "success", "error"}

CredentialsPageState ==
  [credentials: SUBSET Ids, selectedId: Ids \cup {None}, formOf: Ids \cup {None},
   failed: Ids \cup {None}, deleteTarget: Ids \cup {None}, tone: Tones,
   loaded: BOOLEAN, loading: BOOLEAN, saving: BOOLEAN, deleting: BOOLEAN,
   importOpen: BOOLEAN, importing: BOOLEAN, templateLoading: BOOLEAN]

newCredentialsPageState ==
  [credentials |-> {}, selectedId |-> None, formOf |-> None, failed |-> None,
   deleteTarget |-> None, tone |-> "info", loaded |-> FALSE, loading |-> FALSE,
   saving |-> FALSE, deleting |-> FALSE, importOpen |-> FALSE,
   importing |-> FALSE, templateLoading |-> FALSE]

\* "for" is the function that awaits the list or the detail.
Fors == {"load", "select", "save", "remove", "import"}
Call == [op: {"list", "detail"}, id: Ids \cup {None}, for: Fors]
          \cup [op: {"save"}, id: Ids \cup {None}, of: Ids \cup {None}, for: {"save"}]
          \cup [op: {"delete"}, id: Ids, for: {"remove"}]
          \cup [op: {"import", "template"}, for: {"import"}]

Init == state = newCredentialsPageState /\ calls = NoCalls

Send(s, call) == CanPost(calls) /\ state' = s /\ calls' = Post(calls, call)
Choose(s) == state' = s /\ UNCHANGED calls

-----------------------------------------------------------------------------
\* The function that awaits loadCredentials goes on, though the list or the
\* detail may have failed: those failures are not thrown.
Ends(s, for) ==
  LET loaded == IF for = "select" THEN s ELSE [s EXCEPT !.loading = FALSE] IN
  CASE for = "save" -> [loaded EXCEPT !.tone = "success", !.saving = FALSE]
    [] for = "remove" -> [loaded EXCEPT !.tone = "success", !.deleting = FALSE]
    [] for = "import" -> [loaded EXCEPT !.tone = "success", !.importing = FALSE]
    [] OTHER -> loaded

resetForm(s) ==
  [s EXCEPT !.formOf = None, !.selectedId = None, !.tone = "info", !.failed = None]

ListCall(id, for) == [op |-> "list", id |-> id, for |-> for]
DetailCall(id, for) == [op |-> "detail", id |-> id, for |-> for]

setPageContext ==
  /\ ~state.loaded
  /\ Send([state EXCEPT !.loaded = TRUE, !.loading = TRUE], ListCall(None, "load"))

\* What was asked for, else the selection, else the first of the list.
Wanted(call, found) ==
  CASE call.id # None -> {call.id}
    [] call.id = None /\ state.selectedId # None -> {state.selectedId}
    [] OTHER -> IF found = {} THEN {None} ELSE found

loadCredentials(i) ==
  /\ calls[i].op = "list"
  /\ \/ \E found \in SUBSET Ids : \E next \in Wanted(calls[i], found) :
          LET s == [state EXCEPT !.credentials = found] IN
          IF next = None
          THEN /\ state' = Ends(resetForm(s), calls[i].for)
               /\ calls' = Settle(calls, i)
          ELSE /\ state' = [s EXCEPT !.selectedId = next]
               /\ calls' = Chain(calls, i, DetailCall(next, calls[i].for))
     \/ /\ state' = Ends([state EXCEPT !.tone = "error", !.failed = state.selectedId],
                          calls[i].for)
        /\ calls' = Settle(calls, i)

selectCredential(id) ==
  Send([state EXCEPT !.selectedId = id], DetailCall(id, "select"))

\* An answer counts while its credential is selected.
DetailCountsAlways(call) == TRUE
DetailCounts(call) == state.selectedId = call.id

AnswerDetail(i) ==
  LET call == calls[i] IN
  /\ call.op = "detail"
  /\ \E s \in IF ~DetailCounts(call) THEN {state}
              ELSE {[state EXCEPT !.formOf = call.id, !.failed = None, !.tone = "info"],
                    [state EXCEPT !.failed = call.id, !.tone = "error"]} :
       state' = Ends(s, call.for)
  /\ calls' = Settle(calls, i)

\* The form is incomplete, or is sent to be stored under what is selected.
save ==
  /\ ~state.saving /\ ~state.deleting
  /\ \/ Choose([state EXCEPT !.tone = "error"])
     \/ Send([state EXCEPT !.saving = TRUE],
             [op |-> "save", id |-> state.selectedId, of |-> state.formOf,
              for |-> "save"])

AnswerSave(i) ==
  LET call == calls[i] IN
  /\ call.op = "save"
  /\ \/ \E id \in IF call.id = None THEN Ids ELSE {call.id} :
          /\ state' = [state EXCEPT !.selectedId = id, !.loading = TRUE]
          /\ calls' = Chain(calls, i, ListCall(id, "save"))
     \/ /\ state' = [state EXCEPT !.tone = "error", !.saving = FALSE]
        /\ calls' = Settle(calls, i)

requestRemove ==
  /\ state.selectedId \in state.credentials
  /\ ~state.deleting /\ ~state.saving /\ ~state.loading
  /\ Choose([state EXCEPT !.deleteTarget = state.selectedId, !.tone = "info"])

cancelRemove ==
  ~state.deleting /\ Choose([state EXCEPT !.deleteTarget = None])

remove ==
  /\ ~state.deleting /\ ~state.saving
  /\ Send([state EXCEPT !.deleting = TRUE, !.tone = "info"],
          [op |-> "delete", id |-> state.deleteTarget, for |-> "remove"])

AnswerDelete(i) ==
  LET gone == [state EXCEPT !.deleteTarget = None, !.loading = TRUE] IN
  /\ calls[i].op = "delete"
  /\ \/ /\ state' = IF gone.selectedId = calls[i].id
                    THEN [gone EXCEPT !.selectedId = None, !.formOf = None] ELSE gone
        /\ calls' = Chain(calls, i, ListCall(None, "remove"))
     \/ /\ state' = [state EXCEPT !.tone = "error", !.deleting = FALSE]
        /\ calls' = Settle(calls, i)

-----------------------------------------------------------------------------
\* The import dialog stays open while a file is being imported; it may be closed
\* under a template that is still being downloaded.
setOpen(open) ==
  /\ open # state.importOpen
  /\ open \/ ~state.importing
  /\ Choose([state EXCEPT !.importOpen = open,
                          !.templateLoading = open /\ state.templateLoading])

submitImport ==
  /\ ~state.importing
  /\ Send([state EXCEPT !.importing = TRUE], [op |-> "import", for |-> "import"])

downloadTemplate ==
  /\ ~state.importing /\ ~state.templateLoading
  /\ Send([state EXCEPT !.templateLoading = TRUE], [op |-> "template", for |-> "import"])

handleImported(i) ==
  /\ calls[i].op = "import"
  /\ \/ /\ state' = [state EXCEPT !.loading = TRUE]
        /\ calls' = Chain(calls, i, ListCall(state.selectedId, "import"))
     \/ /\ state' = [state EXCEPT !.importing = FALSE]
        /\ calls' = Settle(calls, i)

AnswerTemplate(i) ==
  /\ calls[i].op = "template"
  /\ state' = [state EXCEPT !.templateLoading = FALSE]
  /\ calls' = Settle(calls, i)

CredentialImportDialog ==
  setOpen(FALSE) \/ submitImport \/ downloadTemplate

DeleteDialog == cancelRemove \/ remove

\* The list can be used while the form is being saved.
CredentialsWorkspace ==
  \/ setOpen(TRUE)
  \/ ~state.deleting /\ Choose(resetForm(state))
  \/ ~state.deleting /\ \E id \in state.credentials : selectCredential(id)
  \/ save \/ requestRemove

Next ==
  \/ setPageContext
  \/ /\ state.loaded
     /\ IF state.importOpen THEN CredentialImportDialog
        ELSE IF state.deleteTarget # None THEN DeleteDialog
        ELSE CredentialsWorkspace
  \/ \E i \in DOMAIN calls : \/ loadCredentials(i) \/ AnswerDetail(i) \/ AnswerSave(i)
                             \/ AnswerDelete(i) \/ handleImported(i) \/ AnswerTemplate(i)

Spec == Init /\ [][Next]_vars

-----------------------------------------------------------------------------
\* The store and the calls have their types.
TypeOK ==
  /\ state \in CredentialsPageState
  /\ DOMAIN calls \subseteq CallIds
  /\ \A i \in DOMAIN calls : calls[i] \in Call

\* When nothing is in flight the form is that of the selected credential, or the
\* list or the detail could not be loaded.
FormIsOfSelection ==
  calls = NoCalls => \/ state.formOf = state.selectedId
                     \/ state.failed = state.selectedId

\* A dialog that waits for an import or a deletion is waiting for a call.
BusyIsPending ==
  /\ state.saving => \E i \in DOMAIN calls : calls[i].for = "save"
  /\ state.deleting => \E i \in DOMAIN calls : calls[i].for = "remove"
  /\ state.importing => \E i \in DOMAIN calls : calls[i].for = "import"
  /\ state.templateLoading => \E i \in DOMAIN calls : calls[i].op = "template"

\* What is deleted is what the dialog has named.
DeletesTheNamed ==
  \A i \in DOMAIN calls : calls[i].op = "delete" => state.deleteTarget = calls[i].id
=============================================================================
