--------------------------- MODULE ContentTemplates ---------------------------
(***************************************************************************)
(* The catalogue of templates: one session for each kind of template, kept  *)
(* while another kind is shown.  All sessions share one request version, so *)
(* the answers of one kind are dropped when another kind asks; stored is    *)
(* what the service keeps.  Editing and selecting stay possible while a     *)
(* save, a deletion or a detail is in flight.                               *)
(***************************************************************************)
EXTENDS Requests

CONSTANTS Kinds, FirstKind,
          Names,       \* keys of templates
          Builtins,    \* those that cannot be changed
          Contents, DefaultContent,
          Inspected,   \* kinds whose content is inspected for variables
          None

VARIABLES state, calls

ContentTemplatesAssumption ==
  /\ FirstKind \in Kinds /\ Inspected \subseteq Kinds
  /\ Builtins \subseteq Names
  /\ DefaultContent \in Contents /\ None \notin Contents \cup Names

Texts == Contents \cup {None}   \* None: the empty text
TemplateContentSession ==
  [items: SUBSET Names, selected: Names \cup {None}, isDraft: BOOLEAN,
   content: Texts, originalContent: Texts, loaded: BOOLEAN,
   loadingAction: {"", "list", "detail", "create", "save", "delete"}]

emptyContentSession ==
  [items |-> {}, selected |-> None, isDraft |-> FALSE, content |-> None,
   originalContent |-> None, loaded |-> FALSE, loadingAction |-> ""]

Call == [op: {"list", "detail", "inspect", "delete"}, kind: Kinds, name: Names \cup {None}]
          \cup [op: {"save"}, kind: Kinds, name: Names, content: Texts, create: BOOLEAN]

Init ==
  /\ calls = NoCalls
  /\ \E stored \in [Kinds -> [Names -> Texts]] :
       /\ \A kind \in Kinds, name \in Builtins : stored[kind][name] # None
       /\ state = [activeKind |-> FirstKind, version |-> NoCall, stored |-> stored,
                   sessions |-> [kind \in Kinds |-> emptyContentSession]]

-----------------------------------------------------------------------------
Session == state.sessions[state.activeKind]
dirty(s) == s.content # s.originalContent
busy == Session.loadingAction # ""

\* The state with one session changed, and the calls that go on with it.
With(kind, s) == [state EXCEPT !.sessions[kind] = s]
Show(s) == state' = With(state.activeKind, s) /\ UNCHANGED calls
Send(kind, s, call) ==
  CanPost(calls) /\ state' = With(kind, s) /\ calls' = Post(calls, call)
\* A call that takes the request version.
Ask(kind, s, call) ==
  /\ CanPost(calls)
  /\ state' = [With(kind, s) EXCEPT !.version = NextId(calls)]
  /\ calls' = Post(calls, call)
End(i, kind, s) == state' = With(kind, s) /\ calls' = Settle(calls, i)

ListCall(kind, name) == [op |-> "list", kind |-> kind, name |-> name]
DetailCall(kind, name) == [op |-> "detail", kind |-> kind, name |-> name]
Listing(s) == [s EXCEPT !.loadingAction = "list"]
Cleared(s) ==
  [s EXCEPT !.selected = None, !.isDraft = FALSE, !.content = None, !.originalContent = None]

load(kind) == Ask(kind, Listing(state.sessions[kind]), ListCall(kind, None))

\* Another kind, once its unsaved work has been given up, is loaded the first time.
activate(kind) ==
  /\ kind # state.activeKind \/ ~Session.loaded
  /\ IF state.sessions[kind].loaded
     THEN state' = [state EXCEPT !.activeKind = kind] /\ UNCHANGED calls
     ELSE /\ CanPost(calls)
          /\ state' = [With(kind, Listing(state.sessions[kind]))
                         EXCEPT !.activeKind = kind, !.version = NextId(calls)]
          /\ calls' = Post(calls, ListCall(kind, None))

refresh == ~busy /\ load(state.activeKind)

isCurrent(i) == state.version = i

\* What was asked for, else the selection, else the first of the list: built-in
\* templates come first.
Wanted(s, name, items) ==
  LET preferred == IF name # None THEN name ELSE s.selected
      first == IF items \cap Builtins # {} THEN items \cap Builtins ELSE items
  IN IF preferred \in items THEN {preferred} ELSE IF items = {} THEN {None} ELSE first

AnswerList(i) ==
  LET call == calls[i] s == state.sessions[call.kind]
      items == {name \in Names : state.stored[call.kind][name] # None}
      listed == [s EXCEPT !.items = items, !.loaded = TRUE, !.loadingAction = ""]
  IN /\ call.op = "list"
     /\ IF ~isCurrent(i) THEN End(i, call.kind, s)
        ELSE \/ End(i, call.kind, [s EXCEPT !.items = {}, !.loaded = TRUE,
                                            !.loadingAction = ""])
             \/ \E name \in Wanted(s, call.name, items) :
                  IF name = None THEN End(i, call.kind, Cleared(listed))
                  ELSE /\ state' = With(call.kind, [listed EXCEPT !.loadingAction = "detail"])
                       /\ calls' = Chain(calls, i, DetailCall(call.kind, name))

\* A detail replaces the content; its inspection is then awaited without a look at
\* the version.
loadSelectedDetail(i) ==
  LET call == calls[i] s == state.sessions[call.kind]
      content == state.stored[call.kind][call.name]
      shown == [s EXCEPT !.selected = call.name, !.isDraft = FALSE, !.content = content,
                         !.originalContent = content]
  IN /\ call.op = "detail"
     /\ IF ~isCurrent(i) THEN End(i, call.kind, s)
        ELSE \/ End(i, call.kind, [s EXCEPT !.loadingAction = ""])
             \/ /\ content # None
                /\ IF call.kind \in Inspected
                   THEN /\ state' = With(call.kind, shown)
                        /\ calls' = Chain(calls, i, [call EXCEPT !.op = "inspect"])
                   ELSE End(i, call.kind, [shown EXCEPT !.loadingAction = ""])

\* An inspection that fails ends the loading only of the latest question.
inspectSelectedContent(i) ==
  LET kind == calls[i].kind s == state.sessions[kind] IN
  /\ calls[i].op = "inspect"
  /\ \/ End(i, kind, [s EXCEPT !.loadingAction = ""])
     \/ ~isCurrent(i) /\ End(i, kind, s)

selectResource(name) ==
  /\ name # Session.selected
  /\ Ask(state.activeKind, [Session EXCEPT !.loadingAction = "detail"],
         DetailCall(state.activeKind, name))

-----------------------------------------------------------------------------
setContent(content) ==
  /\ Session.selected # None /\ Session.selected \notin Builtins
  /\ content # Session.content
  /\ Show([Session EXCEPT !.content = content])

\* A draft is a selection that is not stored; it replaces nothing that is.  The
\* dialog that names it, or a copy, can be confirmed whatever has begun since.
createDraft(name) ==
  /\ name \notin Builtins \cup Session.items
  /\ Show([Session EXCEPT !.selected = name, !.isDraft = TRUE,
                          !.content = DefaultContent, !.originalContent = None])

persist(name, create) ==
  LET s == Session creates == create \/ s.isDraft IN
  /\ s.selected # None
  /\ Send(state.activeKind, [s EXCEPT !.loadingAction = IF creates THEN "create" ELSE "save"],
          [op |-> "save", kind |-> state.activeKind, name |-> name,
           content |-> s.content, create |-> creates])

save ==
  /\ ~busy /\ Session.selected \notin Builtins
  /\ Session.isDraft \/ dirty(Session)
  /\ persist(Session.selected, FALSE)

saveAs(name) ==
  name \notin Builtins \cup Session.items /\ persist(name, TRUE)

\* What the service answers is shown; then the kind that is shown by now is loaded,
\* with the name of what has been saved.
SavedAsShown(s, call) ==
  [s EXCEPT !.selected = call.name, !.isDraft = FALSE, !.originalContent = s.content,
            !.loadingAction = ""]
Saved(s, call) ==
  [s EXCEPT !.selected = call.name, !.isDraft = FALSE, !.content = call.content,
            !.originalContent = call.content, !.loadingAction = ""]

\* The load that follows a change, for the kind that is shown by then.
Reload(i, kept, name) ==
  LET active == state.activeKind IN
  /\ state' = [kept EXCEPT !.sessions[active] = Listing(@), !.version = i]
  /\ calls' = Chain(calls, i, ListCall(active, name))

AnswerSave(i) ==
  LET call == calls[i] s == state.sessions[call.kind] IN
  /\ call.op = "save"
  /\ \/ /\ call.content # None
        /\ call.create = (state.stored[call.kind][call.name] = None)
        /\ Reload(i, [With(call.kind, Saved(s, call))
                        EXCEPT !.stored[call.kind][call.name] = call.content], call.name)
     \/ End(i, call.kind, [s EXCEPT !.loadingAction = ""])

deleteSelected ==
  LET s == Session IN
  /\ s.selected \notin Builtins \cup {None} /\ ~s.isDraft /\ ~busy
  /\ Send(state.activeKind, [s EXCEPT !.loadingAction = "delete"],
          [op |-> "delete", kind |-> state.activeKind, name |-> s.selected])

AnswerDelete(i) ==
  LET call == calls[i] s == state.sessions[call.kind] IN
  /\ call.op = "delete"
  /\ \/ Reload(i, [With(call.kind, [Cleared(s) EXCEPT !.loadingAction = ""])
                     EXCEPT !.stored[call.kind][call.name] = None], None)
     \/ End(i, call.kind, [s EXCEPT !.loadingAction = ""])

-----------------------------------------------------------------------------
ListPanel == refresh \/ \E name \in Session.items : selectResource(name)
NameDialog == \E name \in Names : saveAs(name) \/ createDraft(name)
ContentPanel == save \/ deleteSelected \/ \E content \in Contents : setContent(content)

Next ==
  \/ ListPanel \/ NameDialog \/ ContentPanel
  \/ \E kind \in Kinds : activate(kind)
  \/ \E i \in DOMAIN calls : \/ AnswerList(i) \/ loadSelectedDetail(i)
                             \/ inspectSelectedContent(i) \/ AnswerSave(i) \/ AnswerDelete(i)

Spec == Init /\ [][Next]_<<state, calls>>

-----------------------------------------------------------------------------
\* The sessions, the service and the calls have their types.
TypeOK ==
  /\ state.activeKind \in Kinds /\ state.version \in CallIds \cup {NoCall}
  /\ state.sessions \in [Kinds -> TemplateContentSession]
  /\ state.stored \in [Kinds -> [Names -> Texts]]
  /\ DOMAIN calls \subseteq CallIds
  /\ \A i \in DOMAIN calls : calls[i] \in Call

\* A template that is shown as unchanged is what the service keeps under its name,
\* whatever was selected, typed, saved or deleted while its answers were under way.
UnchangedIsStored ==
  \A kind \in Kinds :
    LET s == state.sessions[kind] IN
    s.selected # None /\ ~dirty(s) => s.content = state.stored[kind][s.selected]
=============================================================================
