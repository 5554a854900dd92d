--------------------------- MODULE ConnectionSession ---------------------------
(***************************************************************************)
(* The connections of the console and the session it keeps open to their    *)
(* target.                                                                  *)
(*                                                                          *)
(* Connections: the list and the details that are cached, the one that is   *)
(* selected in the library, the target of what is executed, the temporary   *)
(* form, and the editor of a saved connection.  What a connection is made   *)
(* of is one value of Configs; a temporary form without a credential is     *)
(* Blank.  Lists carry no request version: each replaces the list when it   *)
(* arrives.  What the service keeps changes, and is read, when an answer    *)
(* arrives.                                                                 *)
(*                                                                          *)
(* Session: whatever sets the target selects what the session is to be      *)
(* opened to.  One loop at a time brings the service to what is wanted: it  *)
(* releases what is no longer wanted, connects, and goes round again when   *)
(* the wish changed meanwhile.                                              *)
(*                                                                          *)
(* revision and completedRevision are only compared with the revision the   *)
(* loop works on: stale says that the wish changed since the loop took it.  *)
(* The service tells sessions apart by the device they reach, and each of   *)
(* Configs is of a device of its own.                                       *)
(***************************************************************************)
EXTENDS Requests, FiniteSets, Sequences, Functions

CONSTANTS Names, Configs, Blank, None,
          Intervals,   \* heartbeats
          Budget       \* bound: what the user may do

ConnectionsAssumption ==
  /\ None \notin Names \cup Configs /\ Blank \notin Names \cup Configs \cup {None}
  /\ Names \cap Configs = {}
  /\ CallIdsAssumption

ASSUME ConnectionSessionAssumption ==
  ConnectionsAssumption /\ CallIds # {} /\ Intervals # {} /\ Budget \in Nat

\* saved: what the service keeps.
VARIABLES state, saved, calls

vars == <<state, saved, calls>>

Catalog == [Names -> Configs \cup {None}]
Nothing == [n \in Names |-> None]
Listed(list) == {n \in Names : list[n] # None}

\* key: the settings under which the session of a saved target was asked for.
Targets ==
  [kind: {"none"}, name: {None}, config: {None}, key: {None}]
    \cup [kind: {"temporary"}, name: {None}, config: Configs \cup {Blank}, key: {None}]
    \cup [kind: {"saved"}, name: Names, config: Configs, key: Configs \cup {None}]
NoTarget == [kind |-> "none", name |-> None, config |-> None, key |-> None]

\* listed: the list came from the service; persisted: what a reload of the page would
\* restore; confirming: the connection the deletion dialog names.
ConnectionsState ==
  [list: Catalog, details: Catalog, listed: BOOLEAN, selected: Names \cup {None},
   target: Targets, persisted: Names \cup Configs \cup {Blank, None},
   form: Configs \cup {Blank}, confirming: Names \cup {None},
   editor: [open: BOOLEAN, original: Names \cup {None}, name: Names \cup {None},
            config: Configs \cup {Blank}]]

\* then: what a list was asked for by.
Call ==
  [op: {"list"}, then: {"nothing", "delete"}]
    \cup [op: {"list"}, then: {"create"}, name: Names, config: Configs]
    \cup [op: {"list"}, then: {"save"}, name: Names, config: Configs, retarget: BOOLEAN]
    \cup [op: {"use", "edit", "delete"}, name: Names]
    \cup [op: {"create"}, name: Names, config: Configs \cup {Blank}]
    \cup [op: {"save"}, original: Names, name: Names, config: Configs,
          target: Names \cup {None}]
    \cup [op: {"import"}]

Init ==
  /\ saved \in Catalog
  /\ \E persisted \in Names \cup Configs \cup {Blank, None} :
       state = [list |-> Nothing, details |-> Nothing, listed |-> FALSE, selected |-> None,
                target |-> NoTarget, persisted |-> persisted, form |-> Blank,
                confirming |-> None,
                editor |-> [open |-> FALSE, original |-> None, name |-> None,
                            config |-> Blank]]
  /\ calls = Post(NoCalls, [op |-> "list", then |-> "nothing"])

Running(button) ==
  \E i \in DOMAIN calls :
    \/ calls[i].op = button
    \/ calls[i].op = "list" /\ calls[i].then = button

-----------------------------------------------------------------------------
\* setCurrentConnectionTarget, with what its subscriber reads of the list.
Aim(s, target, persisted) == [s EXCEPT !.target = target, !.persisted = persisted]
NoAim(s) == Aim(s, NoTarget, None)
AimAtSavedName(s, name, config) ==
  Aim(s, [kind |-> "saved", name |-> name, config |-> config, key |-> None], name)
AimAtSaved(s, name, config) ==
  Aim(s, [kind |-> "saved", name |-> name, config |-> config, key |-> s.list[name]], name)
AimAtTemporary(s, config) ==
  Aim(s, [kind |-> "temporary", name |-> None, config |-> config, key |-> None], config)

clearTemporaryConnectionActive(s) == IF s.target.kind = "temporary" THEN NoAim(s) ELSE s

applyConnectionForm(s, config) == [s EXCEPT !.form = config]

\* What was selected before the page was reloaded, unless it is gone.
restorePersistedConnectionTarget(s) ==
  IF s.target.kind # "none" \/ s.persisted = None THEN s
  ELSE IF s.persisted \notin Names
    THEN AimAtTemporary([s EXCEPT !.selected = None, !.form = s.persisted], s.persisted)
  ELSE IF s.list[s.persisted] = None THEN s
  ELSE AimAtSaved(applyConnectionForm([s EXCEPT !.selected = s.persisted], s.list[s.persisted]),
                  s.persisted, s.list[s.persisted])

\* A target that is not listed any more keeps its name.
RefreshedUnlisted(s) ==
  LET name == s.target.name IN
  IF s.target.kind # "saved" THEN s
  ELSE AimAtSaved(applyConnectionForm(s, s.list[name]), name, s.list[name])

\* The target takes what the list says of it, or goes with its connection.
Refreshed(s) ==
  LET name == s.target.name IN
  IF s.target.kind # "saved" THEN s
  ELSE IF s.list[name] # None
    THEN AimAtSaved(applyConnectionForm(s, s.list[name]), name, s.list[name])
  ELSE NoAim([s EXCEPT !.selected = None])

\* Both outcomes of loadSavedConnections.
Loaded ==
  {restorePersistedConnectionTarget(Refreshed([state EXCEPT !.list = saved, !.listed = TRUE])),
   [state EXCEPT !.list = Nothing, !.details = Nothing, !.listed = FALSE, !.selected = None]}

\* What follows a list in the operation that asked for it.
AfterList(s, call) ==
  CASE call.then = "create" ->
         AimAtSaved(clearTemporaryConnectionActive(
                      applyConnectionForm([s EXCEPT !.selected = call.name], call.config)),
                    call.name, call.config)
    [] call.then = "save" ->
         LET closed == [s EXCEPT !.selected = call.name, !.editor.open = FALSE]
         IN IF call.retarget THEN AimAtSaved(closed, call.name, call.config) ELSE closed
    [] OTHER -> s

AnswerList(i) ==
  /\ calls[i].op = "list"
  /\ \E s \in Loaded : state' = AfterList(s, calls[i])
  /\ calls' = Settle(calls, i)
  /\ UNCHANGED saved

\* Another page has changed connections, or their groups.
loadSavedConnections ==
  /\ CanPost(calls)
  /\ calls' = Post(calls, [op |-> "list", then |-> "nothing"])
  /\ UNCHANGED <<state, saved>>

-----------------------------------------------------------------------------
\* ensureSavedConnectionDetail: a detail that is cached is not asked for again.
WithDetail(button, Then(_, _, _)) ==
  LET name == state.selected IN
  /\ ~Running(button) /\ name # None
  /\ IF state.details[name] # None
     THEN state' = Then(state, name, state.details[name]) /\ UNCHANGED calls
     ELSE /\ CanPost(calls)
          /\ calls' = Post(calls, [op |-> button, name |-> name])
          /\ UNCHANGED state
  /\ UNCHANGED saved

AnswerDetail(i, button, Then(_, _, _)) ==
  LET name == calls[i].name
      cached == [state EXCEPT !.details[name] = saved[name]]
  IN /\ calls[i].op = button
     /\ \/ saved[name] # None /\ state' = Then(cached, name, saved[name])
        \/ UNCHANGED state
     /\ calls' = Settle(calls, i) /\ UNCHANGED saved

loadSavedConnectionByName(s, name, config) ==
  AimAtSaved(clearTemporaryConnectionActive(
               [applyConnectionForm(s, config) EXCEPT !.selected = name]), name, config)

openSavedConnectionEditor(s, name, config) ==
  [s EXCEPT !.editor = [open |-> TRUE, original |-> name, name |-> name, config |-> config]]

useSavedConnection == WithDetail("use", loadSavedConnectionByName)
editSavedConnection == WithDetail("edit", openSavedConnectionEditor)

selectSavedConnection ==
  /\ \E name \in Listed(state.list) : state' = [state EXCEPT !.selected = name]
  /\ UNCHANGED <<saved, calls>>

\* The dialog names the connection that the library shows; what is deleted is the one
\* that is selected when it is confirmed.
openDeleteConfirmation ==
  /\ state.confirming = None
  /\ \E name \in IF state.selected \in Listed(state.list) THEN {state.selected}
                 ELSE Listed(state.list) :
       state' = [state EXCEPT !.confirming = name]
  /\ UNCHANGED <<saved, calls>>

cancelDeleteConfirmation ==
  /\ state.confirming # None
  /\ state' = [state EXCEPT !.confirming = None]
  /\ UNCHANGED <<saved, calls>>

confirmDeleteSavedConnection ==
  /\ state.confirming # None /\ ~Running("delete")
  /\ state' = [state EXCEPT !.confirming = None]
  /\ IF state.selected = None THEN UNCHANGED calls
     ELSE /\ CanPost(calls)
          /\ calls' = Post(calls, [op |-> "delete", name |-> state.selected])
  /\ UNCHANGED saved

\* A temporary target goes too, whatever was deleted.
AnswerDelete(i) ==
  LET name == calls[i].name
      gone == [state EXCEPT !.details[name] = None, !.selected = None]
      untied == IF gone.target.kind = "saved" /\ gone.target.name = name THEN NoAim(gone)
                ELSE gone
  IN /\ calls[i].op = "delete"
     /\ \/ /\ saved' = [saved EXCEPT ![name] = None]
           /\ state' = clearTemporaryConnectionActive(untied)
           /\ calls' = Chain(calls, i, [op |-> "list", then |-> "delete"])
        \/ calls' = Settle(calls, i) /\ UNCHANGED <<state, saved>>

-----------------------------------------------------------------------------
changeTemporaryForm ==
  /\ \E config \in Configs \ {state.form} : state' = [state EXCEPT !.form = config]
  /\ UNCHANGED <<saved, calls>>

applyTemporaryConnection ==
  /\ state' = AimAtTemporary([state EXCEPT !.selected = None], state.form)
  /\ UNCHANGED <<saved, calls>>

\* A name that is listed is only selected.
createSavedConnectionDraft(name) ==
  /\ ~Running("create")
  /\ state' = [state EXCEPT !.selected = name]
  /\ IF state.list[name] # None THEN UNCHANGED calls
     ELSE /\ CanPost(calls)
          /\ calls' = Post(calls, [op |-> "create", name |-> name, config |-> state.form])
  /\ UNCHANGED saved

AnswerCreate(i) ==
  LET call == calls[i] IN
  /\ call.op = "create"
  /\ \/ /\ call.config # Blank
        /\ saved' = [saved EXCEPT ![call.name] = call.config]
        /\ state' = [state EXCEPT !.details[call.name] = call.config]
        /\ calls' = Chain(calls, i, [op |-> "list", then |-> "create", name |-> call.name,
                                     config |-> call.config])
     \/ calls' = Settle(calls, i) /\ UNCHANGED <<state, saved>>

importConnections ==
  /\ CanPost(calls)
  /\ calls' = Post(calls, [op |-> "import"])
  /\ UNCHANGED <<state, saved>>

\* A file creates connections and changes others; the details stay as they are cached.
AnswerImport(i) ==
  /\ calls[i].op = "import"
  /\ \/ /\ \E n \in Names, config \in Configs : saved' = [saved EXCEPT ![n] = config]
        /\ calls' = Chain(calls, i, [op |-> "list", then |-> "nothing"])
     \/ calls' = Settle(calls, i) /\ UNCHANGED saved
  /\ UNCHANGED state

-----------------------------------------------------------------------------
changeEditor ==
  /\ state.editor.open
  /\ \/ \E name \in Names \ {state.editor.name} : state' = [state EXCEPT !.editor.name = name]
     \/ \E config \in Configs \ {state.editor.config} :
          state' = [state EXCEPT !.editor.config = config]
  /\ UNCHANGED <<saved, calls>>

hideSavedConnectionEditorModal ==
  /\ state.editor.open
  /\ state' = [state EXCEPT !.editor.open = FALSE]
  /\ UNCHANGED <<saved, calls>>

\* The target before the save is the one that follows the saved connection after it.
saveSavedConnectionEditor ==
  LET editor == state.editor IN
  /\ editor.open /\ ~Running("save") /\ CanPost(calls)
  /\ calls' = Post(calls, [op |-> "save", original |-> editor.original, name |-> editor.name,
                           config |-> editor.config, target |-> state.target.name])
  /\ UNCHANGED <<state, saved>>

\* The service renames the connection, unless the name belongs to another.
Stored(call) ==
  [n \in Names |-> IF n = call.name THEN call.config
                   ELSE IF n = call.original THEN None ELSE saved[n]]

AnswerSave(i) ==
  LET call == calls[i] IN
  /\ call.op = "save"
  /\ \/ /\ call.name = call.original \/ saved[call.name] = None
        /\ saved' = Stored(call)
        /\ state' = [state EXCEPT !.details[call.name] = call.config,
                                  !.editor.original = call.name]
        /\ calls' = Chain(calls, i, [op |-> "list", then |-> "save", name |-> call.name,
                       config |-> call.config,
                       retarget |-> call.target \in {call.original, call.name}])
     \/ calls' = Settle(calls, i) /\ UNCHANGED <<state, saved>>

-----------------------------------------------------------------------------
Answer(i) ==
  \/ AnswerList(i) \/ AnswerDelete(i) \/ AnswerCreate(i) \/ AnswerImport(i) \/ AnswerSave(i)
  \/ AnswerDetail(i, "use", loadSavedConnectionByName)
  \/ AnswerDetail(i, "edit", openSavedConnectionEditor)

\* The library of saved connections.
LibraryPanel ==
  \/ selectSavedConnection \/ useSavedConnection \/ editSavedConnection \/ importConnections
LibraryDeletion ==
  openDeleteConfirmation \/ confirmDeleteSavedConnection \/ cancelDeleteConfirmation

\* The panel of the temporary connection.
TemporaryPanel ==
  \/ changeTemporaryForm \/ applyTemporaryConnection
  \/ \E name \in Names : createSavedConnectionDraft(name)

\* The form of the editor, in its modal.
EditorForm == changeEditor \/ hideSavedConnectionEditorModal \/ saveSavedConnectionEditor

UserStep == LibraryPanel \/ LibraryDeletion \/ TemporaryPanel \/ EditorForm \/ loadSavedConnections

-----------------------------------------------------------------------------
TypeOK ==
  /\ state \in ConnectionsState
  /\ saved \in Catalog
  /\ DOMAIN calls \subseteq CallIds /\ \A i \in DOMAIN calls : calls[i] \in Call

\* The connection the session is to be opened to; none without a credential.
SessionTarget ==
  LET target == state.target IN
  IF target.kind = "none" \/ target.config = Blank THEN None
  ELSE [name |-> target.name, key |-> IF target.kind = "saved" THEN target.key ELSE target.config]

-----------------------------------------------------------------------------
\* The session.

\* kept: the sessions the service keeps alive for the console; left: how many
\* operations the user may still do.
VARIABLES session, kept, left

allVars == <<state, saved, calls, session, kept, left>>

\* What can be asked to be connected.
Connectable == [name: Names, key: Configs \cup {None}] \cup [name: {None}, key: Configs]

Preferences == [enabled: BOOLEAN, interval: Intervals]
Wishes == (Connectable \cup {None}) \X Preferences

\* The loop: not running, about to go round, waiting for the release of the first of
\* retired (before or after it has connected), for the connection, or ended and about
\* to be forgotten.
Phases == {"none", "start", "release", "connect", "settle", "end"}

ConnectionSessionState ==
  [target: Connectable \cup {None}, keepAlive: Preferences,
   desired: Wishes \cup {None}, stale: BOOLEAN,
   phase: Phases, wish: Wishes \cup {None},
   active: Configs \cup {None}, activeKey: Wishes \cup {None},
   retired: Seq(Configs), status: {"idle", "connecting", "connected", "error"}]

SessionInit ==
  /\ \E keepAlive \in Preferences :
       session = [target |-> None, keepAlive |-> keepAlive, desired |-> None,
                  stale |-> FALSE, phase |-> "none", wish |-> None, active |-> None,
                  activeKey |-> None, retired |-> <<>>, status |-> "idle"]
  /\ kept = {}

-----------------------------------------------------------------------------
Wanted(s) == s.target # None /\ s.keepAlive.enabled

\* The loop runs already, or a new one is about to begin.
Scheduled(s) ==
  [s EXCEPT !.stale = TRUE, !.phase = IF @ = "none" THEN "start" ELSE @]

\* checking: the status is not touched while a session that is there is checked.
schedule(s, force, checking) ==
  LET key == <<s.target, s.keepAlive>> IN
  IF ~force /\ key = s.desired THEN s
  ELSE Scheduled([s EXCEPT !.desired = key,
                           !.status = IF checking THEN @
                                      ELSE IF Wanted(s) THEN "connecting" ELSE "idle"])

selectConnection(s, connection) == schedule([s EXCEPT !.target = connection], FALSE, FALSE)

updatePreferences(keepAlive) ==
  session' = schedule([session EXCEPT !.keepAlive = keepAlive], FALSE, FALSE)

setKeepAlive == \E on \in BOOLEAN : updatePreferences([session.keepAlive EXCEPT !.enabled = on])

\* The field is disabled without keep-alive.
setHeartbeatInterval ==
  /\ session.keepAlive.enabled
  /\ \E n \in Intervals : updatePreferences([session.keepAlive EXCEPT !.interval = n])

\* Every fifteen seconds, and when the browser is online again.
checkConnection ==
  /\ session.phase = "none" /\ session.active # None
  /\ session.keepAlive.enabled /\ session.status = "connected"
  /\ session' = schedule(session, TRUE, TRUE)

reconnect == session' = schedule([session EXCEPT !.activeKey = None], TRUE, FALSE)

\* The controls of the session, next to the target.
SessionControls == (setKeepAlive \/ setHeartbeatInterval \/ reconnect) /\ UNCHANGED kept

StatusChecks == checkConnection /\ UNCHANGED kept

-----------------------------------------------------------------------------
Around(s) == [s EXCEPT !.phase = IF s.stale THEN "start" ELSE "end"]

Failed(s) == Around(IF s.stale THEN s ELSE [s EXCEPT !.status = "error"])

\* What follows the releases before the connection.
Connecting(s) ==
  IF s.stale THEN Around(s)
  ELSE IF s.wish[1] = None \/ ~s.wish[2].enabled THEN Around([s EXCEPT !.status = "idle"])
  ELSE [s EXCEPT !.phase = "connect"]

Connected(s) == Around(IF s.stale THEN s ELSE [s EXCEPT !.status = "connected"])

\* releaseRetired, one call after the other, and what follows it.
Releasing(s, phase, Then(_)) == IF s.retired = <<>> THEN Then(s) ELSE [s EXCEPT !.phase = phase]

\* One round: the wish is taken as it is now; what is open for another wish is retired.
reconcile ==
  /\ session.phase = "start"
  /\ LET wish == <<session.target, session.keepAlive>>
         keep == session.activeKey = session.desired /\ Wanted(session)
         taken == [session EXCEPT !.stale = FALSE, !.wish = wish]
         retired == IF session.active = None \/ keep THEN taken
                    ELSE [taken EXCEPT !.retired = Append(@, session.active), !.active = None]
     IN session' = Releasing(retired, "release", Connecting)
  /\ UNCHANGED kept

\* The service releases the oldest, or cannot be reached: it stays retired.
Released(phase, Then(_)) ==
  /\ session.phase = phase
  /\ \/ /\ session' = Releasing([session EXCEPT !.retired = Tail(@)], phase, Then)
        /\ kept' = kept \ {Head(session.retired)}
     \/ session' = Failed(session) /\ UNCHANGED kept

releaseRetired == Released("release", Connecting) \/ Released("settle", Connected)

ConnectAnsweredKeepingOther(identity) ==
  /\ session.phase = "connect"
  /\ session' = Connected([session EXCEPT !.active = identity, !.activeKey = session.wish])
  /\ kept' = kept \cup {identity}

\* The answer names the device that was reached.
ConnectAnswered(identity) ==
  /\ session.phase = "connect"
  /\ LET other == session.active \notin {None, identity}
         opened == [session EXCEPT !.retired = IF other THEN Append(@, session.active) ELSE @,
                                   !.active = identity, !.activeKey = session.wish]
     IN session' = Releasing(opened, "settle", Connected)
  /\ kept' = kept \cup {identity}

ConnectFailed ==
  /\ session.phase = "connect"
  /\ session' = Failed(session)
  /\ UNCHANGED kept

FinishForgetful ==
  /\ session.phase = "end"
  /\ session' = [session EXCEPT !.phase = "none"]
  /\ UNCHANGED kept

\* The promise of the loop has settled; a wish since its end starts another loop.
Finish ==
  /\ session.phase = "end"
  /\ session' = IF session.stale THEN schedule([session EXCEPT !.phase = "none"], TRUE, FALSE)
                ELSE [session EXCEPT !.phase = "none"]
  /\ UNCHANGED kept

-----------------------------------------------------------------------------
\* The connections and the session together.

Start == Init /\ SessionInit /\ left = Budget

\* The subscription of the target.
Follows == session' = selectConnection(session, SessionTarget')

Use ==
  /\ left > 0 /\ left' = left - 1
  /\ \/ UserStep /\ Follows /\ UNCHANGED kept
     \/ (SessionControls \/ StatusChecks) /\ UNCHANGED <<state, saved, calls>>

Answers == (\E i \in DOMAIN calls : Answer(i)) /\ Follows /\ UNCHANGED <<kept, left>>

\* The service finds the device of the name, or has none of it.
Reached(connection) ==
  {IF connection.name = None THEN connection.key ELSE saved[connection.name]} \ {None}

Connects ==
  /\ session.phase = "connect"
  /\ ConnectFailed \/ \E config \in Reached(session.wish[1]) : ConnectAnswered(config)

Keeps ==
  /\ reconcile \/ releaseRetired \/ Finish \/ Connects
  /\ UNCHANGED <<state, saved, calls, left>>

SessionNext == Use \/ Answers \/ Keeps

SessionSpec == Start /\ [][SessionNext]_allVars

\* Bound of the run: one connection is saved, and it may have been the target before.
\* Names are alike, and so are settings: which ones it has makes no difference.
StartWithOne ==
  /\ Start
  /\ LET name == CHOOSE n \in Names : TRUE
     IN /\ saved = [Nothing EXCEPT ![name] = CHOOSE config \in Configs : TRUE]
        /\ state.persisted \in {name, None}

\* The loop runs on, and each of its requests is answered or fails.
FairSpec == StartWithOne /\ [][SessionNext]_allVars /\ WF_allVars(Keeps)

-----------------------------------------------------------------------------
ConnectionsTypeOK ==
  TypeOK /\ session \in ConnectionSessionState /\ kept \subseteq Configs /\ left \in 0..Budget

\* Every session the service keeps for the console is the active one or waits to be
\* released: whatever is selected, turned off or fails, none is forgotten (reconcile
\* and releaseRetired in createConnectionSessionWorkspace.ts).
NoneForgotten == kept \subseteq Range(session.retired) \cup {session.active}

\* A session that is in use is not released afterwards by a release that comes late.
ActiveIsNotRetired == session.active \notin Range(session.retired)

\* What the console shows of the session is being brought about, or is so: connecting
\* means that a loop runs, connected that the service keeps a session for the wish.
StatusIsTrue ==
  /\ session.status = "connecting" => session.phase # "none"
  /\ session.status = "connected" => session.active \in kept /\ Wanted(session)

SessionsAreAccounted ==
  NoneForgotten /\ ActiveIsNotRetired /\ StatusIsTrue

\* When everything has been answered, the session that is shown as connected was asked
\* for under the settings that the service keeps for the target now: edits, imports,
\* renames and deletions reach it, unless the list could not be loaded since.
SessionIsOfTarget ==
  /\ calls = NoCalls /\ state.listed
  /\ session.phase = "none" /\ session.status = "connected"
  => /\ session.activeKey[1] = SessionTarget
     /\ state.target.kind = "saved" => SessionTarget.key = saved[SessionTarget.name]

\* A session that is being brought about comes to an end of it.
SessionSettles == session.status = "connecting" ~> session.status # "connecting"
=============================================================================
