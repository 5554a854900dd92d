------------------------ MODULE ConnectionSessionProofs ------------------------
(***************************************************************************)
(* Proofs about ConnectionSession for any names, configurations, heartbeats, *)
(* numbers of calls in flight and operations of the user.                    *)
(***************************************************************************)
EXTENDS ConnectionSession, SequenceTheorems, TLAPS

-----------------------------------------------------------------------------
\* Calls in flight.

CallsTyped(c) == DOMAIN c \subseteq CallIds /\ \A i \in DOMAIN c : c[i] \in Call

\* Posting a call keeps those in flight.
LEMMA Posted ==
    ASSUME NEW call \in Call, CallsTyped(calls), CanPost(calls)
    PROVE  /\ CallsTyped(Post(calls, call))
           /\ \A i \in DOMAIN calls : i \in DOMAIN Post(calls, call) /\ Post(calls, call)[i] = calls[i]
<1>1. NextId(calls) \in CallIds \ DOMAIN calls
    BY DEF CanPost, NextId, Free
<1> QED
    BY <1>1 DEF Post, CallsTyped

LEMMA Settled ==
    ASSUME NEW i \in DOMAIN calls, CallsTyped(calls)
    PROVE  /\ CallsTyped(Settle(calls, i))
           /\ DOMAIN Settle(calls, i) = DOMAIN calls \ {i}
           /\ \A j \in DOMAIN calls \ {i} : Settle(calls, i)[j] = calls[j]
BY DEF Settle, CallsTyped

LEMMA Chained ==
    ASSUME NEW i \in DOMAIN calls, NEW call \in Call, CallsTyped(calls)
    PROVE  /\ CallsTyped(Chain(calls, i, call))
           /\ DOMAIN Chain(calls, i, call) = DOMAIN calls
           /\ Chain(calls, i, call)[i] = call
           /\ \A j \in DOMAIN calls \ {i} : Chain(calls, i, call)[j] = calls[j]
BY DEF Chain, CallsTyped

\* What the operations post.
LEMMA CallTypes ==
    /\ \A then \in {"nothing", "delete"} : [op |-> "list", then |-> then] \in Call
    /\ \A n \in Names, c \in Configs :
        /\ [op |-> "list", then |-> "create", name |-> n, config |-> c] \in Call
        /\ \A t \in BOOLEAN :
            [op |-> "list", then |-> "save", name |-> n, config |-> c, retarget |-> t] \in Call
    /\ \A n \in Names, b \in {"use", "edit", "delete"} : [op |-> b, name |-> n] \in Call
    /\ \A n \in Names, c \in Configs \cup {Blank} : [op |-> "create", name |-> n, config |-> c] \in Call
    /\ \A n, o \in Names, c \in Configs, t \in Names \cup {None} :
        [op |-> "save", original |-> o, name |-> n, config |-> c, target |-> t] \in Call
    /\ [op |-> "import"] \in Call
BY DEF Call

-----------------------------------------------------------------------------
\* The connections.

\* The settings a saved target was asked for under are those of the list it is in.
KeyIsListed(s) ==
    s.listed /\ s.target.kind = "saved" => s.target.key = s.list[s.target.name]

\* An editor that is open is that of a connection, with its settings.
EditorIsFilled(s) ==
    s.editor.open =>
        s.editor.original \in Names /\ s.editor.name \in Names /\ s.editor.config \in Configs

\* From s to t the list stays, and t is as it should be.
Keeping(s, t) ==
    /\ t \in ConnectionsState /\ KeyIsListed(t)
    /\ EditorIsFilled(s) => EditorIsFilled(t)
    /\ t.list = s.list /\ t.listed = s.listed

\* A new target, with the key the list has for it.
LEMMA Aimed ==
    ASSUME NEW s \in ConnectionsState, NEW t \in Targets,
           NEW persisted \in Names \cup Configs \cup {Blank, None},
           t.kind = "saved" => t.key = s.list[t.name]
    PROVE  Keeping(s, Aim(s, t, persisted)) /\ Aim(s, t, persisted).selected = s.selected
<1> DEFINE u == Aim(s, t, persisted)
<1>1. u \in ConnectionsState
    BY DEF Aim, ConnectionsState
<1>2. /\ u.target = t /\ u.list = s.list /\ u.listed = s.listed
      /\ u.editor = s.editor /\ u.selected = s.selected
    BY DEF Aim, ConnectionsState
<1> HIDE DEF u
<1>3. KeyIsListed(u)
    BY <1>2 DEF KeyIsListed
<1>4. EditorIsFilled(s) => EditorIsFilled(u)
    BY <1>2 DEF EditorIsFilled
<1>5. Keeping(s, u) /\ u.selected = s.selected
    BY <1>1, <1>2, <1>3, <1>4 DEF Keeping
<1> QED
    BY <1>5 DEF u

LEMMA AimsAtSaved ==
    ASSUME NEW s \in ConnectionsState, NEW name \in Names, NEW config \in Configs
    PROVE  Keeping(s, AimAtSaved(s, name, config))
<1> DEFINE t == [kind |-> "saved", name |-> name, config |-> config, key |-> s.list[name]]
<1>1. t \in Targets
    BY DEF Targets, ConnectionsState, Catalog
<1>2. t.key = s.list[t.name]
    OBVIOUS
<1>3. AimAtSaved(s, name, config) = Aim(s, t, name)
    BY DEF AimAtSaved
<1> HIDE DEF t
<1> QED
    BY <1>1, <1>2, <1>3, Aimed

LEMMA AimsAtNone ==
    ASSUME NEW s \in ConnectionsState
    PROVE  Keeping(s, NoAim(s)) /\ NoAim(s).selected = s.selected
<1>1. NoTarget \in Targets /\ NoTarget.kind # "saved"
    BY DEF Targets, NoTarget
<1> QED
    BY <1>1, Aimed DEF NoAim

LEMMA AimsAtTemporary ==
    ASSUME NEW s \in ConnectionsState, NEW config \in Configs \cup {Blank}
    PROVE  Keeping(s, AimAtTemporary(s, config))
<1> DEFINE t == [kind |-> "temporary", name |-> None, config |-> config, key |-> None]
<1>1. t \in Targets /\ t.kind # "saved"
    BY DEF Targets
<1>2. AimAtTemporary(s, config) = Aim(s, t, config)
    BY DEF AimAtTemporary
<1> HIDE DEF t
<1> QED
    BY <1>1, <1>2, Aimed

LEMMA Cleared ==
    ASSUME NEW s \in ConnectionsState, KeyIsListed(s)
    PROVE  Keeping(s, clearTemporaryConnectionActive(s))
BY AimsAtNone DEF clearTemporaryConnectionActive, Keeping

\* Whatever leaves list and target alone.
LEMMA Elsewhere ==
    ASSUME NEW s \in ConnectionsState, KeyIsListed(s), NEW t \in ConnectionsState,
           t.list = s.list, t.listed = s.listed, t.target = s.target,
           EditorIsFilled(s) => EditorIsFilled(t)
    PROVE  Keeping(s, t)
BY DEF Keeping, KeyIsListed

LEMMA KeepingOn ==
    ASSUME NEW s, NEW t, NEW u, Keeping(s, t), Keeping(t, u)
    PROVE  Keeping(s, u)
BY DEF Keeping

LEMMA Restored ==
    ASSUME NEW s \in ConnectionsState, KeyIsListed(s)
    PROVE  Keeping(s, restorePersistedConnectionTarget(s))
<1>1. CASE s.target.kind # "none" \/ s.persisted = None
    BY <1>1, Elsewhere DEF restorePersistedConnectionTarget
<1>2. CASE ~ (s.target.kind # "none" \/ s.persisted = None) /\ s.persisted \notin Names
    <2> DEFINE t == [s EXCEPT !.selected = None, !.form = s.persisted]
    <2>1. s.persisted \in Configs \cup {Blank}
        BY <1>2 DEF ConnectionsState
    <2>2. /\ t \in ConnectionsState /\ t.list = s.list /\ t.listed = s.listed
             /\ (EditorIsFilled(s) => EditorIsFilled(t))
        BY <2>1 DEF ConnectionsState, EditorIsFilled
    <2>3. restorePersistedConnectionTarget(s) = AimAtTemporary(t, s.persisted)
        BY <1>2 DEF restorePersistedConnectionTarget
    <2> HIDE DEF t
    <2> QED
        BY <2>1, <2>2, <2>3, AimsAtTemporary DEF Keeping
<1>3. CASE /\ ~ (s.target.kind # "none" \/ s.persisted = None)
           /\ s.persisted \in Names /\ s.list[s.persisted] = None
    BY <1>3, Elsewhere DEF restorePersistedConnectionTarget
<1>4. CASE /\ ~ (s.target.kind # "none" \/ s.persisted = None)
           /\ s.persisted \in Names /\ s.list[s.persisted] # None
    <2> DEFINE c == s.list[s.persisted]
               t == applyConnectionForm([s EXCEPT !.selected = s.persisted], c)
    <2>1. c \in Configs
        BY <1>4 DEF ConnectionsState, Catalog
    <2>2. /\ t \in ConnectionsState /\ t.list = s.list /\ t.listed = s.listed
             /\ (EditorIsFilled(s) => EditorIsFilled(t))
        BY <1>4, <2>1 DEF ConnectionsState, applyConnectionForm, EditorIsFilled
    <2>3. restorePersistedConnectionTarget(s) = AimAtSaved(t, s.persisted, c)
        BY <1>4 DEF restorePersistedConnectionTarget
    <2> HIDE DEF c, t
    <2> QED
        BY <1>4, <2>1, <2>2, <2>3, AimsAtSaved DEF Keeping
<1> QED
    BY <1>1, <1>2, <1>3, <1>4

\* A list that arrives brings its own settings to the target.
LEMMA Refreshes ==
    ASSUME NEW s \in ConnectionsState
    PROVE  Keeping(s, Refreshed(s))
<1> DEFINE name == s.target.name
<1>1. CASE s.target.kind # "saved"
    BY <1>1 DEF Refreshed, Keeping, KeyIsListed
<1>2. CASE s.target.kind = "saved"
    <2>1. name \in Names
        BY <1>2 DEF ConnectionsState, Targets
    <2>2. CASE s.list[name] # None
        <3> DEFINE t == applyConnectionForm(s, s.list[name])
        <3>1. s.list[name] \in Configs
            BY <2>1, <2>2 DEF ConnectionsState, Catalog
        <3>2. /\ t \in ConnectionsState /\ t.list = s.list /\ t.listed = s.listed
             /\ (EditorIsFilled(s) => EditorIsFilled(t))
            BY <3>1 DEF ConnectionsState, applyConnectionForm, EditorIsFilled
        <3>3. Refreshed(s) = AimAtSaved(t, name, s.list[name])
            BY <1>2, <2>2 DEF Refreshed
        <3> HIDE DEF t
        <3> QED
            BY <2>1, <3>1, <3>2, <3>3, AimsAtSaved DEF Keeping
    <2>3. CASE s.list[name] = None
        <3> DEFINE t == [s EXCEPT !.selected = None]
        <3>1. /\ t \in ConnectionsState /\ t.list = s.list /\ t.listed = s.listed
             /\ (EditorIsFilled(s) => EditorIsFilled(t))
            BY DEF ConnectionsState, EditorIsFilled
        <3>2. Refreshed(s) = NoAim(t)
            BY <1>2, <2>3 DEF Refreshed
        <3> HIDE DEF t
        <3> QED
            BY <3>1, <3>2, AimsAtNone DEF Keeping
    <2> QED
        BY <2>2, <2>3
<1> QED
    BY <1>1, <1>2

\* The list is the one the service keeps, or could not be loaded.
LEMMA Loads ==
    ASSUME TypeOK, NEW s \in Loaded
    PROVE  /\ s \in ConnectionsState /\ KeyIsListed(s)
           /\ EditorIsFilled(state) => EditorIsFilled(s)
           /\ s.listed => s.list = saved
<1> DEFINE new == [state EXCEPT !.list = saved, !.listed = TRUE]
           none == [state EXCEPT !.list = Nothing, !.details = Nothing, !.listed = FALSE,
                                 !.selected = None]
<1>1. new \in ConnectionsState /\ new.list = saved /\ new.editor = state.editor
    BY DEF TypeOK, ConnectionsState
<1>2. none \in ConnectionsState /\ ~ none.listed /\ none.editor = state.editor
    BY DEF TypeOK, ConnectionsState, Catalog, Nothing
<1>3. s = restorePersistedConnectionTarget(Refreshed(new)) \/ s = none
    BY DEF Loaded
<1> HIDE DEF new, none
<1>4. Keeping(new, Refreshed(new))
    BY <1>1, Refreshes
<1>5. Keeping(new, restorePersistedConnectionTarget(Refreshed(new)))
    BY <1>4, Restored, KeepingOn DEF Keeping
<1> QED
    BY <1>1, <1>2, <1>3, <1>5 DEF Keeping, KeyIsListed, EditorIsFilled

\* What follows a list leaves the list alone.
LEMMA FollowsList ==
    ASSUME NEW s \in ConnectionsState, KeyIsListed(s), NEW call \in Call, call.op = "list"
    PROVE  Keeping(s, AfterList(s, call))
<1>1. call.then \in {"nothing", "delete", "create", "save"}
    BY DEF Call
<1>2. CASE call.then = "create"
    <2> DEFINE t == applyConnectionForm([s EXCEPT !.selected = call.name], call.config)
    <2>1. call.name \in Names /\ call.config \in Configs
        BY <1>2 DEF Call
    <2>2. /\ t \in ConnectionsState /\ t.list = s.list /\ t.listed = s.listed
          /\ t.target = s.target /\ (EditorIsFilled(s) => EditorIsFilled(t))
        BY <2>1 DEF ConnectionsState, applyConnectionForm, EditorIsFilled
    <2>3. AfterList(s, call) =
            AimAtSaved(clearTemporaryConnectionActive(t), call.name, call.config)
        BY <1>2 DEF AfterList
    <2> HIDE DEF t
    <2>4. Keeping(s, t)
        BY <2>2, Elsewhere
    <2>5. Keeping(t, clearTemporaryConnectionActive(t))
        BY <2>2, <2>4, Cleared DEF Keeping
    <2>6. Keeping(clearTemporaryConnectionActive(t), AfterList(s, call))
        BY <2>1, <2>3, <2>5, AimsAtSaved DEF Keeping
    <2> QED
        BY <2>4, <2>5, <2>6, KeepingOn
<1>3. CASE call.then = "save"
    <2> DEFINE t == [s EXCEPT !.selected = call.name, !.editor.open = FALSE]
    <2>1. call.name \in Names /\ call.config \in Configs
        BY <1>3 DEF Call
    <2>2. /\ t \in ConnectionsState /\ t.list = s.list /\ t.listed = s.listed
          /\ t.target = s.target /\ (EditorIsFilled(s) => EditorIsFilled(t))
        BY <2>1 DEF ConnectionsState, EditorIsFilled
    <2>3. AfterList(s, call) = IF call.retarget THEN AimAtSaved(t, call.name, call.config) ELSE t
        BY <1>3 DEF AfterList
    <2> HIDE DEF t
    <2>4. Keeping(s, t)
        BY <2>2, Elsewhere
    <2>5. Keeping(t, AimAtSaved(t, call.name, call.config))
        BY <2>1, <2>2, AimsAtSaved
    <2> QED
        BY <2>3, <2>4, <2>5, KeepingOn
<1>4. CASE call.then \in {"nothing", "delete"}
    BY <1>4, Elsewhere DEF AfterList
<1> QED
    BY <1>1, <1>2, <1>3, <1>4

\* A list that came from the service is what the service keeps, or another one is on
\* its way.
ListedIsSaved ==
    state.listed => state.list = saved \/ \E i \in DOMAIN calls : calls[i].op = "list"

ConnectionsInv == TypeOK /\ KeyIsListed(state) /\ EditorIsFilled(state) /\ ListedIsSaved

LEMMA Asks ==
    ASSUME ConnectionsInv, Keeping(state, state'), saved' = saved,
           calls' = calls \/ (CanPost(calls) /\ \E call \in Call : calls' = Post(calls, call))
    PROVE  ConnectionsInv'
<1>1. CallsTyped(calls)
    BY DEF ConnectionsInv, TypeOK, CallsTyped
<1>2. CallsTyped(calls') /\ \A i \in DOMAIN calls : i \in DOMAIN calls' /\ calls'[i] = calls[i]
    BY <1>1, Posted
<1> QED
    BY <1>2 DEF ConnectionsInv, TypeOK, ListedIsSaved, Keeping, CallsTyped

\* An answer after which the service keeps something else asks for the list.
LEMMA AnsweredByChange ==
    ASSUME ConnectionsInv, Keeping(state, state'), saved' \in Catalog, NEW i \in DOMAIN calls,
           NEW call \in Call, call.op = "list", calls' = Chain(calls, i, call)
    PROVE  ConnectionsInv'
<1>1. CallsTyped(calls)
    BY DEF ConnectionsInv, TypeOK, CallsTyped
<1>2. CallsTyped(calls') /\ i \in DOMAIN calls' /\ calls'[i].op = "list"
    BY <1>1, Chained
<1> QED
    BY <1>2 DEF ConnectionsInv, TypeOK, ListedIsSaved, Keeping, CallsTyped

LEMMA AnsweredByNothing ==
    ASSUME ConnectionsInv, Keeping(state, state'), saved' = saved, NEW i \in DOMAIN calls,
           calls[i].op # "list", calls' = Settle(calls, i)
    PROVE  ConnectionsInv'
<1>1. CallsTyped(calls)
    BY DEF ConnectionsInv, TypeOK, CallsTyped
<1>2. CallsTyped(calls') /\ \A j \in DOMAIN calls \ {i} : j \in DOMAIN calls' /\ calls'[j] = calls[j]
    BY <1>1, Settled
<1> QED
    BY <1>2 DEF ConnectionsInv, TypeOK, ListedIsSaved, Keeping, CallsTyped

LEMMA AnswersList ==
    ASSUME ConnectionsInv, NEW i \in DOMAIN calls, AnswerList(i)
    PROVE  ConnectionsInv'
<1>1. PICK s \in Loaded : state' = AfterList(s, calls[i])
    BY DEF AnswerList
<1>2. /\ s \in ConnectionsState /\ KeyIsListed(s) /\ (EditorIsFilled(state) => EditorIsFilled(s))
      /\ s.listed => s.list = saved
    BY Loads DEF ConnectionsInv
<1>3. CallsTyped(calls)
    BY DEF ConnectionsInv, TypeOK, CallsTyped
<1>4. calls[i] \in Call /\ calls[i].op = "list" /\ saved' = saved /\ CallsTyped(calls')
    BY <1>3, Settled DEF AnswerList, CallsTyped
<1>5. Keeping(s, state')
    BY <1>1, <1>2, <1>4, FollowsList
<1> QED
    BY <1>2, <1>4, <1>5 DEF ConnectionsInv, TypeOK, ListedIsSaved, Keeping, CallsTyped

-----------------------------------------------------------------------------
\* A detail is used as it is cached or as it arrives.

LEMMA Uses ==
    ASSUME NEW s \in ConnectionsState, KeyIsListed(s), NEW name \in Names, NEW config \in Configs
    PROVE  Keeping(s, loadSavedConnectionByName(s, name, config))
<1> DEFINE t == [applyConnectionForm(s, config) EXCEPT !.selected = name]
<1>1. /\ t \in ConnectionsState /\ t.list = s.list /\ t.listed = s.listed
      /\ t.target = s.target /\ (EditorIsFilled(s) => EditorIsFilled(t))
    BY DEF ConnectionsState, applyConnectionForm, EditorIsFilled
<1>2. loadSavedConnectionByName(s, name, config) =
        AimAtSaved(clearTemporaryConnectionActive(t), name, config)
    BY DEF loadSavedConnectionByName
<1> HIDE DEF t
<1>3. Keeping(s, t)
    BY <1>1, Elsewhere
<1>4. Keeping(t, clearTemporaryConnectionActive(t))
    BY <1>1, <1>3, Cleared DEF Keeping
<1>5. Keeping(clearTemporaryConnectionActive(t), loadSavedConnectionByName(s, name, config))
    BY <1>2, <1>4, AimsAtSaved DEF Keeping
<1> QED
    BY <1>3, <1>4, <1>5, KeepingOn

LEMMA Edits ==
    ASSUME NEW s \in ConnectionsState, KeyIsListed(s), NEW name \in Names, NEW config \in Configs
    PROVE  Keeping(s, openSavedConnectionEditor(s, name, config))
<1> DEFINE t == openSavedConnectionEditor(s, name, config)
<1>1. /\ t \in ConnectionsState /\ t.list = s.list /\ t.listed = s.listed
      /\ t.target = s.target /\ (EditorIsFilled(s) => EditorIsFilled(t))
    BY DEF ConnectionsState, openSavedConnectionEditor, EditorIsFilled
<1> QED
    BY <1>1, Elsewhere

LEMMA UsesOrEdits ==
    ASSUME ConnectionsInv, useSavedConnection \/ editSavedConnection
    PROVE  ConnectionsInv'
<1> DEFINE name == state.selected
<1>1. state \in ConnectionsState /\ KeyIsListed(state)
    BY DEF ConnectionsInv, TypeOK
<1>2. name \in Names /\ saved' = saved
    BY <1>1 DEF useSavedConnection, editSavedConnection, WithDetail, ConnectionsState
<1>3. CASE state.details[name] # None
    <2>1. state.details[name] \in Configs
        BY <1>1, <1>2, <1>3 DEF ConnectionsState, Catalog
    <2>2. /\ calls' = calls
          /\ \/ state' = loadSavedConnectionByName(state, name, state.details[name])
             \/ state' = openSavedConnectionEditor(state, name, state.details[name])
        BY <1>3 DEF useSavedConnection, editSavedConnection, WithDetail
    <2>3. Keeping(state, state')
        BY <1>1, <1>2, <2>1, <2>2, Uses, Edits
    <2> QED
        BY <1>2, <2>2, <2>3, Asks
<1>4. CASE state.details[name] = None
    <2>1. state' = state /\ CanPost(calls)
        BY <1>4 DEF useSavedConnection, editSavedConnection, WithDetail
    <2>2. \E b \in {"use", "edit"} : calls' = Post(calls, [op |-> b, name |-> name])
        BY <1>4 DEF useSavedConnection, editSavedConnection, WithDetail
    <2>3. \E call \in Call : calls' = Post(calls, call)
        BY <1>2, <2>2, CallTypes
    <2>4. Keeping(state, state')
        BY <1>1, <2>1, Elsewhere
    <2> QED
        BY <1>2, <2>1, <2>3, <2>4, Asks
<1> QED
    BY <1>3, <1>4

\* Steps of the user that ask for nothing and set no target.
LEMMA Looks ==
    ASSUME ConnectionsInv,
           \/ selectSavedConnection \/ openDeleteConfirmation \/ cancelDeleteConfirmation
           \/ changeTemporaryForm \/ changeEditor \/ hideSavedConnectionEditorModal
    PROVE  ConnectionsInv'
<1>1. state \in ConnectionsState /\ KeyIsListed(state)
    BY DEF ConnectionsInv, TypeOK
<1>2. /\ saved' = saved /\ calls' = calls
      /\ state'.list = state.list /\ state'.listed = state.listed
      /\ state'.target = state.target /\ state' \in ConnectionsState
      /\ (EditorIsFilled(state) => EditorIsFilled(state'))
    <2>1. CASE selectSavedConnection
        BY <1>1, <2>1 DEF selectSavedConnection, Listed, ConnectionsState, EditorIsFilled
    <2>2. CASE openDeleteConfirmation
        BY <1>1, <2>2 DEF openDeleteConfirmation, Listed, ConnectionsState, EditorIsFilled
    <2>3. CASE cancelDeleteConfirmation
        BY <1>1, <2>3 DEF cancelDeleteConfirmation, ConnectionsState, EditorIsFilled
    <2>4. CASE changeTemporaryForm
        BY <1>1, <2>4 DEF changeTemporaryForm, ConnectionsState, EditorIsFilled
    <2>5. CASE changeEditor
        BY <1>1, <2>5 DEF changeEditor, ConnectionsState, EditorIsFilled
    <2>6. CASE hideSavedConnectionEditorModal
        BY <1>1, <2>6 DEF hideSavedConnectionEditorModal, ConnectionsState, EditorIsFilled
    <2> QED
        BY <2>1, <2>2, <2>3, <2>4, <2>5, <2>6
<1>3. Keeping(state, state')
    BY <1>1, <1>2, Elsewhere
<1> QED
    BY <1>2, <1>3, Asks

\* Steps of the user that ask for something.
LEMMA AsksFor ==
    ASSUME ConnectionsInv,
           \/ importConnections \/ confirmDeleteSavedConnection \/ saveSavedConnectionEditor
           \/ loadSavedConnections \/ \E name \in Names : createSavedConnectionDraft(name)
    PROVE  ConnectionsInv'
<1>1. state \in ConnectionsState /\ KeyIsListed(state)
    BY DEF ConnectionsInv, TypeOK
<1> DEFINE Asked == calls' = calls \/ (CanPost(calls) /\ \E call \in Call : calls' = Post(calls, call))
<1>2. CASE importConnections \/ loadSavedConnections
    <2>1. Asked /\ state' = state /\ saved' = saved
        BY <1>2, CallTypes DEF importConnections, loadSavedConnections
    <2> QED
        BY <1>1, <2>1, Elsewhere, Asks
<1>3. CASE confirmDeleteSavedConnection
    <2>1. state.selected \in Names \cup {None}
        BY <1>1 DEF ConnectionsState
    <2>2. Asked /\ saved' = saved
        BY <1>3, <2>1, CallTypes DEF confirmDeleteSavedConnection
    <2>3. /\ state' \in ConnectionsState /\ state'.list = state.list
          /\ state'.listed = state.listed /\ state'.target = state.target
          /\ (EditorIsFilled(state) => EditorIsFilled(state'))
        BY <1>1, <1>3 DEF confirmDeleteSavedConnection, ConnectionsState, EditorIsFilled
    <2> QED
        BY <1>1, <2>2, <2>3, Elsewhere, Asks
<1>4. CASE saveSavedConnectionEditor
    <2>1. state' = state /\ saved' = saved /\ CanPost(calls)
        BY <1>4 DEF saveSavedConnectionEditor
    <2>2. PICK call : /\ call = [op |-> "save", original |-> state.editor.original,
                                 name |-> state.editor.name, config |-> state.editor.config,
                                 target |-> state.target.name]
                      /\ calls' = Post(calls, call)
        BY <1>4 DEF saveSavedConnectionEditor
    <2>3. state.editor.open /\ EditorIsFilled(state)
        BY <1>4 DEF saveSavedConnectionEditor, ConnectionsInv
    <2>4. state.target.name \in Names \cup {None}
        BY <1>1 DEF ConnectionsState, Targets
    <2>5. call \in Call
        BY <2>2, <2>3, <2>4, CallTypes DEF EditorIsFilled
    <2> QED
        BY <1>1, <2>1, <2>2, <2>5, Elsewhere, Asks
<1>5. ASSUME NEW name \in Names, createSavedConnectionDraft(name) PROVE ConnectionsInv'
    <2>1. state.form \in Configs \cup {Blank}
        BY <1>1 DEF ConnectionsState
    <2>2. Asked /\ saved' = saved
        BY <1>5, <2>1, CallTypes DEF createSavedConnectionDraft
    <2>3. /\ state' \in ConnectionsState /\ state'.list = state.list
          /\ state'.listed = state.listed /\ state'.target = state.target
          /\ (EditorIsFilled(state) => EditorIsFilled(state'))
        BY <1>1, <1>5 DEF createSavedConnectionDraft, ConnectionsState, EditorIsFilled
    <2> QED
        BY <1>1, <2>2, <2>3, Elsewhere, Asks
<1> QED
    BY <1>2, <1>3, <1>4, <1>5

LEMMA AppliesTemporary ==
    ASSUME ConnectionsInv, applyTemporaryConnection
    PROVE  ConnectionsInv'
<1> DEFINE s == [state EXCEPT !.selected = None]
<1>1. /\ s \in ConnectionsState /\ s.list = state.list /\ s.listed = state.listed
      /\ s.target = state.target /\ (EditorIsFilled(state) => EditorIsFilled(s))
      /\ state.form \in Configs \cup {Blank} /\ KeyIsListed(state)
    BY DEF ConnectionsInv, TypeOK, ConnectionsState, EditorIsFilled
<1>2. state' = AimAtTemporary(s, state.form) /\ saved' = saved /\ calls' = calls
    BY DEF applyTemporaryConnection
<1> HIDE DEF s
<1>3. Keeping(state, state')
    BY <1>1, <1>2, AimsAtTemporary DEF Keeping
<1> QED
    BY <1>2, <1>3, Asks

LEMMA UserKeeps ==
    ASSUME ConnectionsInv, UserStep
    PROVE  ConnectionsInv'
BY UsesOrEdits, Looks, AsksFor, AppliesTemporary
   DEF UserStep, LibraryPanel, LibraryDeletion, TemporaryPanel, EditorForm

-----------------------------------------------------------------------------
\* Answers.

LEMMA AnswersDetail ==
    ASSUME ConnectionsInv, NEW i \in DOMAIN calls,
           \/ AnswerDetail(i, "use", loadSavedConnectionByName)
           \/ AnswerDetail(i, "edit", openSavedConnectionEditor)
    PROVE  ConnectionsInv'
<1> DEFINE name == calls[i].name
           cached == [state EXCEPT !.details[name] = saved[name]]
<1>1. state \in ConnectionsState /\ KeyIsListed(state) /\ saved \in Catalog
    BY DEF ConnectionsInv, TypeOK
<1>2. calls[i].op \in {"use", "edit"} /\ calls[i] \in Call
    BY DEF AnswerDetail, ConnectionsInv, TypeOK
<1>3. name \in Names
    BY <1>2 DEF Call
<1>4. cached \in ConnectionsState /\ cached.list = state.list /\ cached.listed = state.listed
          /\ cached.target = state.target /\ (EditorIsFilled(state) => EditorIsFilled(cached))
    BY <1>1, <1>3 DEF ConnectionsState, Catalog, EditorIsFilled
<1>5. /\ saved' = saved /\ calls' = Settle(calls, i)
      /\ \/ state' = state
         \/ /\ saved[name] # None
            /\ \/ state' = loadSavedConnectionByName(cached, name, saved[name])
               \/ state' = openSavedConnectionEditor(cached, name, saved[name])
    BY DEF AnswerDetail
<1> HIDE DEF cached
<1>6. Keeping(state, cached) /\ Keeping(state, state)
    BY <1>1, <1>4, Elsewhere
<1>7. ASSUME saved[name] # None
      PROVE  /\ Keeping(cached, loadSavedConnectionByName(cached, name, saved[name]))
             /\ Keeping(cached, openSavedConnectionEditor(cached, name, saved[name]))
    <2>1. saved[name] \in Configs
        BY <1>1, <1>3, <1>7 DEF Catalog
    <2> QED
        BY <1>3, <1>6, <2>1, Uses, Edits DEF Keeping
<1>8. Keeping(state, state')
    BY <1>5, <1>6, <1>7, KeepingOn
<1> QED
    BY <1>2, <1>5, <1>8, AnsweredByNothing

LEMMA AnswersDelete ==
    ASSUME ConnectionsInv, NEW i \in DOMAIN calls, AnswerDelete(i)
    PROVE  ConnectionsInv'
<1> DEFINE name == calls[i].name
           gone == [state EXCEPT !.details[name] = None, !.selected = None]
           untied == IF gone.target.kind = "saved" /\ gone.target.name = name THEN NoAim(gone)
                     ELSE gone
<1>1. state \in ConnectionsState /\ KeyIsListed(state) /\ saved \in Catalog
    BY DEF ConnectionsInv, TypeOK
<1>2. calls[i].op = "delete" /\ calls[i] \in Call
    BY DEF AnswerDelete, ConnectionsInv, TypeOK
<1>3. name \in Names
    BY <1>2 DEF Call
<1>4. /\ gone \in ConnectionsState /\ gone.list = state.list /\ gone.listed = state.listed
      /\ gone.target = state.target /\ (EditorIsFilled(state) => EditorIsFilled(gone))
    BY <1>1, <1>3 DEF ConnectionsState, Catalog, EditorIsFilled
<1>5. \/ /\ saved' = [saved EXCEPT ![name] = None]
         /\ state' = clearTemporaryConnectionActive(untied)
         /\ calls' = Chain(calls, i, [op |-> "list", then |-> "delete"])
      \/ calls' = Settle(calls, i) /\ state' = state /\ saved' = saved
    BY DEF AnswerDelete
<1>6. untied = NoAim(gone) \/ untied = gone
    OBVIOUS
<1> HIDE DEF gone, untied
<1>7. Keeping(state, gone) /\ Keeping(state, state)
    BY <1>1, <1>4, Elsewhere
<1>8. Keeping(gone, NoAim(gone)) /\ Keeping(gone, gone)
    BY <1>4, <1>7, AimsAtNone, Elsewhere DEF Keeping
<1>9. Keeping(gone, untied)
    BY <1>6, <1>8
<1>10. Keeping(untied, clearTemporaryConnectionActive(untied))
    BY <1>9, Cleared DEF Keeping
<1>11. CASE calls' = Settle(calls, i) /\ state' = state /\ saved' = saved
    BY <1>2, <1>7, <1>11, AnsweredByNothing
<1>12. CASE /\ saved' = [saved EXCEPT ![name] = None]
            /\ state' = clearTemporaryConnectionActive(untied)
            /\ calls' = Chain(calls, i, [op |-> "list", then |-> "delete"])
    <2>1. saved' \in Catalog
        BY <1>1, <1>12 DEF Catalog
    <2>2. Keeping(state, state')
        BY <1>7, <1>9, <1>10, <1>12, KeepingOn
    <2> QED
        BY <1>12, <2>1, <2>2, CallTypes, AnsweredByChange
<1> QED
    BY <1>5, <1>11, <1>12

LEMMA AnswersStore ==
    ASSUME ConnectionsInv, NEW i \in DOMAIN calls,
           AnswerCreate(i) \/ AnswerImport(i) \/ AnswerSave(i)
    PROVE  ConnectionsInv'
<1>1. /\ state \in ConnectionsState /\ KeyIsListed(state) /\ saved \in Catalog
      /\ calls[i] \in Call /\ calls[i].op \in {"create", "import", "save"}
    BY DEF ConnectionsInv, TypeOK, AnswerCreate, AnswerImport, AnswerSave
<1>2. CASE calls' = Settle(calls, i) /\ state' = state /\ saved' = saved
    BY <1>1, <1>2, Elsewhere, AnsweredByNothing
<1>3. CASE AnswerCreate(i) /\ ~ (calls' = Settle(calls, i) /\ state' = state /\ saved' = saved)
    <2> DEFINE name == calls[i].name
               config == calls[i].config
    <2>1. /\ config # Blank /\ saved' = [saved EXCEPT ![name] = config]
          /\ state' = [state EXCEPT !.details[name] = config]
          /\ calls' = Chain(calls, i, [op |-> "list", then |-> "create", name |-> name,
                                       config |-> config])
          /\ calls[i].op = "create"
        BY <1>3 DEF AnswerCreate
    <2>2. name \in Names /\ config \in Configs
        BY <1>1, <2>1 DEF Call
    <2>3. /\ saved' \in Catalog /\ state' \in ConnectionsState /\ state'.list = state.list
          /\ state'.listed = state.listed /\ state'.target = state.target
          /\ (EditorIsFilled(state) => EditorIsFilled(state'))
        BY <1>1, <2>1, <2>2 DEF ConnectionsState, Catalog, EditorIsFilled
    <2> QED
        BY <1>1, <2>1, <2>2, <2>3, CallTypes, Elsewhere, AnsweredByChange
<1>4. CASE AnswerImport(i) /\ ~ (calls' = Settle(calls, i) /\ state' = state /\ saved' = saved)
    <2>1. PICK n \in Names, config \in Configs : saved' = [saved EXCEPT ![n] = config]
        BY <1>4 DEF AnswerImport
    <2>2. saved' \in Catalog
        BY <1>1, <2>1 DEF Catalog
    <2>3. state' = state /\ calls' = Chain(calls, i, [op |-> "list", then |-> "nothing"])
        BY <1>4 DEF AnswerImport
    <2> QED
        BY <1>1, <2>2, <2>3, CallTypes, Elsewhere, AnsweredByChange
<1>5. CASE AnswerSave(i) /\ ~ (calls' = Settle(calls, i) /\ state' = state /\ saved' = saved)
    <2> DEFINE call == calls[i]
               retarget == call.target \in {call.original, call.name}
               after == [op |-> "list", then |-> "save", name |-> call.name,
                         config |-> call.config, retarget |-> retarget]
    <2>1. /\ saved' = Stored(call) /\ calls' = Chain(calls, i, after) /\ call.op = "save"
          /\ state' = [state EXCEPT !.details[call.name] = call.config,
                                    !.editor.original = call.name]
        BY <1>5 DEF AnswerSave
    <2>2. call.name \in Names /\ call.config \in Configs
        BY <1>1, <2>1 DEF Call
    <2> retarget \in BOOLEAN
        OBVIOUS
    <2> HIDE DEF retarget
    <2>3. after \in Call /\ after.op = "list"
        BY <2>2, CallTypes
    <2>4. saved' \in Catalog
        BY <1>1, <2>1, <2>2 DEF Catalog, Stored
    <2> HIDE DEF after
    <2>5. /\ state' \in ConnectionsState /\ state'.list = state.list
          /\ state'.listed = state.listed /\ state'.target = state.target
          /\ (EditorIsFilled(state) => EditorIsFilled(state'))
        <3>1. state' = [state EXCEPT !.details[call.name] = call.config,
                                     !.editor.original = call.name]
            BY <2>1
        <3> HIDE DEF call
        <3>2. state' \in ConnectionsState
            <4> DEFINE details == [state.details EXCEPT ![call.name] = call.config]
                       editor == [state.editor EXCEPT !.original = call.name]
            <4>1. details \in Catalog
                BY <1>1, <2>2 DEF ConnectionsState, Catalog
            <4>2. editor \in [open: BOOLEAN, original: Names \cup {None}, name: Names \cup {None},
                              config: Configs \cup {Blank}]
                BY <1>1, <2>2 DEF ConnectionsState
            <4>3. state' = [state EXCEPT !.details = details, !.editor = editor]
                BY <1>1, <3>1 DEF ConnectionsState
            <4> HIDE DEF details, editor
            <4> QED
                BY <1>1, <4>1, <4>2, <4>3 DEF ConnectionsState
        <3>3. /\ state'.list = state.list /\ state'.listed = state.listed
              /\ state'.target = state.target /\ state'.editor.open = state.editor.open
              /\ state'.editor.name = state.editor.name
              /\ state'.editor.config = state.editor.config
              /\ state'.editor.original = call.name
            BY <1>1, <3>1 DEF ConnectionsState
        <3> QED
            BY <2>2, <3>2, <3>3 DEF EditorIsFilled
    <2> QED
        BY <1>1, <2>1, <2>3, <2>4, <2>5, Elsewhere, AnsweredByChange
<1> QED
    BY <1>2, <1>3, <1>4, <1>5

LEMMA AnswerKeeps ==
    ASSUME ConnectionsInv, NEW i \in DOMAIN calls, Answer(i)
    PROVE  ConnectionsInv'
BY AnswersList, AnswersDelete, AnswersStore, AnswersDetail DEF Answer

-----------------------------------------------------------------------------
\* The session.

LEMMA RangeFacts ==
    ASSUME NEW q \in Seq(Configs)
    PROVE  /\ Range(<<>>) = {} /\ Range(q) \subseteq Configs
           /\ \A c \in Configs : Append(q, c) \in Seq(Configs)
                                 /\ Range(Append(q, c)) = Range(q) \cup {c}
           /\ q # <<>> => /\ Tail(q) \in Seq(Configs) /\ Head(q) \in Range(q)
                          /\ Range(Tail(q)) \subseteq Range(q)
                          /\ Range(q) \subseteq Range(Tail(q)) \cup {Head(q)}
<1>1. Range(<<>>) = {} /\ Range(q) \subseteq Configs
    BY DEF Range
<1>2. ASSUME NEW c \in Configs
      PROVE  Append(q, c) \in Seq(Configs) /\ Range(Append(q, c)) = Range(q) \cup {c}
    <2>1. /\ Append(q, c) \in Seq(Configs) /\ Len(Append(q, c)) = Len(q) + 1
          /\ \A i \in 1..Len(q) : Append(q, c)[i] = q[i]
          /\ Append(q, c)[Len(q) + 1] = c
        BY AppendProperties
    <2>2. Range(Append(q, c)) = {Append(q, c)[i] : i \in 1..(Len(q) + 1)}
        BY <2>1, RangeEquality
    <2>3. Range(q) = {q[i] : i \in 1..Len(q)}
        BY RangeEquality
    <2> QED
        BY <2>1, <2>2, <2>3
<1>3. ASSUME q # <<>>
      PROVE  /\ Tail(q) \in Seq(Configs) /\ Head(q) \in Range(q)
             /\ Range(Tail(q)) \subseteq Range(q)
             /\ Range(q) \subseteq Range(Tail(q)) \cup {Head(q)}
    <2>1. /\ Tail(q) \in Seq(Configs) /\ Len(Tail(q)) = Len(q) - 1
          /\ \A i \in 1..Len(Tail(q)) : Tail(q)[i] = q[i + 1]
        BY <1>3, HeadTailProperties
    <2>2. Range(q) = {q[i] : i \in 1..Len(q)}
        BY RangeEquality
    <2>3. Range(Tail(q)) = {Tail(q)[i] : i \in 1..Len(Tail(q))}
        BY <2>1, RangeEquality
    <2>4. Head(q) = q[1] /\ Len(q) \in Nat \ {0}
        BY <1>3
    <2>5. ASSUME NEW i \in 1..Len(q) PROVE q[i] \in Range(Tail(q)) \cup {Head(q)}
        <3>1. CASE i = 1
            BY <2>4, <3>1
        <3>2. CASE i # 1
            <4>1. i - 1 \in 1..Len(Tail(q)) /\ (i - 1) + 1 = i
                BY <2>1, <2>4, <3>2
            <4>2. Tail(q)[i - 1] = q[i]
                BY <2>1, <4>1
            <4> QED
                BY <2>3, <4>1, <4>2
        <3> QED
            BY <3>1, <3>2
    <2>6. ASSUME NEW i \in 1..Len(Tail(q)) PROVE Tail(q)[i] \in Range(q)
        BY <2>1, <2>2, <2>4
    <2> QED
        BY <2>1, <2>2, <2>3, <2>4, <2>5, <2>6
<1> QED
    BY <1>1, <1>2, <1>3

\* Nothing is going on, and nothing is shown.
Resting(s) == s.phase = "none" /\ s.status = "idle"

\* Whatever the user wishes for meanwhile: the loop has a wish to work on, and connects
\* only when nothing is left to be released.
LoopTypeOK(s) ==
    /\ s \in ConnectionSessionState
    /\ s.active \notin Range(s.retired)
    /\ s.phase \in {"release", "settle"} => s.retired # <<>>
    /\ s.phase \in {"release", "connect", "settle"} => s.wish \in Wishes
    /\ s.phase \in {"connect", "settle"} => s.wish[1] # None /\ s.wish[2].enabled
    /\ s.phase = "connect" => s.retired = <<>>

\* What is desired is the target under the preferences, and a session that is shown as
\* connected is the one that is desired.
Coherent(s) ==
    /\ Resting(s) \/ s.desired = <<s.target, s.keepAlive>>
    /\ s.status = "connected" => s.activeKey = s.desired /\ Wanted(s)
    /\ s.phase = "none" => s.status # "connecting"

\* Unless the wish has changed, the loop works on what is desired; when it has, no
\* session is shown as connected but one that is about to be checked.
Current(s) ==
    /\ ~ s.stale /\ s.phase \in {"release", "connect", "settle"} => s.wish = s.desired
    /\ ~ s.stale /\ s.phase = "settle" => s.activeKey = s.wish
    /\ ~ s.stale /\ s.phase = "end" => s.status # "connecting"
    /\ s.stale /\ s.status = "connected" => s.phase = "start"

LoopInv(s) == LoopTypeOK(s) /\ Coherent(s) /\ Current(s)

\* What the service keeps is known to the console.
Known(s, k) ==
    /\ k \subseteq Configs
    /\ k \subseteq Range(s.retired) \cup {s.active}
    /\ s.phase = "settle" => s.active \in k

KeptInv(s, k) == Known(s, k) /\ (s.status = "connected" => s.active \in k)

\* The inductive invariant.
SessionInv ==
    /\ ConnectionsInv /\ LoopInv(session) /\ KeptInv(session, kept)
    /\ session.target = SessionTarget /\ left \in 0..Budget

\* What the user does to the wish: it is desired from now on, and the loop is to go
\* round again.
LEMMA Schedules ==
    ASSUME NEW s, LoopTypeOK(s), NEW k, Known(s, k), NEW force \in BOOLEAN,
           force \/ <<s.target, s.keepAlive>> # s.desired
    PROVE  /\ LoopInv(schedule(s, force, FALSE)) /\ KeptInv(schedule(s, force, FALSE), k)
           /\ schedule(s, force, FALSE).target = s.target
<1> DEFINE key == <<s.target, s.keepAlive>>
           status == IF Wanted(s) THEN "connecting" ELSE "idle"
           phase == IF s.phase = "none" THEN "start" ELSE s.phase
           t == [s EXCEPT !.desired = key, !.status = status, !.stale = TRUE, !.phase = phase]
<1>1. s \in ConnectionSessionState
    BY DEF LoopTypeOK
<1>2. key \in Wishes
    BY <1>1 DEF Wishes, ConnectionSessionState
<1>3. status \in {"connecting", "idle"} /\ phase \in Phases /\ phase # "none"
      /\ (phase = s.phase \/ phase = "start")
    BY <1>1 DEF ConnectionSessionState, Phases
<1>4. schedule(s, force, FALSE) = t
    BY <1>1 DEF schedule, Scheduled, ConnectionSessionState
<1> HIDE DEF key, status, phase
<1>5. /\ t \in ConnectionSessionState /\ t.target = s.target /\ t.keepAlive = s.keepAlive
      /\ t.desired = key /\ t.status = status /\ t.stale = TRUE /\ t.phase = phase
      /\ t.wish = s.wish /\ t.active = s.active /\ t.activeKey = s.activeKey
      /\ t.retired = s.retired
    BY <1>1, <1>2, <1>3 DEF ConnectionSessionState
<1> HIDE DEF t
<1>6. LoopTypeOK(t)
    BY <1>3, <1>5 DEF LoopTypeOK
<1>7. Coherent(t) /\ Current(t)
    BY <1>3, <1>5 DEF Coherent, Current, key
<1>8. KeptInv(t, k)
    BY <1>3, <1>5 DEF KeptInv, Known
<1> QED
    BY <1>4, <1>5, <1>6, <1>7, <1>8 DEF LoopInv

\* The target or the preferences become others, or stay what is desired.
LEMMA Wishing ==
    ASSUME NEW s, LoopInv(s), NEW k, KeptInv(s, k), NEW t \in ConnectionSessionState,
           \/ t = [s EXCEPT !.target = t.target]
           \/ t = [s EXCEPT !.keepAlive = t.keepAlive]
    PROVE  /\ LoopInv(schedule(t, FALSE, FALSE)) /\ KeptInv(schedule(t, FALSE, FALSE), k)
           /\ schedule(t, FALSE, FALSE).target = t.target
<1>1. s \in ConnectionSessionState
    BY DEF LoopInv, LoopTypeOK
<1>2. /\ t.desired = s.desired /\ t.stale = s.stale /\ t.phase = s.phase /\ t.wish = s.wish
      /\ t.active = s.active /\ t.activeKey = s.activeKey /\ t.retired = s.retired
      /\ t.status = s.status
    BY <1>1 DEF ConnectionSessionState
<1>3. LoopTypeOK(t) /\ Known(t, k)
    BY <1>2 DEF LoopInv, LoopTypeOK, KeptInv, Known
<1>4. CASE <<t.target, t.keepAlive>> # t.desired
    BY <1>3, <1>4, Schedules
<1>5. CASE <<t.target, t.keepAlive>> = t.desired
    <2>1. schedule(t, FALSE, FALSE) = t
        BY <1>5 DEF schedule
    <2>2. ASSUME s.status = "connected" PROVE t.target = s.target /\ t.keepAlive = s.keepAlive
        <3>1. s.desired = <<s.target, s.keepAlive>>
            BY <2>2 DEF LoopInv, Coherent, Resting
        <3>2. <<t.target, t.keepAlive>> = <<s.target, s.keepAlive>>
            BY <1>2, <1>5, <3>1
        <3> QED
            BY <3>2
    <2>3. Coherent(t)
        BY <1>2, <1>5, <2>2 DEF LoopInv, Coherent, Wanted
    <2>4. Current(t) /\ KeptInv(t, k)
        BY <1>2, <1>3 DEF LoopInv, Current, KeptInv
    <2> QED
        BY <1>3, <2>1, <2>3, <2>4 DEF LoopInv
<1> QED
    BY <1>4, <1>5

\* What the loop and the user leave as it should be.
Kept(s, k) == LoopInv(s) /\ KeptInv(s, k)

LEMMA Selects ==
    ASSUME NEW s, NEW k, Kept(s, k), NEW c \in Connectable \cup {None}
    PROVE  Kept(selectConnection(s, c), k) /\ selectConnection(s, c).target = c
<1> DEFINE t == [s EXCEPT !.target = c]
<1>1. s \in ConnectionSessionState
    BY DEF Kept, LoopInv, LoopTypeOK
<1>2. t \in ConnectionSessionState /\ t.target = c
    BY <1>1 DEF ConnectionSessionState
<1>3. t = [s EXCEPT !.target = t.target]
    BY <1>2
<1>4. selectConnection(s, c) = schedule(t, FALSE, FALSE)
    BY DEF selectConnection
<1> HIDE DEF t
<1> QED
    BY <1>2, <1>3, <1>4, Wishing DEF Kept

LEMMA Prefers ==
    ASSUME Kept(session, kept), NEW keepAlive \in Preferences, updatePreferences(keepAlive)
    PROVE  Kept(session', kept) /\ session'.target = session.target
<1> DEFINE t == [session EXCEPT !.keepAlive = keepAlive]
<1>1. session \in ConnectionSessionState
    BY DEF Kept, LoopInv, LoopTypeOK
<1>2. t \in ConnectionSessionState /\ t.keepAlive = keepAlive /\ t.target = session.target
    BY <1>1 DEF ConnectionSessionState
<1>3. t = [session EXCEPT !.keepAlive = t.keepAlive]
    BY <1>2
<1>4. session' = schedule(t, FALSE, FALSE)
    BY DEF updatePreferences
<1> HIDE DEF t
<1> QED
    BY <1>2, <1>3, <1>4, Wishing DEF Kept

LEMMA ControlsKeep ==
    ASSUME Kept(session, kept), SessionControls
    PROVE  Kept(session', kept') /\ session'.target = session.target
<1>1. session \in ConnectionSessionState /\ kept' = kept
    BY DEF Kept, LoopInv, LoopTypeOK, SessionControls
<1>2. session.keepAlive \in Preferences
    BY <1>1 DEF ConnectionSessionState
<1>3. CASE setKeepAlive
    <2>1. PICK on \in BOOLEAN : updatePreferences([session.keepAlive EXCEPT !.enabled = on])
        BY <1>3 DEF setKeepAlive
    <2>2. [session.keepAlive EXCEPT !.enabled = on] \in Preferences
        BY <1>2 DEF Preferences
    <2> QED
        BY <1>1, <2>1, <2>2, Prefers
<1>4. CASE setHeartbeatInterval
    <2>1. PICK n \in Intervals : updatePreferences([session.keepAlive EXCEPT !.interval = n])
        BY <1>4 DEF setHeartbeatInterval
    <2>2. [session.keepAlive EXCEPT !.interval = n] \in Preferences
        BY <1>2 DEF Preferences
    <2> QED
        BY <1>1, <2>1, <2>2, Prefers
<1>5. CASE reconnect
    <2> DEFINE t == [session EXCEPT !.activeKey = None]
    <2>1. /\ t \in ConnectionSessionState /\ t.target = session.target
          /\ t.phase = session.phase /\ t.wish = session.wish
          /\ t.active = session.active /\ t.retired = session.retired
        BY <1>1 DEF ConnectionSessionState
    <2>2. session' = schedule(t, TRUE, FALSE)
        BY <1>5 DEF reconnect
    <2> HIDE DEF t
    <2>3. LoopTypeOK(t) /\ Known(t, kept)
        BY <2>1 DEF Kept, LoopInv, LoopTypeOK, KeptInv, Known
    <2> QED
        BY <1>1, <2>1, <2>2, <2>3, Schedules DEF Kept
<1> QED
    BY <1>3, <1>4, <1>5 DEF SessionControls

\* A session that is checked stays shown as connected until the loop finds otherwise.
LEMMA ChecksKeep ==
    ASSUME Kept(session, kept), StatusChecks
    PROVE  Kept(session', kept') /\ session'.target = session.target
<1>1. /\ session \in ConnectionSessionState /\ kept' = kept
      /\ session.phase = "none" /\ session.status = "connected"
    BY DEF Kept, LoopInv, LoopTypeOK, StatusChecks, checkConnection
<1>2. session.desired = <<session.target, session.keepAlive>>
    BY <1>1 DEF Kept, LoopInv, Coherent, Resting
<1> DEFINE t == [session EXCEPT !.stale = TRUE, !.phase = "start"]
<1>3. session' = t
    BY <1>1, <1>2 DEF StatusChecks, checkConnection, schedule, Scheduled, ConnectionSessionState
<1>4. /\ t \in ConnectionSessionState /\ t.target = session.target
      /\ t.keepAlive = session.keepAlive /\ t.desired = session.desired
      /\ t.status = session.status /\ t.stale = TRUE /\ t.phase = "start"
      /\ t.active = session.active /\ t.activeKey = session.activeKey
      /\ t.retired = session.retired
    BY <1>1 DEF ConnectionSessionState, Phases
<1> HIDE DEF t
<1>5. LoopTypeOK(t) /\ Coherent(t) /\ Current(t) /\ KeptInv(t, kept)
    BY <1>1, <1>2, <1>4
    DEF Kept, LoopInv, LoopTypeOK, Coherent, Current, KeptInv, Known, Wanted
<1> QED
    BY <1>1, <1>3, <1>4, <1>5 DEF Kept, LoopInv

-----------------------------------------------------------------------------
\* The loop.

\* Between two phases: what the loop has is in order, and what is shown is so.
InOrder(s, k) ==
    /\ s \in ConnectionSessionState /\ s.active \notin Range(s.retired)
    /\ s.desired = <<s.target, s.keepAlive>>
    /\ s.status = "connected" => s.activeKey = s.desired /\ Wanted(s) /\ s.active \in k /\ ~ s.stale
    /\ k \subseteq Configs /\ k \subseteq Range(s.retired) \cup {s.active}

\* On its way to connect, or to the end.
LEMMA GoesAround ==
    ASSUME NEW s, NEW k, InOrder(s, k), ~ s.stale => s.status # "connecting"
    PROVE  Kept(Around(s), k) /\ Around(s).target = s.target
<1> DEFINE phase == IF s.stale THEN "start" ELSE "end"
           t == [s EXCEPT !.phase = phase]
<1>1. Around(s) = t
    BY DEF Around
<1>2. phase \in Phases /\ (s.stale => phase = "start") /\ (~ s.stale => phase = "end")
      /\ phase \in {"start", "end"}
    BY DEF Phases
<1> HIDE DEF phase
<1>3. /\ t \in ConnectionSessionState /\ t.target = s.target /\ t.keepAlive = s.keepAlive
      /\ t.desired = s.desired /\ t.status = s.status /\ t.stale = s.stale /\ t.phase = phase
      /\ t.active = s.active /\ t.activeKey = s.activeKey /\ t.retired = s.retired
    BY <1>2 DEF InOrder, ConnectionSessionState
<1> HIDE DEF t
<1>4. LoopTypeOK(t) /\ Coherent(t) /\ KeptInv(t, k)
    BY <1>2, <1>3 DEF InOrder, LoopTypeOK, Coherent, KeptInv, Known, Wanted
<1>5. Current(t)
    BY <1>2, <1>3 DEF InOrder, Current
<1> QED
    BY <1>1, <1>3, <1>4, <1>5 DEF Kept, LoopInv

LEMMA Fails ==
    ASSUME NEW s, NEW k, InOrder(s, k)
    PROVE  Kept(Failed(s), k) /\ Failed(s).target = s.target
<1> DEFINE t == IF s.stale THEN s ELSE [s EXCEPT !.status = "error"]
<1>1. InOrder(t, k) /\ (~ t.stale => t.status # "connecting") /\ t.target = s.target
    BY DEF InOrder, ConnectionSessionState, Wanted
<1>2. Failed(s) = Around(t)
    BY DEF Failed
<1> HIDE DEF t
<1> QED
    BY <1>1, <1>2, GoesAround

\* Nothing is left to be released: the loop connects if that is what is wanted.
LEMMA GoesOnToConnect ==
    ASSUME NEW s, NEW k, InOrder(s, k), s.retired = <<>>, s.wish \in Wishes,
           ~ s.stale => s.wish = s.desired
    PROVE  Kept(Connecting(s), k) /\ Connecting(s).target = s.target
<1>1. CASE s.stale
    BY <1>1, GoesAround DEF Connecting
<1>2. CASE ~ s.stale /\ (s.wish[1] = None \/ ~ s.wish[2].enabled)
    <2> DEFINE t == [s EXCEPT !.status = "idle"]
    <2>1. InOrder(t, k) /\ t.status = "idle" /\ t.target = s.target
        BY DEF InOrder, ConnectionSessionState, Wanted
    <2>2. Connecting(s) = Around(t)
        BY <1>2 DEF Connecting
    <2> HIDE DEF t
    <2> QED
        BY <2>1, <2>2, GoesAround
<1>3. CASE ~ s.stale /\ ~ (s.wish[1] = None \/ ~ s.wish[2].enabled)
    <2> DEFINE t == [s EXCEPT !.phase = "connect"]
    <2>1. Connecting(s) = t
        BY <1>3 DEF Connecting
    <2>2. /\ t \in ConnectionSessionState /\ t.target = s.target /\ t.keepAlive = s.keepAlive
          /\ t.desired = s.desired /\ t.status = s.status /\ t.stale = s.stale
          /\ t.phase = "connect" /\ t.wish = s.wish
          /\ t.active = s.active /\ t.activeKey = s.activeKey /\ t.retired = s.retired
        BY DEF InOrder, ConnectionSessionState, Phases
    <2> HIDE DEF t
    <2>3. LoopTypeOK(t)
        BY <1>3, <2>2 DEF InOrder, LoopTypeOK
    <2>4. Coherent(t) /\ KeptInv(t, k)
        BY <2>2 DEF InOrder, Coherent, KeptInv, Known, Wanted
    <2>5. Current(t)
        BY <1>3, <2>2 DEF Current
    <2> QED
        BY <2>1, <2>2, <2>3, <2>4, <2>5 DEF Kept, LoopInv
<1> QED
    BY <1>1, <1>2, <1>3

\* What is retired is released before the loop connects.
LEMMA ReleasesFirst ==
    ASSUME NEW s, NEW k, InOrder(s, k), s.wish \in Wishes, ~ s.stale => s.wish = s.desired
    PROVE  /\ Kept(Releasing(s, "release", Connecting), k)
           /\ Releasing(s, "release", Connecting).target = s.target
<1>1. CASE s.retired = <<>>
    BY <1>1, GoesOnToConnect DEF Releasing
<1>2. CASE s.retired # <<>>
    <2> DEFINE t == [s EXCEPT !.phase = "release"]
    <2>1. Releasing(s, "release", Connecting) = t
        BY <1>2 DEF Releasing
    <2>2. /\ t \in ConnectionSessionState /\ t.target = s.target /\ t.keepAlive = s.keepAlive
          /\ t.desired = s.desired /\ t.status = s.status /\ t.stale = s.stale
          /\ t.phase = "release" /\ t.wish = s.wish
          /\ t.active = s.active /\ t.activeKey = s.activeKey /\ t.retired = s.retired
        BY DEF InOrder, ConnectionSessionState, Phases
    <2> HIDE DEF t
    <2>3. LoopTypeOK(t) /\ Coherent(t) /\ KeptInv(t, k)
        BY <1>2, <2>2 DEF InOrder, LoopTypeOK, Coherent, KeptInv, Known, Wanted
    <2>4. Current(t)
        BY <2>2 DEF InOrder, Current
    <2> QED
        BY <2>1, <2>2, <2>3, <2>4 DEF Kept, LoopInv
<1> QED
    BY <1>1, <1>2

\* The service keeps the session the loop has asked for.
Opened(s, k) ==
    /\ InOrder(s, k) /\ s.wish \in Wishes /\ s.wish[1] # None /\ s.wish[2].enabled
    /\ ~ s.stale => s.wish = s.desired /\ s.activeKey = s.wish
    /\ s.active \in k

LEMMA EndsConnected ==
    ASSUME NEW s, NEW k, Opened(s, k)
    PROVE  Kept(Connected(s), k) /\ Connected(s).target = s.target
<1> DEFINE t == IF s.stale THEN s ELSE [s EXCEPT !.status = "connected"]
<1>1. Connected(s) = Around(t)
    BY DEF Connected
<1>2. CASE s.stale
    BY <1>1, <1>2, GoesAround DEF Opened
<1>3. CASE ~ s.stale
    <2>1. /\ t \in ConnectionSessionState /\ t.target = s.target /\ t.keepAlive = s.keepAlive
          /\ t.desired = s.desired /\ t.status = "connected" /\ t.stale = s.stale
          /\ t.active = s.active /\ t.activeKey = s.activeKey /\ t.retired = s.retired
        BY <1>3 DEF Opened, InOrder, ConnectionSessionState
    <2> HIDE DEF t
    <2>2. s.wish = <<s.target, s.keepAlive>>
        BY <1>3 DEF Opened, InOrder
    <2>3. s.target # None /\ s.keepAlive.enabled
        BY <2>2 DEF Opened
    <2>4. InOrder(t, k)
        BY <1>3, <2>1, <2>3 DEF Opened, InOrder, Wanted
    <2> QED
        BY <1>1, <2>1, <2>4, GoesAround
<1> QED
    BY <1>2, <1>3

\* What the new session replaces is released before it is shown as connected.
LEMMA SettlesFirst ==
    ASSUME NEW s, NEW k, Opened(s, k)
    PROVE  /\ Kept(Releasing(s, "settle", Connected), k)
           /\ Releasing(s, "settle", Connected).target = s.target
<1>1. CASE s.retired = <<>>
    BY <1>1, EndsConnected DEF Releasing
<1>2. CASE s.retired # <<>>
    <2> DEFINE t == [s EXCEPT !.phase = "settle"]
    <2>1. Releasing(s, "settle", Connected) = t
        BY <1>2 DEF Releasing
    <2>2. /\ t \in ConnectionSessionState /\ t.target = s.target /\ t.keepAlive = s.keepAlive
          /\ t.desired = s.desired /\ t.status = s.status /\ t.stale = s.stale
          /\ t.phase = "settle" /\ t.wish = s.wish
          /\ t.active = s.active /\ t.activeKey = s.activeKey /\ t.retired = s.retired
        BY DEF Opened, InOrder, ConnectionSessionState, Phases
    <2> HIDE DEF t
    <2>3. LoopTypeOK(t)
        BY <1>2, <2>2 DEF Opened, InOrder, LoopTypeOK
    <2>4. Coherent(t) /\ KeptInv(t, k)
        BY <2>2 DEF Opened, InOrder, Coherent, KeptInv, Known, Wanted
    <2>5. Current(t)
        BY <2>2 DEF Opened, InOrder, Current
    <2> QED
        BY <2>1, <2>2, <2>3, <2>4, <2>5 DEF Kept, LoopInv
<1> QED
    BY <1>1, <1>2

LEMMA LoopInOrder ==
    ASSUME NEW s, NEW k, Kept(s, k), s.phase \in {"release", "connect", "settle", "end"}
    PROVE  InOrder(s, k)
BY DEF Kept, LoopInv, LoopTypeOK, Coherent, Resting, Current, KeptInv, Known, InOrder

\* A round begins: what is open for another wish waits to be released.
LEMMA ReconcileKeeps ==
    ASSUME Kept(session, kept), reconcile, None \notin Configs
    PROVE  Kept(session', kept') /\ session'.target = session.target
<1> DEFINE wish == <<session.target, session.keepAlive>>
           keep == session.activeKey = session.desired /\ Wanted(session)
           taken == [session EXCEPT !.stale = FALSE, !.wish = wish]
           replaced == [taken EXCEPT !.retired = Append(@, session.active), !.active = None]
           retired == IF session.active = None \/ keep THEN taken ELSE replaced
<1>1. /\ session.phase = "start" /\ kept' = kept
      /\ session' = Releasing(retired, "release", Connecting)
    BY DEF reconcile
<1>2. session \in ConnectionSessionState /\ session.desired = wish
    BY <1>1 DEF Kept, LoopInv, LoopTypeOK, Coherent, Resting
<1>3. wish \in Wishes
    BY <1>2 DEF Wishes, ConnectionSessionState
<1>4. session.status = "connected" => keep
    BY DEF Kept, LoopInv, Coherent
<1>5. /\ session.retired \in Seq(Configs) /\ session.active \in Configs \cup {None}
      /\ session.active \notin Range(session.retired)
      /\ kept \subseteq Configs /\ kept \subseteq Range(session.retired) \cup {session.active}
      /\ session.status = "connected" => session.active \in kept
    BY <1>2 DEF Kept, LoopInv, LoopTypeOK, KeptInv, Known, ConnectionSessionState
<1> HIDE DEF wish
<1>6. /\ taken \in ConnectionSessionState /\ taken.target = session.target
      /\ taken.keepAlive = session.keepAlive /\ taken.desired = session.desired
      /\ taken.status = session.status /\ taken.stale = FALSE /\ taken.wish = wish
      /\ taken.active = session.active /\ taken.activeKey = session.activeKey
      /\ taken.retired = session.retired
    BY <1>2, <1>3 DEF ConnectionSessionState
<1>7. CASE session.active = None \/ keep
    <2>1. InOrder(taken, kept)
        BY <1>2, <1>4, <1>5, <1>6 DEF InOrder, Wanted, wish
    <2>2. session' = Releasing(taken, "release", Connecting)
        BY <1>1, <1>7
    <2> HIDE DEF taken
    <2> QED
        BY <1>1, <1>2, <1>3, <1>6, <2>1, <2>2, ReleasesFirst
<1>8. CASE ~ (session.active = None \/ keep)
    <2> DEFINE queue == Append(session.retired, session.active)
    <2>1. session.active \in Configs
        BY <1>5, <1>8
    <2>2. queue \in Seq(Configs) /\ Range(queue) = Range(session.retired) \cup {session.active}
          /\ Range(queue) \subseteq Configs
        BY <1>5, <2>1, RangeFacts
    <2>3. session' = Releasing(replaced, "release", Connecting)
        BY <1>1, <1>8
    <2>4. replaced = [taken EXCEPT !.retired = queue, !.active = None]
        BY <1>6
    <2> HIDE DEF queue, taken, replaced, keep
    <2>5. /\ replaced \in ConnectionSessionState /\ replaced.target = session.target
          /\ replaced.keepAlive = session.keepAlive /\ replaced.desired = session.desired
          /\ replaced.status = session.status /\ replaced.stale = FALSE /\ replaced.wish = wish
          /\ replaced.active = None /\ replaced.retired = queue
        BY <1>6, <2>2, <2>4 DEF ConnectionSessionState
    <2>6. InOrder(replaced, kept)
        BY <1>2, <1>4, <1>5, <1>8, <2>2, <2>5 DEF InOrder, wish
    <2> QED
        BY <1>1, <1>2, <1>3, <2>3, <2>5, <2>6, ReleasesFirst
<1> QED
    BY <1>7, <1>8

\* The service releases the oldest of the retired, never the one in use.
LEMMA ReleaseKeeps ==
    ASSUME Kept(session, kept), releaseRetired
    PROVE  Kept(session', kept') /\ session'.target = session.target
<1> DEFINE t == [session EXCEPT !.retired = Tail(@)]
           k == kept \ {Head(session.retired)}
<1>1. /\ session.phase \in {"release", "settle"}
      /\ \/ session' = Failed(session) /\ kept' = kept
         \/ session.phase = "release" /\ session' = Releasing(t, "release", Connecting) /\ kept' = k
         \/ session.phase = "settle" /\ session' = Releasing(t, "settle", Connected) /\ kept' = k
    BY DEF releaseRetired, Released
<1>2. InOrder(session, kept)
    BY <1>1, LoopInOrder
<1>3. CASE session' = Failed(session) /\ kept' = kept
    BY <1>2, <1>3, Fails
<1>4. /\ session \in ConnectionSessionState /\ session.retired \in Seq(Configs)
      /\ session.retired # <<>>
    BY <1>1 DEF Kept, LoopInv, LoopTypeOK, ConnectionSessionState
<1>5. /\ Tail(session.retired) \in Seq(Configs) /\ Head(session.retired) \in Range(session.retired)
      /\ Range(Tail(session.retired)) \subseteq Range(session.retired)
      /\ Range(session.retired) \subseteq Range(Tail(session.retired)) \cup {Head(session.retired)}
    BY <1>4, RangeFacts
<1>6. /\ t \in ConnectionSessionState /\ t.target = session.target
      /\ t.keepAlive = session.keepAlive /\ t.desired = session.desired
      /\ t.status = session.status /\ t.stale = session.stale /\ t.wish = session.wish
      /\ t.active = session.active /\ t.activeKey = session.activeKey
      /\ t.retired = Tail(session.retired)
    BY <1>4, <1>5 DEF ConnectionSessionState
<1> HIDE DEF t
<1>7. InOrder(t, k)
    BY <1>2, <1>5, <1>6 DEF InOrder, Wanted
<1>8. /\ session.wish \in Wishes /\ (~ session.stale => session.wish = session.desired)
      /\ session.phase = "settle" =>
            /\ session.wish[1] # None /\ session.wish[2].enabled /\ session.active \in kept
            /\ ~ session.stale => session.activeKey = session.wish
    BY <1>1 DEF Kept, LoopInv, LoopTypeOK, Current, KeptInv, Known
<1>9. CASE session' = Releasing(t, "release", Connecting) /\ kept' = k
    BY <1>6, <1>7, <1>8, <1>9, ReleasesFirst
<1>10. CASE session.phase = "settle" /\ session' = Releasing(t, "settle", Connected) /\ kept' = k
    <2>1. session.active \in k
        BY <1>2, <1>5, <1>8, <1>10 DEF InOrder
    <2>2. Opened(t, k)
        BY <1>6, <1>7, <1>8, <1>10, <2>1 DEF Opened
    <2> QED
        BY <1>6, <1>10, <2>2, SettlesFirst
<1> QED
    BY <1>1, <1>3, <1>9, <1>10

\* The answer may name another device than the one in use, which is retired then.
LEMMA ConnectAnsweredKeeps ==
    ASSUME Kept(session, kept), NEW identity \in Configs, ConnectAnswered(identity),
           None \notin Configs
    PROVE  Kept(session', kept') /\ session'.target = session.target
<1> DEFINE other == session.active \notin {None, identity}
           queue == IF other THEN Append(session.retired, session.active) ELSE session.retired
           t == [session EXCEPT !.retired = queue, !.active = identity,
                                !.activeKey = session.wish]
           k == kept \cup {identity}
<1>1. session.phase = "connect" /\ kept' = k
    BY DEF ConnectAnswered
<1>2. InOrder(session, kept)
    BY <1>1, LoopInOrder
<1>3. /\ session \in ConnectionSessionState /\ session.retired = <<>>
      /\ session.active \in Configs \cup {None} /\ session.wish \in Wishes
      /\ session.wish[1] # None /\ session.wish[2].enabled
      /\ ~ session.stale => session.wish = session.desired
    BY <1>1 DEF Kept, LoopInv, LoopTypeOK, Current, ConnectionSessionState
<1>4. /\ session.retired \in Seq(Configs) /\ Range(session.retired) = {}
      /\ \A c \in Configs : /\ Append(session.retired, c) \in Seq(Configs)
                            /\ Range(Append(session.retired, c)) = {c}
    <2>1. session.retired \in Seq(Configs)
        BY <1>3 DEF ConnectionSessionState
    <2>2. Range(session.retired) = {}
        BY <1>3, <2>1, RangeFacts
    <2>3. ASSUME NEW c \in Configs
          PROVE  /\ Append(session.retired, c) \in Seq(Configs)
                 /\ Range(Append(session.retired, c)) = Range(session.retired) \cup {c}
        BY <2>1, RangeFacts
    <2> QED
        BY <2>1, <2>2, <2>3
<1>5. /\ queue \in Seq(Configs) /\ identity \notin Range(queue)
      /\ kept \subseteq Range(queue) \cup {identity}
    <2>1. kept \subseteq Configs /\ kept \subseteq {session.active}
        BY <1>2, <1>4 DEF InOrder
    <2>2. CASE other
        <3>1. session.active \in Configs /\ queue = Append(session.retired, session.active)
            BY <1>3, <2>2
        <3>2. queue \in Seq(Configs) /\ Range(queue) = {session.active}
            BY <1>4, <3>1
        <3> QED
            BY <2>1, <2>2, <3>2
    <2>3. CASE ~ other
        <3>1. queue = session.retired
            BY <2>3
        <3> QED
            BY <1>4, <2>1, <2>3, <3>1
    <2> QED
        BY <2>2, <2>3
<1>6. session' = Releasing(t, "settle", Connected)
    BY DEF ConnectAnswered
<1> HIDE DEF other, queue
<1>7. /\ t \in ConnectionSessionState /\ t.target = session.target
      /\ t.keepAlive = session.keepAlive /\ t.desired = session.desired
      /\ t.status = session.status /\ t.stale = session.stale /\ t.wish = session.wish
      /\ t.active = identity /\ t.activeKey = session.wish /\ t.retired = queue
    BY <1>3, <1>5 DEF ConnectionSessionState
<1> HIDE DEF t
<1>8. InOrder(t, k)
    BY <1>2, <1>3, <1>5, <1>7 DEF InOrder, Wanted
<1>9. Opened(t, k)
    BY <1>3, <1>7, <1>8 DEF Opened
<1> QED
    BY <1>1, <1>6, <1>7, <1>9, SettlesFirst

LEMMA FinishKeeps ==
    ASSUME Kept(session, kept), Finish
    PROVE  Kept(session', kept') /\ session'.target = session.target
<1> DEFINE t == [session EXCEPT !.phase = "none"]
<1>1. /\ session.phase = "end" /\ kept' = kept
      /\ session' = IF session.stale THEN schedule(t, TRUE, FALSE) ELSE t
    BY DEF Finish
<1>2. session \in ConnectionSessionState /\ InOrder(session, kept)
    BY <1>1, LoopInOrder DEF InOrder
<1>3. /\ t \in ConnectionSessionState /\ t.target = session.target
      /\ t.keepAlive = session.keepAlive /\ t.desired = session.desired
      /\ t.status = session.status /\ t.stale = session.stale /\ t.phase = "none"
      /\ t.active = session.active /\ t.activeKey = session.activeKey
      /\ t.retired = session.retired
    BY <1>2 DEF ConnectionSessionState, Phases
<1> HIDE DEF t
<1>4. LoopTypeOK(t) /\ Known(t, kept)
    BY <1>2, <1>3 DEF InOrder, LoopTypeOK, Known
<1>5. CASE session.stale
    BY <1>1, <1>3, <1>4, <1>5, Schedules DEF Kept
<1>6. CASE ~ session.stale
    <2>1. session.status # "connecting"
        BY <1>1, <1>6 DEF Kept, LoopInv, Current
    <2>2. Coherent(t) /\ Current(t) /\ KeptInv(t, kept)
        BY <1>2, <1>3, <1>4, <1>6, <2>1 DEF InOrder, Coherent, Current, KeptInv, Wanted
    <2> QED
        BY <1>1, <1>3, <1>4, <1>6, <2>2 DEF Kept, LoopInv
<1> QED
    BY <1>5, <1>6

\* The service connects to a device, or to none.
LEMMA ConnectsKeep ==
    ASSUME Kept(session, kept), Connects, saved \in Catalog, None \notin Configs
    PROVE  Kept(session', kept') /\ session'.target = session.target
<1> DEFINE connection == session.wish[1]
<1>1. /\ session.phase = "connect" /\ session.wish \in Wishes /\ connection # None
    BY DEF Connects, Kept, LoopInv, LoopTypeOK
<1>2. connection \in Connectable
    BY <1>1 DEF Wishes
<1>3. Reached(connection) \subseteq Configs
    BY <1>2 DEF Reached, Connectable, Catalog
<1>4. CASE ConnectFailed
    <2>1. session' = Failed(session) /\ kept' = kept
        BY <1>4 DEF ConnectFailed
    <2> QED
        BY <1>1, <2>1, LoopInOrder, Fails
<1>5. CASE \E config \in Reached(connection) : ConnectAnswered(config)
    BY <1>3, <1>5, ConnectAnsweredKeeps
<1> QED
    BY <1>4, <1>5 DEF Connects

-----------------------------------------------------------------------------
\* The connections and the session together.

\* The subscription finds a target that can be connected to, or none.
LEMMA TargetIsConnectable ==
    ASSUME state \in ConnectionsState
    PROVE  SessionTarget \in Connectable \cup {None}
<1> DEFINE target == state.target
           key == IF target.kind = "saved" THEN target.key ELSE target.config
<1>1. target \in Targets
    BY DEF ConnectionsState
<1>2. CASE target.kind = "none" \/ target.config = Blank
    BY <1>2 DEF SessionTarget
<1>3. CASE target.kind # "none" /\ target.config # Blank
    <2>1. \/ target.name \in Names /\ key \in Configs \cup {None}
          \/ target.name = None /\ key \in Configs
        BY <1>1, <1>3 DEF Targets
    <2>2. SessionTarget = [name |-> target.name, key |-> key]
        BY <1>3 DEF SessionTarget
    <2> HIDE DEF target, key
    <2> QED
        BY <2>1, <2>2 DEF Connectable
<1> QED
    BY <1>2, <1>3

LEMMA FollowsKeeps ==
    ASSUME Kept(session, kept), ConnectionsInv', Follows, kept' = kept
    PROVE  Kept(session', kept') /\ session'.target = SessionTarget'
<1>1. SessionTarget' \in Connectable \cup {None}
    <2>1. state' \in ConnectionsState
        BY DEF ConnectionsInv, TypeOK
    <2>2. (state \in ConnectionsState => SessionTarget \in Connectable \cup {None})'
        BY TargetIsConnectable, PTL
    <2> QED
        BY <2>1, <2>2 DEF Connectable
<1> QED
    BY <1>1, Selects DEF Follows

\* The invariant does not speak of the variables that a step leaves alone.
LEMMA Untouched ==
    ASSUME ConnectionsInv, UNCHANGED <<state, saved, calls>>
    PROVE  ConnectionsInv' /\ SessionTarget' = SessionTarget
BY DEF ConnectionsInv, TypeOK, KeyIsListed, EditorIsFilled, ListedIsSaved, SessionTarget

LEMMA NoneIsNoConfig == None \notin Configs
BY ConnectionSessionAssumption DEF ConnectionsAssumption

LEMMA StartsInOrder ==
    ASSUME Start
    PROVE  SessionInv
<1>1. TypeOK
    <2> DEFINE list == [op |-> "list", then |-> "nothing"]
    <2>1. saved \in Catalog /\ state \in ConnectionsState
        BY DEF Start, Init, ConnectionsState, Catalog, Nothing, Targets, NoTarget
    <2>2. calls = Post(NoCalls, list) /\ list \in Call
        BY CallTypes DEF Start, Init
    <2>3. NextId(NoCalls) \in CallIds
        BY ConnectionSessionAssumption DEF NextId, Free, NoCalls
    <2>4. DOMAIN calls = {NextId(NoCalls)} /\ calls[NextId(NoCalls)] = list
        BY <2>2 DEF Post, NoCalls
    <2> QED
        BY <2>1, <2>2, <2>3, <2>4 DEF TypeOK
<1>2. ~ state.listed /\ ~ state.editor.open /\ state.target = NoTarget
    BY DEF Start, Init
<1>3. ConnectionsInv /\ SessionTarget = None
    BY <1>1, <1>2
    DEF ConnectionsInv, KeyIsListed, EditorIsFilled, ListedIsSaved, SessionTarget, NoTarget
<1>4. Range(<<>>) = {}
    BY DEF Range
<1>5. session \in ConnectionSessionState
    BY DEF Start, SessionInit, ConnectionSessionState, Phases
<1>6. /\ session.phase = "none" /\ session.status = "idle" /\ session.retired = <<>>
      /\ session.active = None /\ session.target = None /\ ~ session.stale /\ kept = {}
    BY DEF Start, SessionInit
<1>7. LoopInv(session) /\ KeptInv(session, kept)
    BY <1>4, <1>5, <1>6
    DEF LoopInv, LoopTypeOK, Coherent, Resting, Current, KeptInv, Known
<1>8. left \in 0..Budget
    BY ConnectionSessionAssumption DEF Start
<1> QED
    BY <1>3, <1>6, <1>7, <1>8 DEF SessionInv

LEMMA StepsKeepOrder ==
    ASSUME SessionInv, [SessionNext]_allVars
    PROVE  SessionInv'
<1>1. /\ ConnectionsInv /\ Kept(session, kept) /\ session.target = SessionTarget
      /\ left \in 0..Budget /\ Budget \in Nat
    BY ConnectionSessionAssumption DEF SessionInv, Kept
<1>2. CASE Use
    <2>1. left' \in 0..Budget
        BY <1>1, <1>2 DEF Use
    <2>2. CASE UserStep /\ Follows /\ UNCHANGED kept
        <3>1. ConnectionsInv'
            BY <1>1, <2>2, UserKeeps
        <3> QED
            BY <1>1, <2>1, <2>2, <3>1, FollowsKeeps DEF SessionInv, Kept
    <2>3. CASE (SessionControls \/ StatusChecks) /\ UNCHANGED <<state, saved, calls>>
        BY <1>1, <2>1, <2>3, ControlsKeep, ChecksKeep, Untouched DEF SessionInv, Kept
    <2> QED
        BY <1>2, <2>2, <2>3 DEF Use
<1>3. CASE Answers
    <2>1. ConnectionsInv'
        BY <1>1, <1>3, AnswerKeeps DEF Answers
    <2> QED
        BY <1>1, <1>3, <2>1, FollowsKeeps DEF Answers, SessionInv, Kept
<1>4. CASE Keeps
    <2>1. Kept(session', kept') /\ session'.target = session.target
        <3>1. saved \in Catalog
            BY <1>1 DEF ConnectionsInv, TypeOK
        <3> QED
            BY <1>1, <1>4, <3>1, ReconcileKeeps, ReleaseKeeps, FinishKeeps, ConnectsKeep,
               NoneIsNoConfig DEF Keeps
    <2> QED
        BY <1>1, <1>4, <2>1, Untouched DEF Keeps, SessionInv, Kept
<1>5. CASE UNCHANGED allVars
    <2>1. UNCHANGED <<state, saved, calls, session, kept, left>>
        BY <1>5 DEF allVars
    <2> QED
        BY <1>1, <2>1, Untouched DEF SessionInv, Kept
<1> QED
    BY <1>2, <1>3, <1>4, <1>5 DEF SessionNext

LEMMA InOrderThroughout == SessionSpec => []SessionInv
<1>1. Start => SessionInv
    BY StartsInOrder
<1>2. SessionInv /\ [SessionNext]_allVars => SessionInv'
    BY StepsKeepOrder
<1> QED
    BY <1>1, <1>2, PTL DEF SessionSpec

-----------------------------------------------------------------------------
\* What the user sees of connections and of the session has its type at every moment
\* (createConnectionsWorkspace.ts and createConnectionSessionWorkspace.ts).
THEOREM ConnectionsTypeCorrect == SessionSpec => []ConnectionsTypeOK
<1>1. SessionInv => ConnectionsTypeOK
    BY DEF SessionInv, ConnectionsInv, LoopInv, LoopTypeOK, KeptInv, Known, ConnectionsTypeOK
<1> QED
    BY <1>1, InOrderThroughout, PTL

\* However selections, settings, failures and late answers interleave with the loop, no
\* session that the service keeps is forgotten, the one in use is never waiting to be
\* released, and the status that is shown is so (createConnectionSessionWorkspace.ts).
THEOREM SessionsAccounted == SessionSpec => []SessionsAreAccounted
<1>1. SessionInv => SessionsAreAccounted
    BY DEF SessionInv, LoopInv, LoopTypeOK, Coherent, KeptInv, Known, SessionsAreAccounted,
           NoneForgotten, ActiveIsNotRetired, StatusIsTrue
<1> QED
    BY <1>1, InOrderThroughout, PTL

\* When every answer is there, the session that is shown as connected is that of the
\* target, under the settings the service keeps for it now: whichever edits, imports,
\* renames and deletions came before (the subscription of the target in
\* createConnectionSessionWorkspace.ts and loadSavedConnections).
THEOREM SessionOfTarget == SessionSpec => []SessionIsOfTarget
<1>1. ASSUME SessionInv PROVE SessionIsOfTarget
    <2>1. SUFFICES ASSUME calls = NoCalls, state.listed, session.phase = "none",
                          session.status = "connected"
                   PROVE  /\ session.activeKey[1] = SessionTarget
                          /\ state.target.kind = "saved" =>
                                SessionTarget.key = saved[SessionTarget.name]
        BY DEF SessionIsOfTarget
    <2>2. session.activeKey = <<session.target, session.keepAlive>> /\ session.target # None
        BY <1>1, <2>1 DEF SessionInv, LoopInv, Coherent, Resting, Wanted
    <2>3. session.target = SessionTarget
        BY <1>1 DEF SessionInv
    <2>4. DOMAIN calls = {}
        BY <2>1 DEF NoCalls
    <2>5. state.list = saved
        BY <1>1, <2>1, <2>4 DEF SessionInv, ConnectionsInv, ListedIsSaved
    <2>6. ASSUME state.target.kind = "saved" PROVE SessionTarget.key = saved[SessionTarget.name]
        <3>1. state.target.key = state.list[state.target.name]
            BY <1>1, <2>1, <2>6 DEF SessionInv, ConnectionsInv, KeyIsListed
        <3>2. SessionTarget = [name |-> state.target.name, key |-> state.target.key]
            BY <2>2, <2>3, <2>6 DEF SessionTarget
        <3> QED
            BY <2>5, <3>1, <3>2
    <2> QED
        BY <2>2, <2>3, <2>6
<1> QED
    BY <1>1, InOrderThroughout, PTL

=============================================================================
