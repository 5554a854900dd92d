---------------------------- MODULE InventoryProofs ----------------------------
(***************************************************************************)
(* Proofs about InventoryPage for any names of items and any finite number  *)
(* of calls in flight.                                                      *)
(***************************************************************************)
EXTENDS InventoryPage, FiniteSetTheorems, TLAPS

Assumptions == CallIdsAssumption /\ IsFiniteSet(CallIds) /\ InventoryAssumption

-----------------------------------------------------------------------------
\* Calls in flight.

CallsTyped(cs) == DOMAIN cs \subseteq CallIds /\ \A i \in DOMAIN cs : cs[i] \in Call

\* The calls ds are those of cs with one more.
With(cs, ds, id, call) ==
    /\ id \notin DOMAIN cs /\ DOMAIN ds = DOMAIN cs \cup {id} /\ ds[id] = call
    /\ \A j \in DOMAIN cs : ds[j] = cs[j]

LEMMA Posted ==
    ASSUME NEW cs, NEW call \in Call, CallsTyped(cs), CanPost(cs)
    PROVE  /\ CallsTyped(Post(cs, call)) /\ NextId(cs) \in CallIds
           /\ With(cs, Post(cs, call), NextId(cs), call)
<1>1. NextId(cs) \in CallIds \ DOMAIN cs
    BY DEF CanPost, NextId, Free
<1> QED
    BY <1>1 DEF Post, CallsTyped, With

LEMMA Settled ==
    ASSUME NEW cs, NEW i \in DOMAIN cs, CallsTyped(cs)
    PROVE  CallsTyped(Settle(cs, i)) /\ With(Settle(cs, i), cs, i, cs[i])
BY DEF Settle, CallsTyped, With

LEMMA Chained ==
    ASSUME NEW cs, NEW i \in DOMAIN cs, NEW call \in Call, CallsTyped(cs)
    PROVE  CallsTyped(Chain(cs, i, call)) /\ With(Settle(cs, i), Chain(cs, i, call), i, call)
BY DEF Chain, Settle, CallsTyped, With

\* What the page posts, and what an answer goes on with.
LEMMA CallTypes ==
    /\ \A d, r \in BOOLEAN, op \in {"list", "connections", "reload"} :
          [op |-> op, dialog |-> d, reload |-> r] \in Call
    /\ \A n \in Names, d \in BOOLEAN : [op |-> "detail", name |-> n, dialog |-> d] \in Call
    /\ \A n \in Names, o \in Names \cup {None}, d \in BOOLEAN :
          [op |-> "save", name |-> n, of |-> o, dialog |-> d] \in Call
    /\ \A n \in Names : [op |-> "delete", name |-> n, dialog |-> FALSE] \in Call
BY DEF Call

LEMMA CallFields ==
    ASSUME NEW call \in Call
    PROVE  /\ call.dialog \in BOOLEAN
           /\ call.op \in {"list", "connections", "reload"} =>
                 /\ call.reload \in BOOLEAN
                 /\ \A op \in {"list", "connections", "reload"} :
                       LET next == [call EXCEPT !.op = op] IN
                       /\ next \in Call /\ next.op = op /\ next.dialog = call.dialog
                       /\ next.reload = call.reload
           /\ call.op \in {"detail", "save", "delete"} => call.name \in Names
           /\ call.op = "delete" => ~call.dialog
BY DEF Call

-----------------------------------------------------------------------------
\* What the store s and the calls cs say of each other.

\* The form is that of the selected item, or the latest detail is for this item and on
\* its way or lost.
FormFits(s, cs) ==
    \/ s.formOf \in {None, s.selectedName}
    \/ s.destroyed
    \/ /\ Pending(cs, s.detailVersion, "detail") => cs[s.detailVersion].name = s.selectedName
       /\ s.failed = s.selectedName \/ Pending(cs, s.detailVersion, "detail")

ToneFits(s, cs) ==
    s.statusTone = "running" /\ ~s.destroyed =>
        \/ Pending(cs, s.detailVersion, "detail")
        \/ \E i \in DOMAIN cs : cs[i].op \in {"save", "delete"}

DialogFits(s, cs) == s.dialog = "submitting" => \E i \in DOMAIN cs : cs[i].dialog

\* A list that the dialog waits for is part of a reload.
ListsFit(cs) == \A i \in DOMAIN cs : cs[i].op = "list" /\ cs[i].dialog => cs[i].reload

PageOK(s, cs) ==
    /\ s \in InventoryCollectionState /\ CallsTyped(cs) /\ ListsFit(cs)
    /\ FormFits(s, cs) /\ ToneFits(s, cs) /\ DialogFits(s, cs)

\* The inductive invariant.
PageInv == PageOK(state, calls)

\* All of the store that it looks at.
Core(s) == <<s.selectedName, s.formOf, s.failed, s.destroyed, s.dialog, s.statusTone,
             s.detailVersion>>

LEMMA SameCore ==
    ASSUME NEW s, NEW t, Core(s) = Core(t), NEW cs
    PROVE  /\ FormFits(s, cs) = FormFits(t, cs)
           /\ ToneFits(s, cs) = ToneFits(t, cs)
           /\ DialogFits(s, cs) = DialogFits(t, cs)
BY DEF Core, FormFits, ToneFits, DialogFits

\* A call more.
LEMMA MoreFits ==
    ASSUME NEW s, NEW cs, NEW ds, NEW id, NEW call, With(cs, ds, id, call)
    PROVE  /\ call.op # "detail" => (FormFits(s, cs) => FormFits(s, ds))
           /\ ToneFits(s, cs) => ToneFits(s, ds)
           /\ DialogFits(s, cs) => DialogFits(s, ds)
           /\ (call.op = "list" /\ call.dialog => call.reload) =>
                 (ListsFit(cs) => ListsFit(ds))
<1>1. ASSUME call.op # "detail", FormFits(s, cs) PROVE FormFits(s, ds)
    BY <1>1 DEF With, FormFits, Pending
<1>2. ToneFits(s, cs) => ToneFits(s, ds)
    BY DEF With, ToneFits, Pending
<1>3. DialogFits(s, cs) => DialogFits(s, ds)
    BY DEF With, DialogFits
<1>4. ASSUME call.op = "list" /\ call.dialog => call.reload, ListsFit(cs) PROVE ListsFit(ds)
    BY <1>4 DEF With, ListsFit
<1> QED
    BY <1>1, <1>2, <1>3, <1>4

\* A call less.
LEMMA LessFits ==
    ASSUME NEW s, NEW cs, NEW ds, NEW id, NEW call, With(cs, ds, id, call)
    PROVE  /\ call.op # "detail" \/ id # s.detailVersion => (FormFits(s, ds) => FormFits(s, cs))
           /\ call.op \notin {"save", "delete"} /\ (call.op # "detail" \/ id # s.detailVersion) =>
                 (ToneFits(s, ds) => ToneFits(s, cs))
           /\ ~call.dialog => (DialogFits(s, ds) => DialogFits(s, cs))
           /\ ListsFit(ds) => ListsFit(cs)
<1>1. ASSUME call.op # "detail" \/ id # s.detailVersion
      PROVE  /\ Pending(ds, s.detailVersion, "detail") <=> Pending(cs, s.detailVersion, "detail")
             /\ Pending(ds, s.detailVersion, "detail") =>
                   cs[s.detailVersion] = ds[s.detailVersion]
    BY <1>1 DEF With, Pending
<1>2. ASSUME call.op # "detail" \/ id # s.detailVersion, FormFits(s, ds) PROVE FormFits(s, cs)
    BY <1>1, <1>2 DEF FormFits
<1>3. ASSUME call.op \notin {"save", "delete"}, call.op # "detail" \/ id # s.detailVersion,
             ToneFits(s, ds)
      PROVE  ToneFits(s, cs)
    <2>1. \A i \in DOMAIN ds :
              ds[i].op \in {"save", "delete"} => i \in DOMAIN cs /\ cs[i].op \in {"save", "delete"}
        BY <1>3 DEF With
    <2> QED
        BY <1>1, <1>3, <2>1 DEF ToneFits
<1>4. ASSUME ~call.dialog, DialogFits(s, ds) PROVE DialogFits(s, cs)
    BY <1>4 DEF With, DialogFits
<1>5. ListsFit(ds) => ListsFit(cs)
    BY DEF With, ListsFit
<1> QED
    BY <1>2, <1>3, <1>4, <1>5

-----------------------------------------------------------------------------
\* What the parts of the handlers do to the store.

AppliedTo(s, name, t) ==
    /\ t \in InventoryCollectionState
    /\ t.selectedName = name /\ t.formOf = name
    /\ t.destroyed = s.destroyed /\ t.dialog = s.dialog
    /\ t.statusTone = s.statusTone /\ t.detailVersion = s.detailVersion

LEMMA Applied ==
    ASSUME NEW s \in InventoryCollectionState, NEW name \in Names,
           NEW t, t = applyInventoryItem(s, name)
    PROVE  AppliedTo(s, name, t)
<1>1. t \in InventoryCollectionState
    BY DEF applyInventoryItem, InventoryCollectionState
<1> QED
    BY <1>1 DEF AppliedTo, applyInventoryItem, InventoryCollectionState

ResetTo(s, name, t) ==
    /\ t \in InventoryCollectionState
    /\ t.selectedName = name /\ t.formOf = None
    /\ t.destroyed = s.destroyed /\ t.dialog = s.dialog
    /\ t.statusTone = s.statusTone /\ t.detailVersion = s.detailVersion

LEMMA Reset ==
    ASSUME NEW s \in InventoryCollectionState, NEW name \in Names \cup {None},
           NEW t, t = resetInventorySelection(s, name)
    PROVE  ResetTo(s, name, t)
<1>1. t \in InventoryCollectionState
    BY DEF resetInventorySelection, InventoryCollectionState
<1> QED
    BY <1>1 DEF ResetTo, resetInventorySelection, InventoryCollectionState

\* A tone, and the dialog that a call closes.
LEMMA Toned ==
    ASSUME NEW s \in InventoryCollectionState, NEW tone \in Tones,
           NEW t, t = [s EXCEPT !.statusTone = tone]
    PROVE  /\ t \in InventoryCollectionState /\ t.statusTone = tone
           /\ t.selectedName = s.selectedName /\ t.formOf = s.formOf /\ t.failed = s.failed
           /\ t.destroyed = s.destroyed /\ t.dialog = s.dialog
           /\ t.detailVersion = s.detailVersion
<1>1. t \in InventoryCollectionState
    BY DEF InventoryCollectionState
<1> QED
    BY <1>1 DEF InventoryCollectionState

ClosedTo(s, call, t) ==
    /\ t \in InventoryCollectionState
    /\ t.selectedName = s.selectedName /\ t.formOf = s.formOf /\ t.failed = s.failed
    /\ t.destroyed = s.destroyed /\ t.statusTone = s.statusTone
    /\ t.detailVersion = s.detailVersion
    /\ call.dialog => t.dialog = "closed"
    /\ ~call.dialog => t.dialog = s.dialog

LEMMA Closed ==
    ASSUME NEW s \in InventoryCollectionState, NEW call, NEW t, t = Closes(s, call)
    PROVE  ClosedTo(s, call, t)
<1>1. CASE call.dialog
    <2>1. t = [s EXCEPT !.dialog = "closed"]
        BY <1>1 DEF Closes
    <2>2. t \in InventoryCollectionState
        BY <2>1 DEF InventoryCollectionState
    <2> QED
        BY <1>1, <2>1, <2>2 DEF ClosedTo, InventoryCollectionState
<1>2. CASE ~call.dialog
    BY <1>2 DEF Closes, ClosedTo
<1> QED
    BY <1>1, <1>2

\* A version of the list or of the connections is no part of the core.
LEMMA Versioned ==
    ASSUME NEW s \in InventoryCollectionState, NEW id \in CallIds \cup {NoCall},
           NEW t, t = [s EXCEPT !.listVersion = id] \/ t = [s EXCEPT !.connectionsVersion = id]
    PROVE  t \in InventoryCollectionState /\ Core(t) = Core(s)
<1>1. t \in InventoryCollectionState
    BY DEF InventoryCollectionState
<1> QED
    BY <1>1 DEF Core, InventoryCollectionState

\* A list applies or clears what is selected, or leaves an empty selection alone.
LEMMA ItemsListed ==
    ASSUME NEW s \in InventoryCollectionState, NEW found \in SUBSET Names,
           NEW t, t = Listed(s, found), NEW cs, FormFits(s, cs)
    PROVE  /\ t \in InventoryCollectionState /\ FormFits(t, cs)
           /\ t.destroyed = s.destroyed /\ t.dialog = s.dialog
           /\ t.statusTone = s.statusTone /\ t.detailVersion = s.detailVersion
<1> DEFINE u == [s EXCEPT !.items = found, !.listFailed = FALSE]
<1>1. /\ u \in InventoryCollectionState
      /\ Core(u) = Core(s)
    <2>1. u \in InventoryCollectionState
        BY DEF InventoryCollectionState
    <2> QED
        BY <2>1 DEF Core, InventoryCollectionState
<1>2. t = IF s.selectedName \in found THEN applyInventoryItem(u, s.selectedName)
          ELSE IF s.selectedName # None THEN resetInventorySelection(u, None)
          ELSE u
    BY DEF Listed
<1> HIDE DEF u
<1>3. /\ u.destroyed = s.destroyed /\ u.dialog = s.dialog
      /\ u.statusTone = s.statusTone /\ u.detailVersion = s.detailVersion
    BY <1>1 DEF Core
<1>4. CASE s.selectedName \in found
    <2>1. AppliedTo(u, s.selectedName, t)
        BY <1>1, <1>2, <1>4, Applied
    <2> QED
        BY <1>3, <2>1 DEF AppliedTo, FormFits
<1>5. CASE s.selectedName \notin found /\ s.selectedName # None
    <2>1. ResetTo(u, None, t)
        BY <1>1, <1>2, <1>5, Reset
    <2> QED
        BY <1>3, <2>1 DEF ResetTo, FormFits
<1>6. CASE s.selectedName \notin found /\ s.selectedName = None
    BY <1>1, <1>2, <1>3, <1>6, SameCore
<1> QED
    BY <1>4, <1>5, <1>6

-----------------------------------------------------------------------------
\* The operations.

\* One more call that neither the dialog nor the detail is concerned with.
LEMMA CallAdded ==
    ASSUME CallsTyped(calls'), ListsFit(calls), state' \in InventoryCollectionState,
           FormFits(state', calls), ToneFits(state', calls), DialogFits(state', calls),
           NEW id, NEW call, With(calls, calls', id, call),
           call.op # "detail", call.op = "list" /\ call.dialog => call.reload
    PROVE  PageInv'
BY MoreFits DEF PageInv, PageOK

\* Two calls, as long as there is room for them.
LEMMA RoomForTwo ==
    ASSUME Assumptions, CallsTyped(calls), Cardinality(Free(calls)) >= 2, NEW call \in Call
    PROVE  CanPost(calls) /\ CanPost(Post(calls, call))
<1> DEFINE F == Free(calls)
           id == NextId(calls)
<1>1. IsFiniteSet(F) /\ Cardinality(F) \in Nat
    BY FS_Subset, FS_CardinalityType DEF Free, Assumptions
<1>2. F # {}
    BY <1>1, FS_EmptySet
<1>3. CanPost(calls)
    BY <1>2 DEF CanPost
<1>4. id \in F
    BY <1>2 DEF NextId
<1>5. IsFiniteSet(F \ {id}) /\ Cardinality(F \ {id}) = Cardinality(F) - 1
    BY <1>1, <1>4, FS_RemoveElement
<1>6. F \ {id} # {}
    BY <1>1, <1>5, FS_EmptySet
<1>7. Free(Post(calls, call)) = F \ {id}
    BY DEF Free, Post
<1> QED
    BY <1>3, <1>6, <1>7 DEF CanPost

LEMMA CollectionsLoaded ==
    ASSUME Assumptions, PageInv, NEW s \in InventoryCollectionState, Core(s) = Core(state),
           loadCollections(s)
    PROVE  PageInv'
<1> DEFINE list == [op |-> "list", dialog |-> FALSE, reload |-> FALSE]
           connections == [op |-> "connections", dialog |-> FALSE, reload |-> FALSE]
           listing == Post(calls, list)
           id == NextId(calls)
           next == NextId(listing)
           between == [s EXCEPT !.listVersion = id]
<1>1. list \in Call /\ connections \in Call
    BY CallTypes
<1>2. CanPost(calls) /\ CanPost(listing)
    BY <1>1, RoomForTwo DEF loadCollections, PageInv, PageOK
<1>3. CallsTyped(listing) /\ With(calls, listing, id, list) /\ id \in CallIds
    BY <1>1, <1>2, Posted DEF PageInv, PageOK
<1>4. /\ CallsTyped(Post(listing, connections)) /\ next \in CallIds
      /\ With(listing, Post(listing, connections), next, connections)
    BY <1>1, <1>2, <1>3, Posted
<1>5. calls' = Post(listing, connections)
    BY DEF loadCollections
<1>6. state' = [s EXCEPT !.listVersion = id, !.connectionsVersion = next]
    BY DEF loadCollections
<1>7. state' = [between EXCEPT !.connectionsVersion = next]
    BY <1>6
<1>8. list.op = "list" /\ ~list.dialog /\ connections.op = "connections"
    OBVIOUS
<1> HIDE DEF list, connections, listing, id, next
<1>9. between \in InventoryCollectionState /\ Core(between) = Core(s)
    BY <1>3, Versioned
<1> HIDE DEF between
<1>10. state' \in InventoryCollectionState /\ Core(state') = Core(state)
    BY <1>4, <1>7, <1>9, Versioned
<1>11. FormFits(state', calls) /\ ToneFits(state', calls) /\ DialogFits(state', calls)
    BY <1>10, SameCore DEF PageInv, PageOK
<1>12. /\ FormFits(state', listing) /\ ToneFits(state', listing) /\ DialogFits(state', listing)
       /\ ListsFit(listing)
    BY <1>3, <1>8, <1>11, MoreFits DEF PageInv, PageOK
<1>13. /\ FormFits(state', calls') /\ ToneFits(state', calls') /\ DialogFits(state', calls')
       /\ ListsFit(calls')
    BY <1>4, <1>5, <1>8, <1>12, MoreFits
<1> QED
    BY <1>4, <1>5, <1>10, <1>13 DEF PageInv, PageOK

LEMMA ConnectionsLoaded ==
    ASSUME Assumptions, PageInv, loadConnections
    PROVE  PageInv'
<1> DEFINE call == [op |-> "connections", dialog |-> FALSE, reload |-> FALSE]
<1>1. /\ CallsTyped(calls') /\ NextId(calls) \in CallIds
      /\ With(calls, calls', NextId(calls), call)
    BY CallTypes, Posted DEF loadConnections, PageInv, PageOK
<1>2. call.op = "connections"
    OBVIOUS
<1> HIDE DEF call
<1>3. state' \in InventoryCollectionState /\ Core(state') = Core(state)
    BY <1>1, Versioned DEF loadConnections, PageInv, PageOK
<1>4. FormFits(state', calls) /\ ToneFits(state', calls) /\ DialogFits(state', calls)
    BY <1>3, SameCore DEF PageInv, PageOK
<1> QED
    BY <1>1, <1>2, <1>3, <1>4, CallAdded DEF PageInv, PageOK

LEMMA PageShown ==
    ASSUME Assumptions, PageInv, setPageContext
    PROVE  PageInv'
<1>1. CASE state.active
    <2>1. /\ state' = [state EXCEPT !.active = FALSE, !.didInitialLoad = FALSE]
          /\ calls' = calls
        BY <1>1 DEF setPageContext
    <2>2. state' \in InventoryCollectionState
        BY <2>1 DEF PageInv, PageOK, InventoryCollectionState
    <2>3. Core(state') = Core(state)
        BY <2>1, <2>2 DEF Core, PageInv, PageOK, InventoryCollectionState
    <2> QED
        BY <2>1, <2>2, <2>3, SameCore DEF PageInv, PageOK
<1>2. CASE ~state.active
    <2> DEFINE s == [state EXCEPT !.active = TRUE, !.didInitialLoad = TRUE]
    <2>1. s \in InventoryCollectionState
        BY DEF PageInv, PageOK, InventoryCollectionState
    <2>2. Core(s) = Core(state)
        BY <2>1 DEF Core, PageInv, PageOK, InventoryCollectionState
    <2>3. loadCollections(s)
        BY <1>2 DEF setPageContext
    <2> HIDE DEF s
    <2> QED
        BY <2>1, <2>2, <2>3, CollectionsLoaded
<1> QED
    BY <1>1, <1>2

LEMMA Refreshed ==
    ASSUME Assumptions, PageInv, RefreshVersions
    PROVE  PageInv'
BY ConnectionsLoaded, CollectionsLoaded DEF RefreshVersions, PageInv, PageOK

LEMMA Destroyed ==
    ASSUME Assumptions, PageInv, destroy
    PROVE  PageInv'
<1>1. /\ state' = [state EXCEPT !.active = FALSE, !.didInitialLoad = FALSE,
                                !.destroyed = TRUE, !.listVersion = NoCall,
                                !.detailVersion = NoCall, !.connectionsVersion = NoCall]
      /\ calls' = calls
    BY DEF destroy
<1>2. state' \in InventoryCollectionState
    BY <1>1 DEF PageInv, PageOK, InventoryCollectionState
<1>3. state'.destroyed /\ state'.dialog = state.dialog
    BY <1>1 DEF PageInv, PageOK, InventoryCollectionState
<1>4. FormFits(state', calls) /\ ToneFits(state', calls)
    BY <1>3 DEF FormFits, ToneFits
<1>5. DialogFits(state', calls)
    BY <1>3 DEF DialogFits, PageInv, PageOK
<1> QED
    BY <1>1, <1>2, <1>4, <1>5 DEF PageInv, PageOK

LEMMA DialogOpened ==
    ASSUME Assumptions, PageInv, NEW to \in {"open", "closed"}, OpenDialog(to)
    PROVE  PageInv'
<1>1. state' = [state EXCEPT !.dialog = to] /\ calls' = calls
    BY DEF OpenDialog
<1>2. state' \in InventoryCollectionState
    BY <1>1 DEF PageInv, PageOK, InventoryCollectionState
<1>3. /\ state'.dialog = to /\ state'.selectedName = state.selectedName
      /\ state'.formOf = state.formOf /\ state'.failed = state.failed
      /\ state'.destroyed = state.destroyed /\ state'.statusTone = state.statusTone
      /\ state'.detailVersion = state.detailVersion
    BY <1>1, <1>2 DEF PageInv, PageOK, InventoryCollectionState
<1>4. FormFits(state', calls) /\ ToneFits(state', calls)
    BY <1>3 DEF FormFits, ToneFits, PageInv, PageOK
<1>5. DialogFits(state', calls)
    BY <1>3 DEF DialogFits
<1> QED
    BY <1>1, <1>2, <1>4, <1>5 DEF PageInv, PageOK

LEMMA Edited ==
    ASSUME Assumptions, PageInv, Edit
    PROVE  PageInv'
<1>1. state' = [state EXCEPT !.edited = TRUE] /\ calls' = calls
    BY DEF Edit
<1>2. state' \in InventoryCollectionState
    BY <1>1 DEF PageInv, PageOK, InventoryCollectionState
<1>3. Core(state') = Core(state)
    BY <1>1, <1>2 DEF Core, PageInv, PageOK, InventoryCollectionState
<1> QED
    BY <1>1, <1>2, <1>3, SameCore DEF PageInv, PageOK

\* What is selected now is what the latest detail is asked for.
LEMMA DetailLoaded ==
    ASSUME Assumptions, PageInv, NEW s \in InventoryCollectionState, NEW name \in Names,
           NEW dialog \in BOOLEAN, dialog \/ DialogFits(s, calls), loadDetail(s, name, dialog)
    PROVE  PageInv'
<1> DEFINE call == [op |-> "detail", name |-> name, dialog |-> dialog]
           id == NextId(calls)
<1>1. CallsTyped(calls') /\ id \in CallIds /\ With(calls, calls', id, call)
    BY CallTypes, Posted DEF loadDetail, PageInv, PageOK
<1>2. call.op = "detail" /\ call.name = name /\ call.dialog = dialog
    OBVIOUS
<1>3. state' = [s EXCEPT !.selectedName = name, !.statusTone = "running", !.detailVersion = id]
    BY DEF loadDetail
<1> HIDE DEF call, id
<1>4. state' \in InventoryCollectionState
    BY <1>1, <1>3 DEF InventoryCollectionState, Tones
<1>5. /\ state'.selectedName = name /\ state'.detailVersion = id /\ state'.dialog = s.dialog
    BY <1>3, <1>4 DEF InventoryCollectionState
<1>6. id \in DOMAIN calls' /\ calls'[id] = call
    BY <1>1 DEF With
<1>7. Pending(calls', id, "detail") /\ calls'[id].name = name
    BY <1>2, <1>6 DEF Pending
<1>8. FormFits(state', calls') /\ ToneFits(state', calls')
    BY <1>5, <1>7 DEF FormFits, ToneFits
<1>9. DialogFits(state', calls')
    <2>1. CASE dialog
        BY <1>2, <1>6, <2>1 DEF DialogFits
    <2>2. CASE DialogFits(s, calls)
        BY <1>1, <1>5, <2>2 DEF DialogFits, With
    <2> QED
        BY <2>1, <2>2
<1>10. ListsFit(calls')
    BY <1>1, <1>2, MoreFits DEF PageInv, PageOK
<1> QED
    BY <1>1, <1>4, <1>8, <1>9, <1>10 DEF PageInv, PageOK

\* A save or a deletion is running, and what is selected stays as it is in s.
LEMMA MutationPosted ==
    ASSUME Assumptions, PageInv, NEW s \in InventoryCollectionState, FormFits(s, calls),
           NEW call \in Call, call.op \in {"save", "delete"}, CanPost(calls),
           call.dialog \/ DialogFits(s, calls),
           calls' = Post(calls, call), state' = [s EXCEPT !.statusTone = "running"]
    PROVE  PageInv'
<1> DEFINE id == NextId(calls)
<1>1. CallsTyped(calls') /\ With(calls, calls', id, call)
    BY Posted DEF PageInv, PageOK
<1> HIDE DEF id
<1>2. /\ state' \in InventoryCollectionState
      /\ state'.selectedName = s.selectedName /\ state'.formOf = s.formOf
      /\ state'.failed = s.failed /\ state'.destroyed = s.destroyed
      /\ state'.dialog = s.dialog /\ state'.detailVersion = s.detailVersion
    BY Toned DEF Tones
<1>3. id \in DOMAIN calls' /\ calls'[id] = call
    BY <1>1 DEF With
<1>4. FormFits(state', calls')
    <2>1. FormFits(state', calls)
        BY <1>2 DEF FormFits
    <2> QED
        BY <1>1, <2>1, MoreFits
<1>5. ToneFits(state', calls')
    BY <1>3 DEF ToneFits
<1>6. DialogFits(state', calls')
    <2>1. CASE call.dialog
        BY <1>3, <2>1 DEF DialogFits
    <2>2. CASE DialogFits(s, calls)
        BY <1>1, <1>2, <2>2 DEF DialogFits, With
    <2> QED
        BY <2>1, <2>2
<1>7. ListsFit(calls')
    BY <1>1, MoreFits DEF PageInv, PageOK
<1> QED
    BY <1>1, <1>2, <1>4, <1>5, <1>6, <1>7 DEF PageInv, PageOK

LEMMA Saved ==
    ASSUME Assumptions, PageInv, NEW s \in InventoryCollectionState, FormFits(s, calls),
           NEW name \in Names, NEW dialog \in BOOLEAN, dialog \/ DialogFits(s, calls),
           saveByName(s, name, dialog)
    PROVE  PageInv'
<1> DEFINE call == [op |-> "save", name |-> name, of |-> s.formOf, dialog |-> dialog]
<1>1. s.formOf \in Names \cup {None}
    BY DEF InventoryCollectionState
<1>2. call \in Call
    BY <1>1, CallTypes
<1>3. call.op = "save" /\ call.dialog = dialog
    OBVIOUS
<1>4. CanPost(calls) /\ calls' = Post(calls, call) /\ state' = [s EXCEPT !.statusTone = "running"]
    BY DEF saveByName
<1> HIDE DEF call
<1> QED
    BY <1>2, <1>3, <1>4, MutationPosted

LEMMA DraftCreated ==
    ASSUME Assumptions, PageInv, NEW name \in Names, createDraft(name)
    PROVE  PageInv'
<1> DEFINE s == [state EXCEPT !.dialog = "submitting"]
           r == resetInventorySelection(s, name)
<1>1. s \in InventoryCollectionState
    BY DEF PageInv, PageOK, InventoryCollectionState
<1>2. IF name \in state.items THEN loadDetail(s, name, TRUE) ELSE saveByName(r, name, TRUE)
    BY DEF createDraft
<1> HIDE DEF s
<1>3. ResetTo(s, name, r)
    BY <1>1, Reset
<1> HIDE DEF r
<1>4. r \in InventoryCollectionState /\ FormFits(r, calls)
    BY <1>3 DEF ResetTo, FormFits
<1>5. CASE name \in state.items
    BY <1>1, <1>2, <1>5, DetailLoaded
<1>6. CASE name \notin state.items
    BY <1>2, <1>4, <1>6, Saved
<1> QED
    BY <1>5, <1>6

LEMMA DeletionAsked ==
    ASSUME Assumptions, PageInv, state.selectedName # None, deleteSelection
    PROVE  PageInv'
<1> DEFINE call == [op |-> "delete", name |-> state.selectedName, dialog |-> FALSE]
<1>1. state.selectedName \in Names
    BY DEF PageInv, PageOK, InventoryCollectionState
<1>2. call \in Call /\ call.op = "delete"
    BY <1>1, CallTypes
<1>3. /\ CanPost(calls) /\ calls' = Post(calls, call)
      /\ state' = [state EXCEPT !.statusTone = "running"]
    BY DEF deleteSelection
<1> HIDE DEF call
<1> QED
    BY <1>2, <1>3, MutationPosted DEF PageInv, PageOK

-----------------------------------------------------------------------------
\* The answers.

\* What is known of the call that is answered, and of the calls without it.
LEMMA Answered ==
    ASSUME PageInv, NEW i \in DOMAIN calls
    PROVE  /\ calls[i] \in Call /\ i \in CallIds
           /\ CallsTyped(Settle(calls, i)) /\ ListsFit(Settle(calls, i))
           /\ With(Settle(calls, i), calls, i, calls[i])
<1>1. CallsTyped(calls) /\ ListsFit(calls)
    BY DEF PageInv, PageOK
<1>2. CallsTyped(Settle(calls, i)) /\ With(Settle(calls, i), calls, i, calls[i])
    BY <1>1, Settled
<1>3. ListsFit(Settle(calls, i))
    BY <1>1, <1>2, LessFits
<1> QED
    BY <1>1, <1>2, <1>3 DEF CallsTyped

\* A call of a reload ends, and the dialog with it, or goes on as the next.
LEMMA GoesOn ==
    ASSUME PageInv, NEW i \in DOMAIN calls, NEW next \in Call, calls' = Chain(calls, i, next),
           next.op \in {"list", "connections", "reload"},
           next.op = "list" /\ next.dialog => next.reload,
           NEW t \in InventoryCollectionState, state' = t,
           FormFits(t, Settle(calls, i)), ToneFits(t, Settle(calls, i)),
           next.dialog \/ DialogFits(t, Settle(calls, i))
    PROVE  PageInv'
<1> DEFINE left == Settle(calls, i)
<1>1. ListsFit(left)
    BY Answered
<1>2. CallsTyped(calls') /\ With(left, calls', i, next)
    BY Chained DEF PageInv, PageOK
<1> HIDE DEF left
<1>3. FormFits(t, calls') /\ ToneFits(t, calls') /\ ListsFit(calls')
    <2>1. FormFits(t, left) /\ ToneFits(t, left)
        BY DEF left
    <2> QED
        BY <1>1, <1>2, <2>1, MoreFits
<1>4. DialogFits(t, calls')
    <2>1. CASE next.dialog
        BY <1>2, <2>1 DEF With, DialogFits
    <2>2. CASE DialogFits(t, left)
        BY <1>2, <2>2, MoreFits
    <2> QED
        BY <2>1, <2>2 DEF left
<1> QED
    BY <1>2, <1>3, <1>4 DEF PageInv, PageOK

\* A call ends and closes the dialog that waits for it.
LEMMA Ends ==
    ASSUME PageInv, NEW i \in DOMAIN calls, calls' = Settle(calls, i),
           NEW s \in InventoryCollectionState, state' = Closes(s, calls[i]),
           FormFits(s, Settle(calls, i)), ToneFits(s, Settle(calls, i)), DialogFits(s, calls)
    PROVE  PageInv'
<1>1. CallsTyped(calls') /\ ListsFit(calls') /\ With(calls', calls, i, calls[i])
    BY Answered
<1>2. ClosedTo(s, calls[i], state')
    BY Closed
<1>3. FormFits(s, calls') /\ ToneFits(s, calls')
    OBVIOUS
<1>4. FormFits(state', calls') /\ ToneFits(state', calls')
    BY <1>2, <1>3 DEF ClosedTo, FormFits, ToneFits
<1>5. DialogFits(state', calls')
    <2>1. CASE calls[i].dialog
        BY <1>2, <2>1 DEF ClosedTo, DialogFits
    <2>2. CASE ~calls[i].dialog
        <3>1. DialogFits(s, calls')
            BY <1>1, <2>2, LessFits
        <3> QED
            BY <1>2, <2>2, <3>1 DEF ClosedTo, DialogFits
    <2> QED
        BY <2>1, <2>2
<1> QED
    BY <1>1, <1>2, <1>4, <1>5 DEF PageInv, PageOK, ClosedTo

LEMMA ListAnswered ==
    ASSUME Assumptions, PageInv, NEW i \in DOMAIN calls, AnswerList(i)
    PROVE  PageInv'
<1> DEFINE call == calls[i]
           left == Settle(calls, i)
           none == [state EXCEPT !.items = {}, !.listFailed = TRUE]
           Fits(t) == /\ t \in InventoryCollectionState /\ FormFits(t, left)
                      /\ t.destroyed = state.destroyed /\ t.dialog = state.dialog
                      /\ t.statusTone = state.statusTone
                      /\ t.detailVersion = state.detailVersion
<1>1. /\ call \in Call /\ call.op = "list"
      /\ With(left, calls, i, call) /\ CallsTyped(left) /\ ListsFit(left)
    BY Answered DEF AnswerList
<1>2. FormFits(state, left) /\ ToneFits(state, left)
    BY <1>1, LessFits DEF PageInv, PageOK
<1>3. Fits(state')
    <2>1. CASE state' = state
        BY <1>2, <2>1 DEF PageInv, PageOK
    <2>2. ASSUME NEW found \in SUBSET Names, state' = Listed(state, found)
          PROVE  Fits(state')
        <3> HIDE DEF left
        <3> QED
            BY <1>2, <2>2, ItemsListed DEF PageInv, PageOK
    <2>3. CASE state' = resetInventorySelection(none, None)
        <3>1. none \in InventoryCollectionState
            BY DEF PageInv, PageOK, InventoryCollectionState
        <3>2. Core(none) = Core(state)
            BY <3>1 DEF Core, PageInv, PageOK, InventoryCollectionState
        <3> HIDE DEF none, left
        <3>3. ResetTo(none, None, state')
            BY <2>3, <3>1, Reset
        <3> QED
            BY <3>2, <3>3 DEF ResetTo, Core, FormFits
    <2>4. \/ state' = state
          \/ \E found \in SUBSET Names : state' = Listed(state, found)
          \/ state' = resetInventorySelection(none, None)
        <3>1. PICK s \in IF i # state.listVersion \/ state.destroyed THEN {state}
                         ELSE {Listed(state, found) : found \in SUBSET Names}
                                \cup {resetInventorySelection(none, None)} :
                  state' = s
            BY DEF AnswerList
        <3> HIDE DEF none
        <3> QED
            BY <3>1
    <2> HIDE DEF none, left, Fits
    <2> QED
        BY <2>1, <2>2, <2>3, <2>4
<1>4. ToneFits(state', left)
    BY <1>2, <1>3 DEF ToneFits
<1>5. ~call.dialog => DialogFits(state', left)
    <2> SUFFICES ASSUME ~call.dialog PROVE DialogFits(state', left)
        OBVIOUS
    <2>1. DialogFits(state, left)
        BY <1>1, LessFits DEF PageInv, PageOK
    <2> QED
        BY <1>3, <2>1 DEF DialogFits
<1>6. CASE call.reload
    <2> DEFINE next == [call EXCEPT !.op = "reload"]
    <2>1. next \in Call /\ next.op = "reload" /\ next.dialog = call.dialog
        BY <1>1, CallFields
    <2>2. calls' = Chain(calls, i, next)
        BY <1>6 DEF AnswerList
    <2> HIDE DEF next, call
    <2> QED
        BY <1>3, <1>4, <1>5, <2>1, <2>2, GoesOn
<1>7. CASE ~call.reload
    <2>1. ~call.dialog
        BY <1>1, <1>7 DEF PageInv, PageOK, ListsFit
    <2>2. calls' = left
        BY <1>7 DEF AnswerList
    <2> HIDE DEF left, call
    <2> QED
        BY <1>1, <1>3, <1>4, <1>5, <2>1, <2>2 DEF PageInv, PageOK
<1> QED
    BY <1>6, <1>7

LEMMA ConnectionsAnswered ==
    ASSUME Assumptions, PageInv, NEW i \in DOMAIN calls, AnswerConnections(i)
    PROVE  PageInv'
<1>1. calls[i].op = "connections" /\ With(Settle(calls, i), calls, i, calls[i])
    BY Answered DEF AnswerConnections
<1>2. FormFits(state, Settle(calls, i)) /\ ToneFits(state, Settle(calls, i))
    BY <1>1, LessFits DEF PageInv, PageOK
<1> QED
    BY <1>2, Ends DEF AnswerConnections, PageInv, PageOK

\* Nothing of a store that was destroyed changes, and the others get a tone.
LEMMA TonedAlive ==
    ASSUME NEW tone \in Tones \ {"running"}, state \in InventoryCollectionState,
           NEW s, s = Alive([state EXCEPT !.statusTone = tone]), NEW cs, FormFits(state, cs)
    PROVE  /\ s \in InventoryCollectionState /\ FormFits(s, cs) /\ ToneFits(s, cs)
           /\ s.dialog = state.dialog
<1> DEFINE t == [state EXCEPT !.statusTone = tone]
<1>1. /\ t \in InventoryCollectionState /\ t.statusTone = tone
      /\ t.selectedName = state.selectedName /\ t.formOf = state.formOf
      /\ t.failed = state.failed /\ t.destroyed = state.destroyed
      /\ t.dialog = state.dialog /\ t.detailVersion = state.detailVersion
    BY Toned
<1>2. s = IF state.destroyed THEN state ELSE t
    BY DEF Alive
<1> HIDE DEF t
<1>3. CASE state.destroyed
    BY <1>2, <1>3 DEF FormFits, ToneFits
<1>4. CASE ~state.destroyed
    <2>1. s = t
        BY <1>2, <1>4
    <2> QED
        BY <1>1, <2>1 DEF FormFits, ToneFits
<1> QED
    BY <1>3, <1>4

LEMMA ReloadAnswered ==
    ASSUME Assumptions, PageInv, NEW i \in DOMAIN calls, AnswerReload(i)
    PROVE  PageInv'
<1> DEFINE call == calls[i]
           left == Settle(calls, i)
           next == [call EXCEPT !.op = "connections"]
           s == Alive([state EXCEPT !.statusTone = "error"])
<1>1. /\ call \in Call /\ call.op = "reload" /\ i \in CallIds
      /\ With(left, calls, i, call)
    BY Answered DEF AnswerReload
<1>2. /\ FormFits(state, left) /\ ToneFits(state, left)
      /\ ~call.dialog => DialogFits(state, left)
    BY <1>1, LessFits DEF PageInv, PageOK
<1>3. CASE /\ calls' = Chain(calls, i, next)
           /\ state' = [state EXCEPT !.connectionsVersion = i]
    <2>1. next \in Call /\ next.op = "connections" /\ next.dialog = call.dialog
        BY <1>1, CallFields
    <2>2. state' \in InventoryCollectionState /\ Core(state') = Core(state)
        BY <1>1, <1>3, Versioned DEF PageInv, PageOK
    <2> HIDE DEF next, call
    <2>3. /\ FormFits(state', left) /\ ToneFits(state', left)
          /\ ~call.dialog => DialogFits(state', left)
        BY <1>2, <2>2, SameCore
    <2> QED
        BY <1>3, <2>1, <2>2, <2>3, GoesOn
<1>4. CASE calls' = left /\ state' = Closes(s, call)
    <2>1. "error" \in Tones \ {"running"}
        BY DEF Tones
    <2>2. /\ s \in InventoryCollectionState /\ FormFits(s, left) /\ ToneFits(s, left)
          /\ s.dialog = state.dialog
        BY <1>2, <2>1, TonedAlive DEF PageInv, PageOK
    <2> HIDE DEF s
    <2>3. DialogFits(s, calls)
        BY <2>2 DEF DialogFits, PageInv, PageOK
    <2> QED
        BY <1>4, <2>2, <2>3, Ends
<1> QED
    BY <1>3, <1>4 DEF AnswerReload

LEMMA DetailAnswered ==
    ASSUME Assumptions, PageInv, NEW i \in DOMAIN calls, AnswerDetail(i)
    PROVE  PageInv'
<1> DEFINE call == calls[i]
           left == Settle(calls, i)
           loaded == [state EXCEPT !.statusTone = "success"]
           missed == [state EXCEPT !.statusTone = "error", !.failed = call.name]
           hint(s) == IF call.dialog /\ ~s.destroyed THEN [s EXCEPT !.statusTone = "info"] ELSE s
<1>1. /\ call \in Call /\ call.op = "detail" /\ call.name \in Names
      /\ With(left, calls, i, call)
    BY Answered, CallFields DEF AnswerDetail
<1>2. calls' = left
    BY DEF AnswerDetail
<1>3. \E s : /\ state' = Closes(hint(s), call)
             /\ \/ s = state /\ ~DetailCounts(i)
                \/ s = applyInventoryItem(loaded, call.name)
                \/ s = missed /\ DetailCounts(i)
    <2>1. PICK s \in IF ~DetailCounts(i) THEN {state}
                     ELSE {applyInventoryItem(loaded, call.name), missed} :
              state' = Closes(hint(s), call)
        BY DEF AnswerDetail
    <2> HIDE DEF loaded, missed, hint, call
    <2> QED
        BY <2>1
<1>4. PICK s : /\ state' = Closes(hint(s), call)
               /\ \/ s = state /\ ~DetailCounts(i)
                  \/ s = applyInventoryItem(loaded, call.name)
                  \/ s = missed /\ DetailCounts(i)
    BY <1>3
<1>5. /\ s \in InventoryCollectionState /\ s.dialog = state.dialog
      /\ FormFits(s, left) /\ ToneFits(s, left)
    <2>1. CASE s = state /\ ~DetailCounts(i)
        <3>1. CASE i # state.detailVersion
            BY <1>1, <2>1, <3>1, LessFits DEF PageInv, PageOK
        <3>2. CASE state.destroyed
            BY <2>1, <3>2 DEF PageInv, PageOK, FormFits, ToneFits
        <3> QED
            BY <2>1, <3>1, <3>2 DEF DetailCounts
    <2>2. CASE s = applyInventoryItem(loaded, call.name)
        <3>1. /\ loaded \in InventoryCollectionState /\ loaded.statusTone = "success"
              /\ loaded.dialog = state.dialog
            BY Toned DEF PageInv, PageOK, Tones
        <3> HIDE DEF loaded, left, call
        <3>2. AppliedTo(loaded, call.name, s)
            BY <1>1, <2>2, <3>1, Applied
        <3> QED
            BY <3>1, <3>2 DEF AppliedTo, FormFits, ToneFits
    <2>3. CASE s = missed /\ DetailCounts(i)
        <3>1. s \in InventoryCollectionState
            BY <1>1, <2>3 DEF PageInv, PageOK, InventoryCollectionState, Tones
        <3>2. /\ s.statusTone = "error" /\ s.failed = call.name /\ s.dialog = state.dialog
              /\ s.selectedName = state.selectedName /\ s.formOf = state.formOf
            BY <2>3 DEF PageInv, PageOK, InventoryCollectionState
        <3> HIDE DEF left, missed
        <3>3. ToneFits(s, left)
            BY <3>2 DEF ToneFits
        <3>4. FormFits(s, left)
            <4>1. state.formOf \in {None, state.selectedName} \/ call.name = state.selectedName
                BY <1>1, <2>3 DEF PageInv, PageOK, FormFits, DetailCounts, Pending
            <4>2. ~Pending(left, state.detailVersion, "detail")
                BY <1>1, <2>3 DEF With, Pending, DetailCounts
            <4>3. s.detailVersion = state.detailVersion
                BY <2>3 DEF missed, PageInv, PageOK, InventoryCollectionState
            <4> QED
                BY <3>2, <4>1, <4>2, <4>3 DEF FormFits
        <3> QED
            BY <3>1, <3>2, <3>3, <3>4
    <2> QED
        <3> HIDE DEF loaded, missed, left, call
        <3> QED
            BY <1>4, <2>1, <2>2, <2>3
<1>6. hint(s) \in InventoryCollectionState /\ hint(s).dialog = s.dialog
      /\ FormFits(hint(s), left) /\ ToneFits(hint(s), left)
    <2> HIDE DEF left, call
    <2>1. CASE hint(s) = s
        BY <1>5, <2>1
    <2>2. CASE hint(s) = [s EXCEPT !.statusTone = "info"]
        <3> DEFINE h == hint(s)
        <3>1. /\ h \in InventoryCollectionState /\ h.statusTone = "info"
              /\ h.selectedName = s.selectedName /\ h.formOf = s.formOf
              /\ h.failed = s.failed /\ h.destroyed = s.destroyed /\ h.dialog = s.dialog
              /\ h.detailVersion = s.detailVersion
            <4>1. h = [s EXCEPT !.statusTone = "info"] /\ "info" \in Tones
                BY <2>2 DEF Tones
            <4> HIDE DEF h
            <4> QED
                BY <1>5, <4>1, Toned
        <3> HIDE DEF h
        <3>2. h.dialog = s.dialog /\ FormFits(h, left) /\ ToneFits(h, left)
            BY <1>5, <3>1 DEF FormFits, ToneFits
        <3> QED
            BY <3>1, <3>2 DEF h
    <2> QED
        BY <2>1, <2>2
<1>7. DialogFits(hint(s), calls)
    BY <1>5, <1>6 DEF DialogFits, PageInv, PageOK
<1> HIDE DEF hint
<1> QED
    BY <1>2, <1>4, <1>6, <1>7, Ends

\* The store after a save or a deletion that has succeeded: nothing of a store that was
\* destroyed, else the item that was saved, or none.
LEMMA Mutated ==
    ASSUME state \in InventoryCollectionState, NEW t, NEW name,
           AppliedTo([state EXCEPT !.statusTone = "success"], name, t)
              \/ ResetTo([state EXCEPT !.statusTone = "success"], name, t),
           NEW i \in CallIds, NEW u, u = [Alive(t) EXCEPT !.listVersion = i], NEW cs
    PROVE  /\ u \in InventoryCollectionState /\ u.dialog = state.dialog
           /\ FormFits(u, cs) /\ ToneFits(u, cs)
<1> DEFINE s == [state EXCEPT !.statusTone = "success"]
           a == Alive(t)
<1>1. s.statusTone = "success" /\ s.dialog = state.dialog
    BY Toned DEF Tones
<1> HIDE DEF s
<1>2. /\ t \in InventoryCollectionState /\ t.dialog = state.dialog
      /\ t.statusTone = "success" /\ t.formOf \in {None, t.selectedName}
    BY <1>1 DEF AppliedTo, ResetTo, s
<1>3. a = IF state.destroyed THEN state ELSE t
    BY DEF Alive
<1> HIDE DEF a
<1>4. a \in InventoryCollectionState /\ a.dialog = state.dialog
    BY <1>2, <1>3
<1>5. FormFits(a, cs) /\ ToneFits(a, cs)
    <2>1. CASE state.destroyed
        BY <1>3, <2>1 DEF FormFits, ToneFits
    <2>2. CASE ~state.destroyed
        BY <1>2, <1>3, <2>2 DEF FormFits, ToneFits
    <2> QED
        BY <2>1, <2>2
<1>6. u = [a EXCEPT !.listVersion = i]
    BY DEF a
<1>7. u \in InventoryCollectionState /\ Core(u) = Core(a)
    BY <1>4, <1>6, Versioned
<1>8. FormFits(u, cs) /\ ToneFits(u, cs)
    BY <1>5, <1>7, SameCore
<1>9. u.dialog = a.dialog
    BY <1>7 DEF Core
<1> QED
    BY <1>4, <1>7, <1>8, <1>9

\* The reload that follows it.
LEMMA Reloads ==
    ASSUME PageInv, NEW i \in DOMAIN calls, NEW dialog \in BOOLEAN,
           reloadAfterMutation(i, dialog), ~dialog => ~calls[i].dialog,
           state' \in InventoryCollectionState, state'.dialog = state.dialog,
           FormFits(state', Settle(calls, i)), ToneFits(state', Settle(calls, i))
    PROVE  PageInv'
<1> DEFINE next == [op |-> "list", dialog |-> dialog, reload |-> TRUE]
           left == Settle(calls, i)
<1>1. next \in Call /\ next.op = "list" /\ next.dialog = dialog /\ next.reload
    BY CallTypes
<1>2. calls' = Chain(calls, i, next)
    BY DEF reloadAfterMutation
<1>3. dialog \/ DialogFits(state', left)
    <2>1. ASSUME ~dialog PROVE DialogFits(state, left)
        BY <2>1, Answered, LessFits DEF PageInv, PageOK
    <2> QED
        BY <2>1 DEF DialogFits
<1> HIDE DEF next
<1> QED
    BY <1>1, <1>2, <1>3, GoesOn

LEMMA SaveAnswered ==
    ASSUME Assumptions, PageInv, NEW i \in DOMAIN calls, AnswerSave(i)
    PROVE  PageInv'
<1> DEFINE call == calls[i]
           left == Settle(calls, i)
           s == [state EXCEPT !.statusTone = "success"]
           t == applyInventoryItem(s, call.name)
           failure == Alive([state EXCEPT !.statusTone = "error"])
<1>1. /\ call \in Call /\ call.op = "save" /\ i \in CallIds
      /\ call.name \in Names /\ call.dialog \in BOOLEAN
      /\ With(left, calls, i, call) /\ state \in InventoryCollectionState
    BY Answered, CallFields DEF AnswerSave, PageInv, PageOK
<1>2. CASE /\ state' = [Alive(t) EXCEPT !.listVersion = i]
           /\ reloadAfterMutation(i, call.dialog)
    <2>1. AppliedTo(s, call.name, t)
        <3>1. s \in InventoryCollectionState
            BY <1>1, Toned DEF Tones
        <3> HIDE DEF s, call
        <3> QED
            BY <1>1, <3>1, Applied
    <2> HIDE DEF t, call, left
    <2>2. /\ state' \in InventoryCollectionState /\ state'.dialog = state.dialog
          /\ FormFits(state', left) /\ ToneFits(state', left)
        BY <1>1, <1>2, <2>1, Mutated
    <2> QED
        BY <1>1, <1>2, <2>2, Reloads DEF call, left
<1>3. CASE state' = Closes(failure, call) /\ calls' = left
    <2>1. FormFits(state, left)
        BY <1>1, LessFits DEF PageInv, PageOK
    <2>2. "error" \in Tones \ {"running"}
        BY DEF Tones
    <2>3. /\ failure \in InventoryCollectionState /\ failure.dialog = state.dialog
          /\ FormFits(failure, left) /\ ToneFits(failure, left)
        BY <1>1, <2>1, <2>2, TonedAlive
    <2> HIDE DEF failure
    <2>4. DialogFits(failure, calls)
        BY <2>3 DEF DialogFits, PageInv, PageOK
    <2> QED
        BY <1>3, <2>3, <2>4, Ends
<1> QED
    BY <1>2, <1>3 DEF AnswerSave

LEMMA DeletionAnswered ==
    ASSUME Assumptions, PageInv, NEW i \in DOMAIN calls, AnswerDelete(i)
    PROVE  PageInv'
<1> DEFINE call == calls[i]
           left == Settle(calls, i)
           s == [state EXCEPT !.statusTone = "success"]
           t == resetInventorySelection(s, None)
           failure == Alive([state EXCEPT !.statusTone = "error"])
<1>1. /\ call \in Call /\ call.op = "delete" /\ i \in CallIds /\ ~call.dialog
      /\ With(left, calls, i, call) /\ state \in InventoryCollectionState
    BY Answered, CallFields DEF AnswerDelete, PageInv, PageOK
<1>2. CASE state' = [Alive(t) EXCEPT !.listVersion = i] /\ reloadAfterMutation(i, FALSE)
    <2>1. ResetTo(s, None, t)
        <3>1. s \in InventoryCollectionState
            BY <1>1, Toned DEF Tones
        <3> HIDE DEF s
        <3> QED
            BY <3>1, Reset
    <2> HIDE DEF t, left
    <2>2. /\ state' \in InventoryCollectionState /\ state'.dialog = state.dialog
          /\ FormFits(state', left) /\ ToneFits(state', left)
        BY <1>1, <1>2, <2>1, Mutated
    <2> QED
        BY <1>1, <1>2, <2>2, Reloads DEF left
<1>3. CASE state' = failure /\ calls' = left
    <2>1. FormFits(state, left)
        BY <1>1, LessFits DEF PageInv, PageOK
    <2>2. "error" \in Tones \ {"running"}
        BY DEF Tones
    <2>3. /\ failure \in InventoryCollectionState /\ failure.dialog = state.dialog
          /\ FormFits(failure, left) /\ ToneFits(failure, left)
        BY <1>1, <2>1, <2>2, TonedAlive
    <2> HIDE DEF failure
    <2>4. DialogFits(failure, calls)
        BY <2>3 DEF DialogFits, PageInv, PageOK
    <2>5. state' = Closes(failure, call)
        BY <1>1, <1>3 DEF Closes
    <2> QED
        BY <1>3, <2>3, <2>4, <2>5, Ends
<1> QED
    BY <1>2, <1>3 DEF AnswerDelete

-----------------------------------------------------------------------------
LEMMA Initially ==
    ASSUME Assumptions, Init
    PROVE  PageInv
<1>1. DOMAIN calls = {}
    BY DEF Init, NoCalls
<1>2. state \in InventoryCollectionState
    BY DEF Init, InventoryCollectionState, Tones
<1>3. state.formOf = None /\ state.statusTone = "info" /\ state.dialog = "closed"
    BY DEF Init
<1>4. FormFits(state, calls) /\ ToneFits(state, calls) /\ DialogFits(state, calls)
    BY <1>3 DEF FormFits, ToneFits, DialogFits
<1>5. CallsTyped(calls) /\ ListsFit(calls)
    BY <1>1 DEF CallsTyped, ListsFit
<1> QED
    BY <1>2, <1>4, <1>5 DEF PageInv, PageOK

LEMMA Kept ==
    ASSUME Assumptions, PageInv, [Next]_vars
    PROVE  PageInv'
<1>1. state.items \subseteq Names /\ state.selectedName \in Names \cup {None}
    BY DEF PageInv, PageOK, InventoryCollectionState
<1>2. CASE setPageContext \/ RefreshVersions \/ destroy
    BY <1>2, PageShown, Refreshed, Destroyed
<1>3. CASE CreateDialog
    BY <1>3, DialogOpened, DraftCreated DEF CreateDialog
<1>4. CASE CollectionPanel
    <2>1. CASE OpenDialog("open")
        BY <2>1, DialogOpened
    <2>2. ASSUME NEW name \in state.items, loadDetail(state, name, FALSE) PROVE PageInv'
        BY <1>1, <2>2, DetailLoaded DEF PageInv, PageOK
    <2>3. CASE state.selectedName # None /\ Edit
        BY <2>3, Edited
    <2>4. CASE state.selectedName # None /\ saveByName(state, state.selectedName, FALSE)
        BY <1>1, <2>4, Saved DEF PageInv, PageOK
    <2>5. CASE state.selectedName # None /\ deleteSelection
        BY <2>5, DeletionAsked
    <2> QED
        BY <1>4, <2>1, <2>2, <2>3, <2>4, <2>5 DEF CollectionPanel
<1>5. ASSUME NEW i \in DOMAIN calls,
             \/ AnswerList(i) \/ AnswerReload(i) \/ AnswerConnections(i)
             \/ AnswerDetail(i) \/ AnswerSave(i) \/ AnswerDelete(i)
      PROVE  PageInv'
    BY <1>5, ListAnswered, ReloadAnswered, ConnectionsAnswered, DetailAnswered, SaveAnswered,
       DeletionAnswered
<1>6. CASE UNCHANGED vars
    <2>1. state' = state /\ calls' = calls
        BY <1>6 DEF vars
    <2> QED
        BY <2>1 DEF PageInv
<1> QED
    BY <1>2, <1>3, <1>4, <1>5, <1>6 DEF Next

LEMMA FitsThroughout ==
    ASSUME Assumptions
    PROVE  Spec => []PageInv
<1>1. Init => PageInv
    BY Initially
<1>2. PageInv /\ [Next]_vars => PageInv'
    BY Kept
<1> QED
    BY <1>1, <1>2, PTL DEF Spec

-----------------------------------------------------------------------------
\* The store of a collection and the calls have their types (createInventoryWorkspace.ts).
THEOREM TypeCorrect ==
    ASSUME Assumptions
    PROVE  Spec => []TypeOK
<1>1. PageInv => TypeOK
    BY DEF PageInv, PageOK, CallsTyped, TypeOK
<1> QED
    BY <1>1, FitsThroughout, PTL

\* Once nothing is in flight the form holds the members of the selected item, unless the
\* load of its detail has failed: selections, saves, deletions, lists and reloads may
\* have ended in any order (loadDetail, saveByName and applyInventoryItem).
THEOREM FormOfSelection ==
    ASSUME Assumptions
    PROVE  Spec => []FormIsOfSelection
<1>1. ASSUME PageInv, calls = NoCalls
      PROVE  \/ state.formOf \in {None, state.selectedName}
             \/ state.failed = state.selectedName
             \/ state.destroyed
    <2>1. \A v, op : ~Pending(calls, v, op)
        BY <1>1 DEF NoCalls, Pending
    <2> QED
        BY <1>1, <2>1 DEF PageInv, PageOK, FormFits
<1>2. PageInv => FormIsOfSelection
    BY <1>1 DEF FormIsOfSelection
<1> QED
    BY <1>2, FitsThroughout, PTL

\* A dialog that submits waits for a call that will close it, and a page that is shown
\* as busy for a detail, a save or a deletion (createDraft and reloadAfterMutation).
THEOREM BusyIsWaiting ==
    ASSUME Assumptions
    PROVE  Spec => []BusyIsPending
<1>1. PageInv => BusyIsPending
    BY DEF PageInv, PageOK, ToneFits, DialogFits, BusyIsPending
<1> QED
    BY <1>1, FitsThroughout, PTL
=============================================================================
