-------------------------- MODULE ConfigHistoryProofs --------------------------
(***************************************************************************)
(* Proofs about ConfigHistoryPage for any devices, snapshots, filters and   *)
(* number of calls in flight.                                               *)
(***************************************************************************)
EXTENDS ConfigHistoryPage, TLAPS

-----------------------------------------------------------------------------
\* Calls in flight.

CallsTyped(cs) == DOMAIN cs \subseteq CallIds /\ \A i \in DOMAIN cs : cs[i] \in Call

\* A call is posted under an identifier of its own.
LEMMA Posted ==
    ASSUME NEW cs, NEW call \in Call, CallsTyped(cs), CanPost(cs)
    PROVE  /\ CallsTyped(Post(cs, call))
           /\ NextId(cs) \in CallIds \ DOMAIN cs
           /\ DOMAIN Post(cs, call) = DOMAIN cs \cup {NextId(cs)}
           /\ Post(cs, call)[NextId(cs)] = call
           /\ \A j \in DOMAIN cs : Post(cs, call)[j] = cs[j]
<1>1. NextId(cs) \in CallIds \ DOMAIN cs
    BY DEF CanPost, NextId, Free
<1> QED
    BY <1>1 DEF Post, CallsTyped

LEMMA Settled ==
    ASSUME NEW cs, NEW i \in DOMAIN cs, CallsTyped(cs)
    PROVE  /\ CallsTyped(Settle(cs, i))
           /\ DOMAIN Settle(cs, i) = DOMAIN cs \ {i}
           /\ \A j \in DOMAIN cs \ {i} : Settle(cs, i)[j] = cs[j]
BY DEF Settle, CallsTyped

LEMMA Chained ==
    ASSUME NEW cs, NEW i \in DOMAIN cs, NEW call \in Call, CallsTyped(cs)
    PROVE  /\ CallsTyped(Chain(cs, i, call))
           /\ DOMAIN Chain(cs, i, call) = DOMAIN cs
           /\ Chain(cs, i, call)[i] = call
           /\ \A j \in DOMAIN cs \ {i} : Chain(cs, i, call)[j] = cs[j]
BY DEF Chain, CallsTyped

\* What the page posts.
LEMMA CallTypes ==
    /\ [op |-> "devices"] \in Call
    /\ \A id \in Snapshots : [op |-> "detail", id |-> id] \in Call /\ [op |-> "remove", id |-> id] \in Call
    /\ \A s \in ConfigHistoryState : s.connectionName # None => HistoryCall(s) \in Call
BY DEF Call, ConfigHistoryState, HistoryCall

-----------------------------------------------------------------------------
\* What the store s and the calls cs say of each other, level by level.

\* A page that was never shown has asked for nothing.
Quiet(s, cs) == s.activated \/ DOMAIN cs = {}

DevicesFit(s, cs) == s.deviceStatus = "info" => Pending(cs, s.deviceVersion, "devices")

\* The history call that holds the version is for what is chosen now.
HistoryFits(s, cs) ==
    /\ s.listStatus = "info" => Pending(cs, s.listVersion, "history")
    /\ Pending(cs, s.listVersion, "history") => cs[s.listVersion] = HistoryCall(s)

ListFits(s, cs) ==
    s.connectionName \in s.devices /\ s.listStatus = None =>
        \/ s.listOf = <<s.connectionName, s.query>>
        \/ \E i \in DOMAIN cs : cs[i].op = "devices"

\* So is the detail call that holds the version while the dialog is open.
DetailFits(s, cs) ==
    /\ s.detailStatus = "info" => Pending(cs, s.detailVersion, "detail")
    /\ s.detailOpen =>
        /\ s.detail \in {None, s.selectedId}
        /\ Pending(cs, s.detailVersion, "detail") => cs[s.detailVersion].id = s.selectedId

PageOK(s, cs) ==
    /\ s \in ConfigHistoryState /\ CallsTyped(cs)
    /\ Quiet(s, cs)
    /\ DevicesFit(s, cs) /\ HistoryFits(s, cs) /\ ListFits(s, cs) /\ DetailFits(s, cs)

\* The inductive invariant.
PageInv == PageOK(state, calls)

Assumptions == CallIdsAssumption /\ ConfigHistoryAssumption

-----------------------------------------------------------------------------
\* What the parts of the handlers do to the store.

LEMMA Cleared ==
    ASSUME NEW s \in ConfigHistoryState, NEW d \in Devices \cup {None}, ConfigHistoryAssumption,
           NEW t, t = clearConfigHistoryState(s, d)
    PROVE  /\ t \in ConfigHistoryState
           /\ t.connectionName = d /\ t.query = DefaultQuery /\ t.listOf = None
           /\ t.selectedId = None /\ t.detail = None /\ ~t.detailOpen
           /\ t.listStatus = None /\ t.detailStatus = None
           /\ t.devices = s.devices /\ t.activated = s.activated
           /\ t.deviceStatus = s.deviceStatus /\ t.deviceVersion = s.deviceVersion
           /\ t.listVersion = s.listVersion /\ t.detailVersion = s.detailVersion
BY DEF clearConfigHistoryState, ConfigHistoryState, ConfigHistoryAssumption, Statuses

\* refreshHistory asks for what is chosen, or says why it does not.
RefreshedTo(s, id, t) ==
    /\ t \in ConfigHistoryState
    /\ t.connectionName = s.connectionName
    /\ t.devices = s.devices /\ t.activated = s.activated
    /\ t.deviceStatus = s.deviceStatus /\ t.deviceVersion = s.deviceVersion
    /\ NeedsCall(s) => /\ t.listVersion = id /\ t.query = s.query
                       /\ t.listStatus = "info"
    /\ ~NeedsCall(s) => t.listVersion = NoCall /\ t.listStatus # "info"
    /\ s.connectionName # None => t.listStatus # None
    /\ \/ ~t.detailOpen /\ t.detailStatus = None
       \/ /\ t.detailOpen = s.detailOpen /\ t.detail = s.detail
          /\ t.selectedId = s.selectedId /\ t.detailStatus = s.detailStatus
          /\ t.detailVersion = s.detailVersion

LEMMA Refreshed ==
    ASSUME NEW s \in ConfigHistoryState, NEW id \in CallIds, ConfigHistoryAssumption,
           NEW t, t = refreshHistory(s, id)
    PROVE  RefreshedTo(s, id, t)
<1>1. CASE s.connectionName = None
    <2> DEFINE c == clearConfigHistoryState(s, None)
    <2>1. /\ c \in ConfigHistoryState /\ c.connectionName = None
          /\ c.devices = s.devices /\ c.activated = s.activated
          /\ c.deviceStatus = s.deviceStatus /\ c.deviceVersion = s.deviceVersion
          /\ c.listStatus = None /\ c.detailStatus = None /\ ~c.detailOpen
        BY Cleared
    <2>2. t = [c EXCEPT !.listVersion = NoCall, !.detailVersion = NoCall]
        BY <1>1 DEF refreshHistory
    <2> HIDE DEF c
    <2>3. t \in ConfigHistoryState /\ t.listStatus # "info"
        BY <2>1, <2>2 DEF ConfigHistoryState, ConfigHistoryAssumption, Statuses
    <2> QED
        BY <1>1, <2>1, <2>2, <2>3 DEF ConfigHistoryState, NeedsCall, RefreshedTo
<1>2. CASE s.connectionName # None /\ s.query = InvalidQuery
    BY <1>2 DEF RefreshedTo, refreshHistory, NeedsCall, ConfigHistoryState, ConfigHistoryAssumption, Statuses
<1>3. CASE NeedsCall(s)
    BY <1>3 DEF RefreshedTo, refreshHistory, NeedsCall, ConfigHistoryState, ConfigHistoryAssumption, Statuses
<1> QED
    BY <1>1, <1>2, <1>3 DEF NeedsCall

-----------------------------------------------------------------------------
\* What a call that is posted or settled leaves as it was.

\* The calls ds are those of cs with the call id, which is not of the page's level op.
With(cs, ds, id, call) ==
    /\ id \notin DOMAIN cs /\ DOMAIN ds = DOMAIN cs \cup {id} /\ ds[id] = call
    /\ \A j \in DOMAIN cs : ds[j] = cs[j]

LEMMA PostedWith ==
    ASSUME NEW cs, NEW call \in Call, CallsTyped(cs), CanPost(cs)
    PROVE  With(cs, Post(cs, call), NextId(cs), call)
BY Posted DEF With

LEMMA SettledWith ==
    ASSUME NEW cs, NEW i \in DOMAIN cs, CallsTyped(cs)
    PROVE  With(Settle(cs, i), cs, i, cs[i])
BY Settled DEF With

\* A page that fits its calls fits them with a call more, on the levels the call is not of.
LEMMA MoreFits ==
    ASSUME NEW s, NEW cs, NEW ds, NEW id, NEW call, With(cs, ds, id, call)
    PROVE  /\ DevicesFit(s, cs) => DevicesFit(s, ds)
           /\ call.op # "history" /\ HistoryFits(s, cs) => HistoryFits(s, ds)
           /\ ListFits(s, cs) => ListFits(s, ds)
           /\ call.op # "detail" /\ DetailFits(s, cs) => DetailFits(s, ds)
BY DEF With, DevicesFit, HistoryFits, ListFits, DetailFits, Pending

\* It fits them with a call less, on the levels the call was not of.
LEMMA LessFits ==
    ASSUME NEW s, NEW cs, NEW ds, NEW id, NEW call, With(cs, ds, id, call)
    PROVE  /\ call.op # "devices" \/ id # s.deviceVersion => (DevicesFit(s, ds) => DevicesFit(s, cs))
           /\ call.op # "history" \/ id # s.listVersion => (HistoryFits(s, ds) => HistoryFits(s, cs))
           /\ call.op # "devices" => (ListFits(s, ds) => ListFits(s, cs))
           /\ call.op # "detail" \/ id # s.detailVersion => (DetailFits(s, ds) => DetailFits(s, cs))
<1>1. \A v, op : Pending(cs, v, op) => Pending(ds, v, op) /\ ds[v] = cs[v] /\ v # id
    BY DEF With, Pending
<1>2. \A v, op : Pending(ds, v, op) /\ (call.op # op \/ id # v) => Pending(cs, v, op)
    BY DEF With, Pending
<1>3. call.op # "devices" =>
          \A i \in DOMAIN ds : ds[i].op = "devices" => i \in DOMAIN cs /\ cs[i].op = "devices"
    BY DEF With
<1> QED
    BY <1>1, <1>2, <1>3 DEF DevicesFit, HistoryFits, ListFits, DetailFits

\* A version that no call holds.
LEMMA NoneHeld ==
    ASSUME NEW cs, CallsTyped(cs), CallIdsAssumption
    PROVE  \A op : ~Pending(cs, NoCall, op)
BY DEF CallsTyped, CallIdsAssumption, NoCall, Pending

\* Where refreshHistory takes the page, from calls it fits on the other levels.
LEMMA HistoryAsked ==
    ASSUME Assumptions, NEW s \in ConfigHistoryState, s.activated,
           NEW cs, CallsTyped(cs), DevicesFit(s, cs), DetailFits(s, cs),
           NEW id \in CallIds \ DOMAIN cs, NEW t, t = refreshHistory(s, id),
           NEW ds, CallsTyped(ds),
           NeedsCall(s) => With(cs, ds, id, HistoryCall(s)),
           ~NeedsCall(s) => ds = cs
    PROVE  PageOK(t, ds)
<1>1. RefreshedTo(s, id, t)
    BY Refreshed DEF Assumptions
<1>2. Quiet(t, ds)
    BY <1>1 DEF Quiet, RefreshedTo
<1>3. DevicesFit(s, ds) /\ DetailFits(s, ds)
    <2>1. HistoryCall(s).op = "history"
        BY DEF HistoryCall
    <2> QED
        BY <2>1, MoreFits
<1>4. DevicesFit(t, ds)
    BY <1>1, <1>3 DEF DevicesFit, RefreshedTo
<1>5. DetailFits(t, ds)
    BY <1>1, <1>3 DEF DetailFits, RefreshedTo, ConfigHistoryState, Assumptions, ConfigHistoryAssumption
<1>6. HistoryFits(t, ds)
    <2>1. CASE NeedsCall(s)
        <3>1. HistoryCall(t) = HistoryCall(s) /\ HistoryCall(s).op = "history"
            BY <1>1, <2>1 DEF HistoryCall, RefreshedTo
        <3> QED
            BY <1>1, <2>1, <3>1 DEF HistoryFits, RefreshedTo, With, Pending
    <2>2. CASE ~NeedsCall(s)
        BY <1>1, <2>2, NoneHeld DEF HistoryFits, RefreshedTo, Assumptions
    <2> QED
        BY <2>1, <2>2
<1>7. ListFits(t, ds)
    BY <1>1 DEF ListFits, RefreshedTo, ConfigHistoryState, Assumptions, ConfigHistoryAssumption
<1> QED
    BY <1>1, <1>2, <1>4, <1>5, <1>6, <1>7 DEF PageOK, RefreshedTo

\* The handlers that end with it.
LEMMA HistoryFollows ==
    ASSUME Assumptions, CallsTyped(calls), NEW s \in ConfigHistoryState, s.activated,
           DevicesFit(s, calls), DetailFits(s, calls), ThenHistory(s)
    PROVE  PageInv'
<1>1. CanPost(calls) /\ state' = refreshHistory(s, NextId(calls))
    BY DEF ThenHistory
<1>2. NextId(calls) \in CallIds \ DOMAIN calls
    BY <1>1 DEF CanPost, NextId, Free
<1>3. CASE NeedsCall(s)
    <2>1. calls' = Post(calls, HistoryCall(s)) /\ HistoryCall(s) \in Call
        BY <1>3, CallTypes DEF ThenHistory, NeedsCall
    <2>2. CallsTyped(calls') /\ With(calls, calls', NextId(calls), HistoryCall(s))
        BY <1>1, <2>1, Posted, PostedWith
    <2> QED
        BY <1>1, <1>2, <1>3, <2>2, HistoryAsked DEF PageInv
<1>4. CASE ~NeedsCall(s)
    <2>1. calls' = calls
        BY <1>4 DEF ThenHistory
    <2> QED
        BY <1>1, <1>2, <1>4, <2>1, HistoryAsked DEF PageInv
<1> QED
    BY <1>3, <1>4

\* The answers that go on with it.
LEMMA HistoryGoesOn ==
    ASSUME Assumptions, CallsTyped(calls), NEW s \in ConfigHistoryState, s.activated,
           NEW i \in DOMAIN calls, calls[i].op \in {"devices", "remove"},
           DevicesFit(s, Settle(calls, i)), DetailFits(s, calls), GoOnWithHistory(s, i)
    PROVE  PageInv'
<1> DEFINE left == Settle(calls, i)
<1>1. CallsTyped(left) /\ With(left, calls, i, calls[i])
    BY Settled, SettledWith
<1>2. i \in CallIds \ DOMAIN left
    BY <1>1 DEF With, CallsTyped
<1>3. DevicesFit(s, left) /\ DetailFits(s, left)
    BY <1>1, LessFits
<1>4. state' = refreshHistory(s, i)
    BY DEF GoOnWithHistory
<1>5. CASE NeedsCall(s)
    <2>1. calls' = Chain(calls, i, HistoryCall(s)) /\ HistoryCall(s) \in Call
        BY <1>5, CallTypes DEF GoOnWithHistory, NeedsCall
    <2>2. CallsTyped(calls') /\ With(left, calls', i, HistoryCall(s))
        <3>1. /\ CallsTyped(calls') /\ DOMAIN calls' = DOMAIN calls /\ calls'[i] = HistoryCall(s)
              /\ \A j \in DOMAIN calls \ {i} : calls'[j] = calls[j]
            BY <2>1, Chained
        <3>2. /\ DOMAIN left = DOMAIN calls \ {i}
              /\ \A j \in DOMAIN calls \ {i} : left[j] = calls[j]
            BY Settled
        <3> HIDE DEF left
        <3> QED
            BY <3>1, <3>2 DEF With
    <2> HIDE DEF left
    <2> QED
        BY <1>1, <1>2, <1>3, <1>4, <1>5, <2>2, HistoryAsked DEF PageInv
<1>6. CASE ~NeedsCall(s)
    <2>1. calls' = left
        BY <1>6 DEF GoOnWithHistory
    <2> HIDE DEF left
    <2> QED
        BY <1>1, <1>2, <1>3, <1>4, <1>6, <2>1, HistoryAsked DEF PageInv
<1> QED
    BY <1>5, <1>6

-----------------------------------------------------------------------------
\* The operations of the user and of the console.

LEMMA DevicesAsked ==
    ASSUME Assumptions, CallsTyped(calls), NEW s \in ConfigHistoryState, s.activated,
           HistoryFits(s, calls), DetailFits(s, calls), refreshDevices(s)
    PROVE  PageInv'
<1> DEFINE id == NextId(calls)
<1>1. /\ state' = [s EXCEPT !.deviceVersion = id, !.deviceStatus = "info"]
      /\ CallsTyped(calls') /\ With(calls, calls', id, [op |-> "devices"])
      /\ id \in CallIds
    BY Posted, PostedWith, CallTypes DEF refreshDevices
<1> HIDE DEF id
<1>2. /\ state' \in ConfigHistoryState /\ state'.activated
      /\ state'.deviceVersion = id /\ state'.deviceStatus = "info"
      /\ state'.connectionName = s.connectionName /\ state'.query = s.query
      /\ state'.listStatus = s.listStatus /\ state'.listVersion = s.listVersion
      /\ state'.detailOpen = s.detailOpen /\ state'.detail = s.detail
      /\ state'.selectedId = s.selectedId /\ state'.detailStatus = s.detailStatus
      /\ state'.detailVersion = s.detailVersion
    BY <1>1 DEF ConfigHistoryState, Statuses
<1>3. HistoryFits(s, calls') /\ DetailFits(s, calls')
    <2>1. [op |-> "devices"].op = "devices"
        OBVIOUS
    <2> QED
        BY <1>1, <2>1, MoreFits
<1>4. id \in DOMAIN calls' /\ calls'[id].op = "devices"
    BY <1>1 DEF With
<1>5. Quiet(state', calls')
    BY <1>2 DEF Quiet
<1>6. DevicesFit(state', calls')
    BY <1>2, <1>4 DEF DevicesFit, Pending
<1>7. HistoryFits(state', calls')
    BY <1>2, <1>3 DEF HistoryFits, HistoryCall
<1>8. ListFits(state', calls')
    BY <1>4 DEF ListFits
<1>9. DetailFits(state', calls')
    BY <1>2, <1>3 DEF DetailFits, ConfigHistoryState
<1> QED
    BY <1>1, <1>2, <1>5, <1>6, <1>7, <1>8, <1>9 DEF PageInv, PageOK

LEMMA Activated ==
    ASSUME Assumptions, PageInv, setPageContext
    PROVE  PageInv'
<1> DEFINE s == [state EXCEPT !.activated = TRUE, !.connectionName = state.target]
<1>1. DOMAIN calls = {} /\ CallsTyped(calls)
    BY DEF PageInv, PageOK, Quiet, setPageContext
<1>2. /\ s \in ConfigHistoryState /\ s.activated
      /\ s.listStatus = state.listStatus /\ s.detailOpen = state.detailOpen
      /\ s.detail = state.detail /\ s.selectedId = state.selectedId
      /\ s.detailStatus = state.detailStatus
    BY DEF PageInv, PageOK, ConfigHistoryState
<1>3. refreshDevices(s)
    BY DEF setPageContext
<1> HIDE DEF s
<1>4. \A v, op : ~Pending(calls, v, op)
    BY <1>1 DEF Pending
<1>5. HistoryFits(s, calls)
    BY <1>2, <1>4 DEF HistoryFits, PageInv, PageOK
<1>6. DetailFits(s, calls)
    BY <1>2, <1>4 DEF DetailFits, PageInv, PageOK, ConfigHistoryState
<1> QED
    BY <1>1, <1>2, <1>3, <1>5, <1>6, DevicesAsked

LEMMA DevicesRefreshed ==
    ASSUME Assumptions, PageInv, state.activated, refresh
    PROVE  PageInv'
BY DevicesAsked DEF refresh, PageInv, PageOK

\* Where the active connection changes, and the page follows it or not.
LEMMA TargetChanged ==
    ASSUME Assumptions, PageInv, NEW device \in Devices \cup {None}, TargetChanges(device)
    PROVE  PageInv'
<1> DEFINE s == [state EXCEPT !.target = device]
           released == [s EXCEPT !.listVersion = NoCall, !.detailVersion = NoCall]
           cleared == clearConfigHistoryState(released, device)
<1>1. /\ s \in ConfigHistoryState
      /\ s.activated = state.activated /\ s.devices = state.devices
      /\ s.connectionName = state.connectionName /\ s.query = state.query
      /\ s.listOf = state.listOf /\ s.deviceStatus = state.deviceStatus
      /\ s.listStatus = state.listStatus /\ s.detailStatus = state.detailStatus
      /\ s.selectedId = state.selectedId /\ s.detail = state.detail
      /\ s.detailOpen = state.detailOpen /\ s.deviceVersion = state.deviceVersion
      /\ s.listVersion = state.listVersion /\ s.detailVersion = state.detailVersion
    BY DEF PageInv, PageOK, ConfigHistoryState
<1>2. CallsTyped(calls) /\ DevicesFit(state, calls)
    BY DEF PageInv, PageOK
<1>3. /\ released \in ConfigHistoryState
      /\ released.activated = state.activated /\ released.devices = state.devices
      /\ released.deviceStatus = state.deviceStatus
      /\ released.deviceVersion = state.deviceVersion
      /\ released.listVersion = NoCall /\ released.detailVersion = NoCall
    BY <1>1 DEF ConfigHistoryState
<1>4. \/ state' = s /\ calls' = calls
      \/ s.activated /\ device # None /\ device \in s.devices /\ ThenHistory(cleared)
      \/ s.activated /\ device \notin s.devices /\ state' = cleared /\ calls' = calls
    BY DEF TargetChanges
<1> HIDE DEF s, released
<1>5. /\ cleared \in ConfigHistoryState
      /\ cleared.connectionName = device
      /\ cleared.listStatus = None /\ cleared.detailStatus = None /\ ~cleared.detailOpen
      /\ cleared.devices = state.devices /\ cleared.activated = state.activated
      /\ cleared.deviceStatus = state.deviceStatus
      /\ cleared.deviceVersion = state.deviceVersion
      /\ cleared.listVersion = NoCall /\ cleared.detailVersion = NoCall
    BY <1>3, Cleared DEF Assumptions
<1> HIDE DEF cleared
<1>6. DevicesFit(cleared, calls)
    BY <1>2, <1>5 DEF DevicesFit
<1>7. DetailFits(cleared, calls)
    BY <1>5 DEF DetailFits, Assumptions, ConfigHistoryAssumption
<1>8. CASE state' = s /\ calls' = calls
    <2>1. Quiet(s, calls) /\ DevicesFit(s, calls)
        BY <1>1 DEF PageInv, PageOK, Quiet, DevicesFit
    <2>2. HistoryFits(s, calls) /\ ListFits(s, calls)
        BY <1>1 DEF PageInv, PageOK, HistoryFits, ListFits, HistoryCall
    <2>3. DetailFits(s, calls)
        BY <1>1 DEF PageInv, PageOK, DetailFits
    <2> QED
        BY <1>1, <1>2, <1>8, <2>1, <2>2, <2>3 DEF PageInv, PageOK
<1>9. CASE s.activated /\ ThenHistory(cleared)
    BY <1>1, <1>2, <1>5, <1>6, <1>7, <1>9, HistoryFollows
<1>10. CASE s.activated /\ device \notin s.devices /\ state' = cleared /\ calls' = calls
    <2>1. HistoryFits(cleared, calls)
        BY <1>2, <1>5, NoneHeld DEF HistoryFits, Assumptions, ConfigHistoryAssumption
    <2>2. Quiet(cleared, calls) /\ ListFits(cleared, calls)
        BY <1>1, <1>5, <1>10 DEF Quiet, ListFits
    <2> QED
        BY <1>2, <1>5, <1>6, <1>7, <1>10, <2>1, <2>2 DEF PageInv, PageOK
<1> QED
    BY <1>4, <1>8, <1>9, <1>10

LEMMA DeviceSelected ==
    ASSUME Assumptions, PageInv, state.activated, NEW device \in Devices, selectDevice(device)
    PROVE  PageInv'
<1> DEFINE s == [state EXCEPT !.touched = TRUE, !.detailVersion = NoCall]
           cleared == clearConfigHistoryState(s, device)
<1>1. /\ s \in ConfigHistoryState /\ s.activated
      /\ s.deviceStatus = state.deviceStatus /\ s.deviceVersion = state.deviceVersion
    BY DEF PageInv, PageOK, ConfigHistoryState
<1>2. ThenHistory(cleared)
    BY DEF selectDevice
<1> HIDE DEF s
<1>3. /\ cleared \in ConfigHistoryState /\ cleared.activated
      /\ cleared.deviceStatus = state.deviceStatus
      /\ cleared.deviceVersion = state.deviceVersion
      /\ cleared.detailStatus = None /\ ~cleared.detailOpen
    BY <1>1, Cleared DEF Assumptions
<1> HIDE DEF cleared
<1>4. DevicesFit(cleared, calls)
    BY <1>3 DEF DevicesFit, PageInv, PageOK
<1>5. DetailFits(cleared, calls)
    BY <1>3 DEF DetailFits, Assumptions, ConfigHistoryAssumption
<1> QED
    BY <1>2, <1>3, <1>4, <1>5, HistoryFollows DEF PageInv, PageOK

LEMMA QueryUpdated ==
    ASSUME Assumptions, PageInv, state.activated, NEW query \in Queries, updateHistoryQuery(query)
    PROVE  PageInv'
<1> DEFINE s == [Unselected(state) EXCEPT !.query = query, !.selectedId = None,
                                          !.detailVersion = NoCall]
<1>1. /\ s \in ConfigHistoryState /\ s.activated
      /\ s.deviceStatus = state.deviceStatus /\ s.deviceVersion = state.deviceVersion
      /\ s.detailStatus = None /\ ~s.detailOpen
    BY DEF PageInv, PageOK, ConfigHistoryState, Unselected, Statuses
<1>2. ThenHistory(s)
    BY DEF updateHistoryQuery
<1> HIDE DEF s
<1>3. DevicesFit(s, calls)
    BY <1>1 DEF DevicesFit, PageInv, PageOK
<1>4. DetailFits(s, calls)
    BY <1>1 DEF DetailFits, Assumptions, ConfigHistoryAssumption
<1> QED
    BY <1>1, <1>2, <1>3, <1>4, HistoryFollows DEF PageInv, PageOK

LEMMA SnapshotSelected ==
    ASSUME Assumptions, PageInv, state.activated, NEW id \in Snapshots, selectSnapshot(id)
    PROVE  PageInv'
<1> DEFINE n == NextId(calls)
           call == [op |-> "detail", id |-> id]
<1>1. /\ state' = [state EXCEPT !.detail = None, !.detailOpen = TRUE, !.selectedId = id,
                                !.detailStatus = "info", !.detailVersion = n]
      /\ n \in CallIds /\ CallsTyped(calls') /\ With(calls, calls', n, call)
    BY Posted, PostedWith, CallTypes DEF selectSnapshot, PageInv, PageOK
<1> HIDE DEF n
<1>2. /\ state' \in ConfigHistoryState /\ state'.activated
      /\ state'.deviceStatus = state.deviceStatus /\ state'.deviceVersion = state.deviceVersion
      /\ state'.devices = state.devices /\ state'.connectionName = state.connectionName
      /\ state'.query = state.query /\ state'.listOf = state.listOf
      /\ state'.listStatus = state.listStatus /\ state'.listVersion = state.listVersion
      /\ state'.detail = None /\ state'.selectedId = id /\ state'.detailVersion = n
    BY <1>1 DEF PageInv, PageOK, ConfigHistoryState, Statuses
<1>3. DevicesFit(state, calls') /\ HistoryFits(state, calls') /\ ListFits(state, calls')
    <2>1. call.op # "history"
        OBVIOUS
    <2> QED
        BY <1>1, <2>1, MoreFits DEF PageInv, PageOK
<1>4. DevicesFit(state', calls') /\ HistoryFits(state', calls') /\ ListFits(state', calls')
    BY <1>2, <1>3 DEF DevicesFit, HistoryFits, ListFits, HistoryCall
<1>5. n \in DOMAIN calls' /\ calls'[n].op = "detail" /\ calls'[n].id = id
    BY <1>1 DEF With
<1>6. DetailFits(state', calls')
    BY <1>2, <1>5 DEF DetailFits, Pending
<1> QED
    BY <1>1, <1>2, <1>4, <1>6 DEF PageInv, PageOK, Quiet

LEMMA DetailClosed ==
    ASSUME Assumptions, PageInv, closeDetail
    PROVE  PageInv'
<1>1. /\ state' \in ConfigHistoryState /\ state'.activated = state.activated
      /\ state'.deviceStatus = state.deviceStatus /\ state'.deviceVersion = state.deviceVersion
      /\ state'.devices = state.devices /\ state'.connectionName = state.connectionName
      /\ state'.query = state.query /\ state'.listOf = state.listOf
      /\ state'.listStatus = state.listStatus /\ state'.listVersion = state.listVersion
      /\ ~state'.detailOpen /\ state'.detailStatus = None
    BY DEF closeDetail, Unselected, PageInv, PageOK, ConfigHistoryState, Statuses
<1>2. calls' = calls
    BY DEF closeDetail
<1>3. Quiet(state', calls) /\ DevicesFit(state', calls)
    BY <1>1 DEF Quiet, DevicesFit, PageInv, PageOK
<1>4. HistoryFits(state', calls) /\ ListFits(state', calls)
    BY <1>1 DEF HistoryFits, ListFits, HistoryCall, PageInv, PageOK
<1>5. DetailFits(state', calls)
    BY <1>1 DEF DetailFits, Assumptions, ConfigHistoryAssumption
<1> QED
    BY <1>1, <1>2, <1>3, <1>4, <1>5 DEF PageInv, PageOK

LEMMA RemovalAsked ==
    ASSUME Assumptions, PageInv, state.activated, removeSelected
    PROVE  PageInv'
<1> DEFINE call == [op |-> "remove", id |-> state.selectedId]
<1>1. /\ state' = state /\ CallsTyped(calls')
      /\ With(calls, calls', NextId(calls), call)
    <2>1. state.selectedId \in Snapshots
        BY DEF removeSelected, PageInv, PageOK, ConfigHistoryState
    <2> QED
        BY <2>1, Posted, PostedWith, CallTypes DEF removeSelected, PageInv, PageOK
<1>2. call.op = "remove"
    OBVIOUS
<1> HIDE DEF call
<1>3. /\ DevicesFit(state, calls') /\ HistoryFits(state, calls') /\ ListFits(state, calls')
      /\ DetailFits(state, calls')
    BY <1>1, <1>2, MoreFits DEF PageInv, PageOK
<1> QED
    BY <1>1, <1>3 DEF PageInv, PageOK, Quiet

-----------------------------------------------------------------------------
\* The answers.

\* An answer that changes nothing: it is late, or the store is not about it.
LEMMA Unheard ==
    ASSUME Assumptions, PageInv, NEW i \in DOMAIN calls,
           state' = state, calls' = Settle(calls, i),
           calls[i].op = "devices" => i # state.deviceVersion /\ state.connectionName = None,
           calls[i].op = "history" => i # state.listVersion,
           calls[i].op = "detail" => i # state.detailVersion
    PROVE  PageInv'
<1>1. CallsTyped(calls') /\ With(calls', calls, i, calls[i])
    BY Settled, SettledWith DEF PageInv, PageOK
<1>2. DevicesFit(state, calls') /\ HistoryFits(state, calls') /\ DetailFits(state, calls')
    BY <1>1, LessFits DEF PageInv, PageOK
<1>3. ListFits(state, calls')
    <2>1. CASE calls[i].op # "devices"
        BY <1>1, <2>1, LessFits DEF PageInv, PageOK
    <2>2. CASE calls[i].op = "devices"
        BY <2>2 DEF ListFits, PageInv, PageOK, ConfigHistoryState, Assumptions,
                    ConfigHistoryAssumption
    <2> QED
        BY <2>1, <2>2
<1>4. state.activated
    BY DEF PageInv, PageOK, Quiet
<1> QED
    BY <1>1, <1>2, <1>3, <1>4 DEF PageInv, PageOK, Quiet

\* What a list of devices leaves of a page: all that is below, or nothing of it.
LEMMA DevicesFound ==
    ASSUME ConfigHistoryAssumption, NEW s \in ConfigHistoryState, NEW found \in SUBSET Devices,
           NEW t, t = WithDevices(s, found)
    PROVE  /\ t \in ConfigHistoryState /\ t.activated = s.activated
           /\ t.deviceStatus = None
           /\ \/ /\ t.connectionName = s.connectionName /\ t.connectionName # None
                 /\ t.detailOpen = s.detailOpen /\ t.detail = s.detail
                 /\ t.selectedId = s.selectedId /\ t.detailStatus = s.detailStatus
                 /\ t.detailVersion = s.detailVersion
              \/ /\ t.connectionName = None
                 /\ ~t.detailOpen /\ t.detailStatus = None /\ t.listStatus = None
                 /\ \/ t.listVersion = NoCall
                    \/ t.listVersion = s.listVersion /\ s.connectionName = None
<1> DEFINE gone == s.connectionName # None /\ s.connectionName \notin found
           c == IF s.connectionName \in found THEN s ELSE clearConfigHistoryState(s, None)
           lists == IF gone THEN NoCall ELSE c.listVersion
           details == IF gone THEN NoCall ELSE c.detailVersion
<1>1. t = [c EXCEPT !.devices = found, !.deviceStatus = None,
                    !.listVersion = lists, !.detailVersion = details]
    BY DEF WithDevices
<1>2. /\ c \in ConfigHistoryState /\ c.activated = s.activated
      /\ s.connectionName \in found => c = s
      /\ s.connectionName \notin found =>
            /\ c.connectionName = None /\ ~c.detailOpen
            /\ c.detailStatus = None /\ c.listStatus = None
            /\ c.listVersion = s.listVersion
    <2>1. CASE s.connectionName \in found
        BY <2>1
    <2>2. CASE s.connectionName \notin found
        BY <2>2, Cleared
    <2> QED
        BY <2>1, <2>2
<1>3. /\ lists \in CallIds \cup {NoCall} /\ details \in CallIds \cup {NoCall}
      /\ gone => lists = NoCall
      /\ ~gone => lists = c.listVersion /\ details = c.detailVersion
    BY <1>2 DEF ConfigHistoryState
<1> HIDE DEF c, lists, details
<1>4. /\ t \in ConfigHistoryState /\ t.activated = c.activated /\ t.deviceStatus = None
      /\ t.connectionName = c.connectionName /\ t.detailOpen = c.detailOpen
      /\ t.detail = c.detail /\ t.selectedId = c.selectedId
      /\ t.detailStatus = c.detailStatus /\ t.listStatus = c.listStatus
      /\ t.listVersion = lists /\ t.detailVersion = details
    <2> HIDE DEF gone
    <2>1. c \in ConfigHistoryState
        BY <1>2
    <2>2. lists \in CallIds \cup {NoCall} /\ details \in CallIds \cup {NoCall}
        BY <1>3
    <2>3. t \in ConfigHistoryState
        BY <1>1, <2>1, <2>2 DEF ConfigHistoryState, Statuses
    <2> QED
        BY <1>1, <2>1, <2>3 DEF ConfigHistoryState
<1>5. gone => t.listVersion = NoCall
    BY <1>4, <1>3
<1>6. ~gone => t.listVersion = c.listVersion /\ t.detailVersion = c.detailVersion
    BY <1>4, <1>3
<1>7. CASE s.connectionName \in found
    BY <1>2, <1>4, <1>6, <1>7 DEF ConfigHistoryAssumption
<1>8. CASE s.connectionName \notin found
    BY <1>2, <1>4, <1>5, <1>6, <1>8
<1> QED
    BY <1>7, <1>8

\* While no device is selected, no history that is asked for holds the version.
LEMMA NoHistoryHeld ==
    ASSUME Assumptions, PageInv, state.connectionName = None
    PROVE  ~Pending(calls, state.listVersion, "history")
<1>1. SUFFICES ASSUME Pending(calls, state.listVersion, "history") PROVE FALSE
    OBVIOUS
<1>2. calls[state.listVersion] = HistoryCall(state)
    BY <1>1 DEF PageInv, PageOK, HistoryFits
<1>3. HistoryCall(state) \in Call /\ HistoryCall(state).op = "history"
    BY <1>1, <1>2 DEF PageInv, PageOK, CallsTyped, Pending
<1>4. \A c \in Call : c.op = "history" => c.device \in Devices
    BY DEF Call
<1> QED
    BY <1>3, <1>4 DEF HistoryCall, Assumptions, ConfigHistoryAssumption

LEMMA DevicesAnswered ==
    ASSUME Assumptions, PageInv, NEW i \in DOMAIN calls, AnswerDevices(i)
    PROVE  PageInv'
<1> DEFINE left == Settle(calls, i)
<1>1. /\ CallsTyped(calls) /\ CallsTyped(left) /\ With(left, calls, i, calls[i])
      /\ calls[i].op = "devices" /\ state \in ConfigHistoryState /\ state.activated
    BY Settled, SettledWith DEF PageInv, PageOK, Quiet, AnswerDevices
<1>2. PICK s \in IF i # state.deviceVersion THEN {state}
                 ELSE {WithDevices(state, found) : found \in SUBSET Devices}
                        \cup {[state EXCEPT !.deviceStatus = "error"]} :
          IF s.connectionName # None THEN GoOnWithHistory(s, i)
          ELSE state' = s /\ calls' = left
    BY DEF AnswerDevices
<1>3. HistoryFits(state, left) /\ DetailFits(state, left)
    BY <1>1, LessFits DEF PageInv, PageOK
<1>4. ASSUME s \in ConfigHistoryState, s.activated, DevicesFit(s, left), DetailFits(s, calls),
             s.connectionName # None
      PROVE  PageInv'
    BY <1>1, <1>2, <1>4, HistoryGoesOn
<1>5. ASSUME s \in ConfigHistoryState, s.activated, DevicesFit(s, left), DetailFits(s, left),
             HistoryFits(s, left), s.connectionName = None
      PROVE  PageInv'
    <2> HIDE DEF left
    <2>1. state' = s /\ calls' = left
        BY <1>2, <1>5
    <2>2. ListFits(s, left)
        BY <1>5 DEF ListFits, ConfigHistoryState, Assumptions, ConfigHistoryAssumption
    <2> QED
        BY <1>1, <1>5, <2>1, <2>2 DEF PageInv, PageOK, Quiet
<1>6. CASE i # state.deviceVersion
    <2>1. s = state
        BY <1>2, <1>6
    <2>2. DevicesFit(s, left)
        BY <1>1, <1>6, <2>1, LessFits DEF PageInv, PageOK
    <2> HIDE DEF left
    <2> QED
        BY <1>1, <1>3, <1>4, <1>5, <2>1, <2>2 DEF PageInv, PageOK
<1>7. CASE s = [state EXCEPT !.deviceStatus = "error"]
    <2> HIDE DEF left
    <2>1. /\ s \in ConfigHistoryState /\ s.activated /\ s.deviceStatus = "error"
          /\ s.connectionName = state.connectionName /\ s.query = state.query
          /\ s.listStatus = state.listStatus /\ s.listVersion = state.listVersion
          /\ s.detailOpen = state.detailOpen /\ s.detail = state.detail
          /\ s.selectedId = state.selectedId /\ s.detailStatus = state.detailStatus
          /\ s.detailVersion = state.detailVersion
        BY <1>1, <1>7 DEF ConfigHistoryState, Statuses
    <2>2. DevicesFit(s, left)
        BY <2>1 DEF DevicesFit
    <2>3. HistoryFits(s, left)
        BY <1>3, <2>1 DEF HistoryFits, HistoryCall
    <2>4. DetailFits(s, left) /\ DetailFits(s, calls)
        BY <1>3, <2>1 DEF DetailFits, PageInv, PageOK
    <2> QED
        BY <1>4, <1>5, <2>1, <2>2, <2>3, <2>4
<1>8. ASSUME NEW found \in SUBSET Devices, s = WithDevices(state, found) PROVE PageInv'
    <2> HIDE DEF left
    <2>1. /\ s \in ConfigHistoryState /\ s.activated /\ s.deviceStatus = None
          /\ \/ /\ s.connectionName = state.connectionName /\ s.connectionName # None
                /\ s.detailOpen = state.detailOpen /\ s.detail = state.detail
                /\ s.selectedId = state.selectedId /\ s.detailStatus = state.detailStatus
                /\ s.detailVersion = state.detailVersion
             \/ /\ s.connectionName = None
                /\ ~s.detailOpen /\ s.detailStatus = None /\ s.listStatus = None
                /\ \/ s.listVersion = NoCall
                   \/ s.listVersion = state.listVersion /\ state.connectionName = None
        BY <1>1, <1>8, DevicesFound DEF Assumptions
    <2>2. DevicesFit(s, left)
        BY <2>1 DEF DevicesFit, Assumptions, ConfigHistoryAssumption
    <2>3. DetailFits(s, left) /\ DetailFits(s, calls)
        BY <1>3, <2>1 DEF DetailFits, PageInv, PageOK, Assumptions, ConfigHistoryAssumption
    <2>4. CASE s.connectionName # None
        BY <1>4, <2>1, <2>2, <2>3, <2>4
    <2>5. CASE s.connectionName = None
        <3>1. ~Pending(left, s.listVersion, "history")
            <4>1. CASE s.listVersion = NoCall
                BY <1>1, <4>1, NoneHeld DEF Assumptions
            <4>2. CASE s.listVersion = state.listVersion /\ state.connectionName = None
                BY <1>1, <4>2, NoHistoryHeld DEF With, Pending
            <4> QED
                BY <2>1, <2>5, <4>1, <4>2
        <3>2. s.listStatus # "info"
            BY <2>1, <2>5 DEF Assumptions, ConfigHistoryAssumption
        <3> QED
            BY <1>5, <2>1, <2>2, <2>3, <2>5, <3>1, <3>2 DEF HistoryFits
    <2> QED
        BY <2>4, <2>5
<1> QED
    BY <1>2, <1>6, <1>7, <1>8

\* The list that answers the history asked for, and the selection that is in it.
ListedTo(s, call, t) ==
    /\ t \in ConfigHistoryState /\ t.activated = s.activated
    /\ t.deviceStatus = s.deviceStatus /\ t.deviceVersion = s.deviceVersion
    /\ t.connectionName = s.connectionName /\ t.query = s.query
    /\ t.listVersion = s.listVersion /\ t.listStatus = None
    /\ t.listOf = <<call.device, call.query>>
    /\ \/ ~t.detailOpen /\ t.detailStatus = None
       \/ /\ t.detailOpen = s.detailOpen /\ t.detail = s.detail
          /\ t.selectedId = s.selectedId /\ t.detailStatus = s.detailStatus
          /\ t.detailVersion = s.detailVersion

Stored(s, found, of, selected, version) ==
    [s EXCEPT !.snapshots = found, !.listOf = of, !.listStatus = None,
              !.selectedId = selected, !.detailVersion = version]

LEMMA ListStored ==
    ASSUME NEW s \in ConfigHistoryState, NEW found \in SUBSET Snapshots,
           NEW of \in (Devices \X Queries) \cup {None}, NEW selected \in Snapshots \cup {None},
           NEW version \in CallIds \cup {NoCall},
           NEW t, t = Stored(s, found, of, selected, version)
    PROVE  /\ t \in ConfigHistoryState /\ t.activated = s.activated
           /\ t.deviceStatus = s.deviceStatus /\ t.deviceVersion = s.deviceVersion
           /\ t.connectionName = s.connectionName /\ t.query = s.query
           /\ t.listVersion = s.listVersion /\ t.listStatus = None
           /\ t.listOf = of /\ t.detailOpen = s.detailOpen /\ t.detail = s.detail
           /\ t.selectedId = selected /\ t.detailStatus = s.detailStatus
           /\ t.detailVersion = version
<1>1. t \in ConfigHistoryState
    BY DEF Stored, ConfigHistoryState, Statuses
<1> QED
    BY <1>1 DEF Stored, ConfigHistoryState

LEMMA DetailDropped ==
    ASSUME NEW s \in ConfigHistoryState,
           NEW t, t = [s EXCEPT !.detail = None, !.detailOpen = FALSE, !.detailStatus = None]
    PROVE  t \in ConfigHistoryState
BY DEF ConfigHistoryState, Statuses

LEMMA SnapshotsListed ==
    ASSUME NEW s \in ConfigHistoryState, NEW call, call \in Call, call.op = "history",
           NEW found \in SUBSET Snapshots, ConfigHistoryAssumption,
           NEW t, t = Listed(s, call, found)
    PROVE  ListedTo(s, call, t)
<1> DEFINE kept == s.selectedId \in found
           selected == IF kept THEN s.selectedId ELSE None
           version == IF ~kept /\ s.selectedId # None THEN NoCall ELSE s.detailVersion
           of == <<call.device, call.query>>
           listed == Stored(s, found, of, selected, version)
<1>1. t = IF kept THEN listed ELSE Unselected(listed)
    BY DEF Listed, Stored
<1>2. /\ of \in (Devices \X Queries) \cup {None}
      /\ selected \in Snapshots \cup {None} /\ version \in CallIds \cup {NoCall}
      /\ kept => selected = s.selectedId /\ version = s.detailVersion
    BY DEF Call, ConfigHistoryState
<1> HIDE DEF of, selected, version
<1>3. /\ listed \in ConfigHistoryState /\ listed.activated = s.activated
      /\ listed.deviceStatus = s.deviceStatus /\ listed.deviceVersion = s.deviceVersion
      /\ listed.connectionName = s.connectionName /\ listed.query = s.query
      /\ listed.listVersion = s.listVersion /\ listed.listStatus = None
      /\ listed.listOf = of /\ listed.detailOpen = s.detailOpen /\ listed.detail = s.detail
      /\ listed.selectedId = selected /\ listed.detailStatus = s.detailStatus
      /\ listed.detailVersion = version
    BY <1>2, ListStored
<1> HIDE DEF listed
<1>4. ListedTo(s, call, Unselected(listed))
    <2> DEFINE u == Unselected(listed)
    <2>1. u = [listed EXCEPT !.detail = None, !.detailOpen = FALSE, !.detailStatus = None]
        BY DEF Unselected
    <2> HIDE DEF u
    <2>2. u \in ConfigHistoryState
        BY <1>3, <2>1, DetailDropped
    <2>3. /\ u.activated = listed.activated
          /\ u.deviceStatus = listed.deviceStatus /\ u.deviceVersion = listed.deviceVersion
          /\ u.connectionName = listed.connectionName /\ u.query = listed.query
          /\ u.listVersion = listed.listVersion /\ u.listStatus = listed.listStatus
          /\ u.listOf = listed.listOf /\ ~u.detailOpen /\ u.detailStatus = None
        BY <1>3, <2>1 DEF ConfigHistoryState
    <2>4. ListedTo(s, call, u)
        BY <1>3, <2>2, <2>3 DEF of, ListedTo
    <2> QED
        BY <2>4 DEF u
<1>5. CASE kept
    <2>1. t = listed
        BY <1>1, <1>5
    <2> QED
        BY <1>2, <1>3, <1>5, <2>1 DEF of, ListedTo
<1>6. CASE ~kept
    <2>1. t = Unselected(listed)
        BY <1>1, <1>6
    <2> QED
        BY <1>4, <2>1
<1> QED
    BY <1>5, <1>6

LEMMA HistoryAnswered ==
    ASSUME Assumptions, PageInv, NEW i \in DOMAIN calls, AnswerHistory(i)
    PROVE  PageInv'
<1>1. /\ CallsTyped(calls) /\ CallsTyped(calls') /\ With(calls', calls, i, calls[i])
      /\ calls[i].op = "history" /\ state \in ConfigHistoryState /\ state.activated
      /\ calls[i] \in Call /\ calls' = Settle(calls, i)
    BY Settled, SettledWith DEF PageInv, PageOK, Quiet, AnswerHistory, CallsTyped
<1>2. CASE i # state.listVersion
    BY <1>1, <1>2, Unheard DEF AnswerHistory
<1>3. CASE i = state.listVersion
    <2>1. calls[i] = HistoryCall(state)
        BY <1>1, <1>3 DEF PageInv, PageOK, HistoryFits, Pending
    <2>2. DevicesFit(state, calls') /\ DetailFits(state, calls')
        BY <1>1, LessFits DEF PageInv, PageOK
    <2>3. ~Pending(calls', state.listVersion, "history")
        BY <1>1, <1>3 DEF With, Pending
    <2>4. ASSUME NEW found \in SUBSET Snapshots, state' = Listed(state, calls[i], found)
          PROVE  PageInv'
        <3>1. ListedTo(state, calls[i], state')
            BY <1>1, <2>4, SnapshotsListed DEF Assumptions
        <3>2. DevicesFit(state', calls')
            BY <2>2, <3>1 DEF DevicesFit, ListedTo
        <3>3. HistoryFits(state', calls')
            BY <2>3, <3>1 DEF HistoryFits, ListedTo, Assumptions, ConfigHistoryAssumption
        <3>4. ListFits(state', calls')
            BY <2>1, <3>1 DEF ListFits, ListedTo, HistoryCall
        <3>5. DetailFits(state', calls')
            BY <1>1, <2>2, <3>1 DEF DetailFits, ListedTo, ConfigHistoryState, Assumptions,
                                    ConfigHistoryAssumption
        <3> QED
            BY <1>1, <3>1, <3>2, <3>3, <3>4, <3>5 DEF ListedTo, PageInv, PageOK, Quiet
    <2>5. CASE state' = [state EXCEPT !.listStatus = "error"]
        <3>1. /\ state' \in ConfigHistoryState /\ state'.activated = state.activated
              /\ state'.deviceStatus = state.deviceStatus
              /\ state'.deviceVersion = state.deviceVersion
              /\ state'.listVersion = state.listVersion /\ state'.listStatus = "error"
              /\ state'.detailOpen = state.detailOpen /\ state'.detail = state.detail
              /\ state'.selectedId = state.selectedId
              /\ state'.detailStatus = state.detailStatus
              /\ state'.detailVersion = state.detailVersion
            BY <1>1, <2>5 DEF ConfigHistoryState, Statuses
        <3>2. DevicesFit(state', calls')
            BY <2>2, <3>1 DEF DevicesFit
        <3>3. HistoryFits(state', calls') /\ ListFits(state', calls')
            BY <2>3, <3>1 DEF HistoryFits, ListFits, Assumptions, ConfigHistoryAssumption
        <3>4. DetailFits(state', calls')
            BY <2>2, <3>1 DEF DetailFits
        <3> QED
            BY <1>1, <3>1, <3>2, <3>3, <3>4 DEF PageInv, PageOK, Quiet
    <2> QED
        BY <1>3, <2>4, <2>5 DEF AnswerHistory
<1> QED
    BY <1>2, <1>3

LEMMA DetailAnswered ==
    ASSUME Assumptions, PageInv, NEW i \in DOMAIN calls, AnswerDetail(i)
    PROVE  PageInv'
<1>1. /\ CallsTyped(calls') /\ With(calls', calls, i, calls[i])
      /\ calls[i].op = "detail" /\ state \in ConfigHistoryState /\ state.activated
      /\ calls[i].id \in Snapshots /\ calls' = Settle(calls, i)
    <2>1. calls[i] \in Call /\ calls[i].op = "detail"
        BY DEF PageInv, PageOK, CallsTyped, AnswerDetail
    <2>2. calls[i].id \in Snapshots
        BY <2>1 DEF Call
    <2> QED
        BY <2>1, <2>2, Settled, SettledWith DEF PageInv, PageOK, Quiet, AnswerDetail
<1>2. CASE i # state.detailVersion
    BY <1>1, <1>2, Unheard DEF AnswerDetail, DetailCounts
<1>3. CASE i = state.detailVersion
    <2>1. state.detailOpen => calls[i].id = state.selectedId
        BY <1>1, <1>3 DEF PageInv, PageOK, DetailFits, Pending
    <2>2. DevicesFit(state, calls') /\ HistoryFits(state, calls') /\ ListFits(state, calls')
        BY <1>1, LessFits DEF PageInv, PageOK
    <2>3. ~Pending(calls', state.detailVersion, "detail")
        BY <1>1, <1>3 DEF With, Pending
    <2>4. /\ state' \in ConfigHistoryState /\ state'.activated = state.activated
          /\ state'.deviceStatus = state.deviceStatus
          /\ state'.deviceVersion = state.deviceVersion
          /\ state'.devices = state.devices /\ state'.connectionName = state.connectionName
          /\ state'.query = state.query /\ state'.listOf = state.listOf
          /\ state'.listStatus = state.listStatus /\ state'.listVersion = state.listVersion
          /\ state'.detailOpen = state.detailOpen /\ state'.selectedId = state.selectedId
          /\ state'.detailVersion = state.detailVersion
          /\ state'.detailStatus \in {None, "error"}
          /\ state'.detail \in {None, calls[i].id}
        <3>1. CASE state' = [state EXCEPT !.detail = calls[i].id, !.detailStatus = None]
            BY <1>1, <3>1 DEF ConfigHistoryState, Statuses
        <3>2. CASE state' = [state EXCEPT !.detail = None, !.detailStatus = "error"]
            BY <1>1, <3>2 DEF ConfigHistoryState, Statuses
        <3> QED
            BY <1>3, <3>1, <3>2 DEF AnswerDetail, DetailCounts
    <2>5. DevicesFit(state', calls')
        BY <2>2, <2>4 DEF DevicesFit
    <2>6. HistoryFits(state', calls') /\ ListFits(state', calls')
        BY <2>2, <2>4 DEF HistoryFits, ListFits, HistoryCall
    <2>7. DetailFits(state', calls')
        BY <2>1, <2>3, <2>4 DEF DetailFits, Assumptions, ConfigHistoryAssumption
    <2> QED
        BY <1>1, <2>4, <2>5, <2>6, <2>7 DEF PageInv, PageOK, Quiet
<1> QED
    BY <1>2, <1>3

LEMMA RemovalAnswered ==
    ASSUME Assumptions, PageInv, NEW i \in DOMAIN calls, AnswerRemove(i)
    PROVE  PageInv'
<1> DEFINE left == Settle(calls, i)
           s == [state EXCEPT !.detail = None, !.detailOpen = FALSE, !.selectedId = None]
<1>1. /\ CallsTyped(calls) /\ CallsTyped(left) /\ With(left, calls, i, calls[i])
      /\ calls[i].op = "remove" /\ state \in ConfigHistoryState /\ state.activated
    BY Settled, SettledWith DEF PageInv, PageOK, Quiet, AnswerRemove
<1>2. /\ DevicesFit(state, left) /\ HistoryFits(state, left) /\ ListFits(state, left)
      /\ DetailFits(state, left)
    BY <1>1, LessFits DEF PageInv, PageOK
<1>3. CASE GoOnWithHistory(s, i)
    <2>1. /\ s \in ConfigHistoryState /\ s.activated
          /\ s.deviceStatus = state.deviceStatus /\ s.deviceVersion = state.deviceVersion
          /\ ~s.detailOpen /\ s.detailStatus = state.detailStatus
          /\ s.detailVersion = state.detailVersion
        BY <1>1 DEF ConfigHistoryState
    <2> HIDE DEF s
    <2>2. DevicesFit(s, Settle(calls, i))
        BY <1>2, <2>1 DEF DevicesFit
    <2>3. DetailFits(s, calls)
        BY <2>1 DEF DetailFits, PageInv, PageOK
    <2> QED
        BY <1>1, <1>3, <2>1, <2>2, <2>3, HistoryGoesOn
<1>4. CASE state' = [state EXCEPT !.detailStatus = "error"] /\ calls' = left
    <2> HIDE DEF left
    <2>1. /\ state' \in ConfigHistoryState /\ state'.activated
          /\ state'.deviceStatus = state.deviceStatus
          /\ state'.deviceVersion = state.deviceVersion
          /\ state'.devices = state.devices /\ state'.connectionName = state.connectionName
          /\ state'.query = state.query /\ state'.listOf = state.listOf
          /\ state'.listStatus = state.listStatus /\ state'.listVersion = state.listVersion
          /\ state'.detailOpen = state.detailOpen /\ state'.detail = state.detail
          /\ state'.selectedId = state.selectedId
          /\ state'.detailVersion = state.detailVersion /\ state'.detailStatus = "error"
        BY <1>1, <1>4 DEF ConfigHistoryState, Statuses
    <2>2. DevicesFit(state', left)
        BY <1>2, <2>1 DEF DevicesFit
    <2>3. HistoryFits(state', left) /\ ListFits(state', left)
        BY <1>2, <2>1 DEF HistoryFits, ListFits, HistoryCall
    <2>4. DetailFits(state', left)
        BY <1>2, <2>1 DEF DetailFits
    <2> QED
        BY <1>1, <1>4, <2>1, <2>2, <2>3, <2>4 DEF PageInv, PageOK, Quiet
<1> QED
    BY <1>3, <1>4 DEF AnswerRemove

-----------------------------------------------------------------------------
LEMMA Initially ==
    ASSUME Assumptions, Init
    PROVE  PageInv
<1>1. calls = NoCalls /\ DOMAIN calls = {}
    BY DEF Init, NoCalls
<1>2. state \in ConfigHistoryState
    BY DEF Init, ConfigHistoryState, Statuses, Assumptions, ConfigHistoryAssumption
<1>3. /\ state.deviceStatus = None /\ state.listStatus = None /\ state.detailStatus = None
      /\ state.devices = {} /\ ~state.detailOpen
    BY DEF Init
<1>4. \A v, op : ~Pending(calls, v, op)
    BY <1>1 DEF Pending
<1>5. CallsTyped(calls) /\ Quiet(state, calls)
    BY <1>1 DEF CallsTyped, Quiet
<1>6. DevicesFit(state, calls) /\ HistoryFits(state, calls) /\ DetailFits(state, calls)
    BY <1>3, <1>4 DEF DevicesFit, HistoryFits, DetailFits, Assumptions, ConfigHistoryAssumption
<1>7. ListFits(state, calls)
    BY <1>3 DEF ListFits
<1> QED
    BY <1>2, <1>5, <1>6, <1>7 DEF PageInv, PageOK

LEMMA Kept ==
    ASSUME Assumptions, PageInv, [Next]_vars
    PROVE  PageInv'
<1>1. CASE setPageContext
    BY <1>1, Activated
<1>2. CASE \E device \in Devices \cup {None} : TargetChanges(device)
    BY <1>2, TargetChanged
<1>3. CASE state.activated /\ state.detailOpen /\ DetailDialog
    BY <1>3, DetailClosed, RemovalAsked DEF DetailDialog
<1>4. CASE state.activated /\ DeviceList
    <2>1. state.devices \subseteq Devices
        BY DEF PageInv, PageOK, ConfigHistoryState
    <2> QED
        BY <1>4, <2>1, DevicesRefreshed, DeviceSelected DEF DeviceList
<1>5. CASE state.activated /\ HistoryList
    <2>1. state.snapshots \subseteq Snapshots
        BY DEF PageInv, PageOK, ConfigHistoryState
    <2> QED
        BY <1>5, <2>1, QueryUpdated, SnapshotSelected DEF HistoryList
<1>6. ASSUME NEW i \in DOMAIN calls,
             AnswerDevices(i) \/ AnswerHistory(i) \/ AnswerDetail(i) \/ AnswerRemove(i)
      PROVE  PageInv'
    BY <1>6, DevicesAnswered, HistoryAnswered, DetailAnswered, RemovalAnswered
<1>7. CASE UNCHANGED vars
    <2>1. state' = state /\ calls' = calls
        BY <1>7 DEF vars
    <2> QED
        BY <2>1 DEF PageInv
<1> QED
    BY <1>1, <1>2, <1>3, <1>4, <1>5, <1>6, <1>7 DEF Next

LEMMA FitsThroughout ==
    ASSUME Assumptions
    PROVE  Spec => []PageInv
<1>1. Init => PageInv
    BY Initially
<1>2. PageInv /\ [Next]_vars => PageInv'
    BY Kept
<1> QED
    BY <1>1, <1>2, PTL DEF Spec

-----------------------------------------------------------------------------
\* The store and the calls have their types (the state of
\* createConfigHistoryWorkspace.ts).
THEOREM TypeCorrect ==
    ASSUME Assumptions
    PROVE  Spec => []TypeOK
<1>1. PageInv => TypeOK
    BY DEF PageInv, PageOK, CallsTyped, TypeOK
<1> QED
    BY <1>1, FitsThroughout, PTL

\* The open dialog shows the selected snapshot and none of another, so that Delete
\* deletes what the user sees, in whatever order details, lists, deletions and changes
\* of the active connection end (selectSnapshot and removeSelected).
THEOREM DetailOfSelection ==
    ASSUME Assumptions
    PROVE  Spec => []DetailIsOfSelection
<1>1. PageInv => DetailIsOfSelection
    BY DEF PageInv, PageOK, DetailFits, DetailIsOfSelection
<1> QED
    BY <1>1, FitsThroughout, PTL

\* A list shown without a status answers the device and the filters that are chosen
\* now, however many lists are still on their way (refreshHistory).
THEOREM ListOfSelection ==
    ASSUME Assumptions
    PROVE  Spec => []ListIsCurrent
<1>1. PageInv => ListIsCurrent
    BY DEF PageInv, PageOK, ListFits, ListIsCurrent
<1> QED
    BY <1>1, FitsThroughout, PTL

\* What is shown as loading is being loaded: no level waits for an answer that has
\* come, or that a newer request has put out of use.
THEOREM LoadingIsLoaded ==
    ASSUME Assumptions
    PROVE  Spec => []BusyIsPending
<1>1. PageInv => BusyIsPending
    BY DEF PageInv, PageOK, DevicesFit, HistoryFits, DetailFits, BusyIsPending
<1> QED
    BY <1>1, FitsThroughout, PTL
=============================================================================
