------------------------------ MODULE ProfilesPage ------------------------------
(***************************************************************************)
(* The catalogue of device profiles: the built-in ones with the detail of   *)
(* the selected one, the custom ones with their form, the diagnosis, and    *)
(* the modes that commands can be run in, which are those of the profile of *)
(* the connection.  What the form of a profile holds is ProfileForm; here   *)
(* it is the name it is saved under.                                        *)
(*                                                                          *)
(* The modes are refreshed one after the other: a refresh waits for those   *)
(* that were asked for before, then reads the profile and fetches its modes *)
(* unless they are cached.  A change of the overview, and what awaits it,   *)
(* waits for a refresh of its own.                                          *)
(***************************************************************************)
EXTENDS Requests, SequencesExt

CONSTANTS Builtins, Customs, None,
          CopyOf,         \* the custom name a copy of a built-in profile gets
          Fallback,       \* the modes that are offered when they cannot be fetched
          MaxRefreshes    \* bound: refreshes asked for and not ended

VARIABLES state, calls

ProfilesPageAssumption ==
  /\ None \notin Builtins \cup Customs /\ Builtins \cap Customs = {}
  /\ CopyOf \in [Builtins -> Customs] /\ Fallback \notin Builtins \cup Customs

Profiles == Builtins \cup Customs
Row(kind, name) == [kind |-> kind, name |-> name]
NoRow == Row("none", None)
Tabs == {"delivery", "connection", "profiles"}

\* target is the profile of the connection, watched the one that was asked for last,
\* fetching the one that the first refresh has read; who waits for a refresh is a profile
\* just created, or nobody.  stored are the custom profiles of the service.
ProfilesPageState ==
  [tab: Tabs, target: Profiles, builtins: SUBSET Builtins, selected: Builtins \cup {None},
   detail: Builtins \cup {None}, customs: SUBSET Customs, name: Customs \cup {None},
   row: {NoRow} \cup {Row("builtin", n) : n \in Builtins} \cup {Row("custom", n) : n \in Customs},
   diagnosable: SUBSET Profiles, diagnosed: Profiles \cup {None}, diagnoseLoading: BOOLEAN,
   cache: SUBSET Profiles, watched: Profiles \cup {None}, queue: Seq(Customs \cup {None}),
   fetching: Profiles \cup {None}, strayed: BOOLEAN, options: Profiles \cup {None, Fallback},
   stored: SUBSET Customs]

Thens == {"nothing", "copy", "overview"}
Call ==
  [op: {"overview"}, waiter: Customs \cup {None}]
    \cup [op: {"detail"}, name: Builtins, then: Thens, waiter: Customs \cup {None}]
    \cup [op: {"form"}, name: Customs, row: Customs]
    \cup [op: {"save", "create", "delete"}, name: Customs]
    \cup [op: {"diagnose"}, name: Profiles]

-----------------------------------------------------------------------------
\* The queue of refreshes.  The first of them reads the profile as it is when it starts.
Started(s) ==
  IF s.queue = <<>> \/ s.fetching # None THEN s
  ELSE [s EXCEPT !.fetching = s.target, !.strayed = s.target # s.watched]

CanRefresh == Len(state.queue) < MaxRefreshes

ForcedUnlessRunning(s, waiter) ==
  IF s.queue # <<>> THEN [s EXCEPT !.watched = s.target]
  ELSE Started([s EXCEPT !.watched = s.target, !.queue = Append(@, waiter)])

ForcedRefresh(s, waiter) ==
  Started([s EXCEPT !.watched = s.target, !.queue = Append(@, waiter)])

refreshExecutionModeOptionsForCurrentConnection(s) ==
  IF s.target = s.watched THEN s ELSE ForcedRefresh(s, None)

\* The effect of the page that runs commands.
SeenTarget(s) ==
  IF s.tab = "delivery" THEN refreshExecutionModeOptionsForCurrentConnection(s) ELSE s

\* The panel of the custom profile reports its name when it is shown and when the name
\* changes; what follows an answer may set the row once more.
Reported(s, old) ==
  IF s.row.kind # "custom" \/ (old.row.kind = "custom" /\ s.name = old.name) THEN s
  ELSE [s EXCEPT !.row = IF s.name = None THEN NoRow ELSE Row("custom", s.name)]
Shown(s) == Reported(s, state)
RowSet(s, row) == Reported([s EXCEPT !.row = row], s)

Init ==
  \E target \in Profiles, stored \in SUBSET Customs :
    /\ state = Started(
         [tab |-> "delivery", target |-> target, builtins |-> {}, selected |-> None,
          detail |-> None, customs |-> {}, name |-> None, row |-> NoRow, diagnosable |-> {},
          diagnosed |-> None, diagnoseLoading |-> FALSE, cache |-> {}, watched |-> target,
          queue |-> <<None>>, fetching |-> None, strayed |-> FALSE, options |-> None,
          stored |-> stored])
    /\ calls = [i \in {1} |-> [op |-> "overview", waiter |-> None]]

\* fetchProfileModes and what follows the first refresh: one that has awaited it goes on
\* to the form of the profile it has created, or of the one that is named by then.
refreshExecutionModeOptions ==
  /\ state.fetching # None
  /\ \E fetched \in IF state.fetching \in state.cache THEN {TRUE} ELSE BOOLEAN :
       state' = Started([state EXCEPT
         !.cache = IF fetched THEN @ \cup {state.fetching} ELSE @,
         !.options = IF fetched THEN state.fetching ELSE Fallback,
         !.queue = Tail(@), !.fetching = None])
  /\ LET waiter == Head(state.queue) IN
     IF waiter # None /\ state.name # None
     THEN /\ CanPost(calls)
          /\ calls' = Post(calls, [op |-> "form", name |-> state.name, row |-> waiter])
     ELSE UNCHANGED calls

-----------------------------------------------------------------------------
openTab ==
  /\ CanPost(calls) /\ CanRefresh
  /\ \E tab \in Tabs \ {state.tab} :
       /\ state' = SeenTarget([state EXCEPT !.tab = tab])
       /\ calls' = IF tab = "profiles" THEN Post(calls, [op |-> "overview", waiter |-> None])
                   ELSE calls

changeTarget ==
  /\ state.tab # "profiles" /\ CanRefresh
  /\ \E target \in Profiles : state' = SeenTarget([state EXCEPT !.target = target])
  /\ UNCHANGED calls

\* loadProfilesOverview, once the service has answered: the detail of what is selected
\* comes next, then the modes.
Listed(s, builtins, customs) ==
  LET diagnosable == builtins \cup customs IN
  [s EXCEPT !.cache = {}, !.builtins = builtins, !.customs = customs,
            !.selected = IF @ \in builtins THEN @ ELSE None,
            !.diagnosable = diagnosable, !.diagnosed = IF @ \in diagnosable THEN @ ELSE None]

loadProfilesOverview(i) ==
  LET waiter == calls[i].waiter listed == Listed(state, Builtins, state.stored) IN
  /\ calls[i].op = "overview" /\ CanRefresh
  /\ \/ /\ listed.selected # None
        /\ state' = listed
        /\ calls' = Chain(calls, i, [op |-> "detail", name |-> listed.selected,
                                     then |-> "overview", waiter |-> waiter])
     \/ /\ \E s \in {Listed(state, {}, {})} \cup (IF listed.selected = None THEN {listed} ELSE {}) :
             state' = ForcedRefresh([s EXCEPT !.detail = None], waiter)
        /\ calls' = Settle(calls, i)

\* A copy is put into the form, under a name of its own.
Copied(s) ==
  LET name == CopyOf[s.detail]
  IN RowSet(Reported([s EXCEPT !.name = name], s), Row("custom", name))

loadBuiltinProfileDetail(i) ==
  LET call == calls[i] IN
  /\ call.op = "detail" /\ CanRefresh
  /\ \E detail \in {call.name, None} :
       LET s == [state EXCEPT !.detail = detail] IN
       state' = CASE call.then = "overview" -> ForcedRefresh(s, call.waiter)
                  [] call.then = "copy" /\ detail # None -> Copied(s)
                  [] OTHER -> s
  /\ calls' = Settle(calls, i)

AskDetail(name, then) ==
  /\ CanPost(calls)
  /\ calls' = Post(calls, [op |-> "detail", name |-> name, then |-> then, waiter |-> None])

selectBuiltinProfile(name) ==
  /\ state' = [state EXCEPT !.row = Row("builtin", name), !.selected = name]
  /\ AskDetail(name, "nothing")

\* The row is selected once the form is there.
selectCustomProfile(name) ==
  /\ CanPost(calls)
  /\ state' = Shown([state EXCEPT !.name = name])
  /\ calls' = Post(calls, [op |-> "form", name |-> name, row |-> name])

selectProfile ==
  \/ \E name \in state.builtins : selectBuiltinProfile(name)
  \/ \E name \in state.customs \cup ({state.row.name} \cap Customs) : selectCustomProfile(name)

\* A form that cannot be had leaves what the form holds, and the name it was asked for.
loadCustomProfile(i) ==
  /\ calls[i].op = "form"
  /\ \E name \in {calls[i].name, state.name} :
       state' = RowSet(Shown([state EXCEPT !.name = name]), Row("custom", calls[i].row))
  /\ calls' = Settle(calls, i)

copySelectedBuiltinProfileToCustom ==
  /\ state.row.kind = "builtin"
  /\ IF state.detail # None THEN state' = Copied(state) /\ UNCHANGED calls
     ELSE state.selected # None /\ AskDetail(state.selected, "copy") /\ UNCHANGED state

-----------------------------------------------------------------------------
Ask(op, name) ==
  CanPost(calls) /\ calls' = Post(calls, [op |-> op, name |-> name]) /\ UNCHANGED state

createCustomProfileDraft == \E name \in Customs : Ask("create", name)
CustomPanel(op) == state.row.kind = "custom" /\ state.name # None /\ Ask(op, state.name)
saveCustomProfile == CustomPanel("save")
deleteCustomProfile == CustomPanel("delete")

\* The overview is loaded again after each of them, and awaited.
reloadCustomProfilesIfNeeded(i, waiter) ==
  calls' = Chain(calls, i, [op |-> "overview", waiter |-> waiter])

AnswerChange(i) ==
  LET call == calls[i] deletes == call.op = "delete" IN
  /\ call.op \in {"save", "create", "delete"}
  /\ \/ /\ state' = Shown([state EXCEPT
               !.stored = IF deletes THEN @ \ {call.name} ELSE @ \cup {call.name},
               !.name = IF deletes THEN None ELSE call.name])
        /\ reloadCustomProfilesIfNeeded(i, IF call.op = "create" THEN call.name ELSE None)
     \/ UNCHANGED state /\ calls' = Settle(calls, i)

setProfileDiagnoseSelected(s, name) ==
  [s EXCEPT !.diagnosed = IF name \in s.diagnosable THEN name ELSE None]
openDiagnoseDialog ==
  /\ state.row # NoRow
  /\ state' = setProfileDiagnoseSelected(state, state.row.name) /\ UNCHANGED calls
changeDiagnosed ==
  /\ \E name \in state.diagnosable : state' = setProfileDiagnoseSelected(state, name)
  /\ UNCHANGED calls

runProfileDiagnose ==
  /\ ~state.diagnoseLoading /\ state.diagnosed # None /\ CanPost(calls)
  /\ state' = [state EXCEPT !.diagnoseLoading = TRUE]
  /\ calls' = Post(calls, [op |-> "diagnose", name |-> state.diagnosed])

AnswerDiagnose(i) ==
  /\ calls[i].op = "diagnose"
  /\ state' = [state EXCEPT !.diagnoseLoading = FALSE] /\ calls' = Settle(calls, i)

Catalogue == selectProfile \/ createCustomProfileDraft
Detail ==
  \/ copySelectedBuiltinProfileToCustom \/ saveCustomProfile \/ deleteCustomProfile
  \/ openDiagnoseDialog \/ changeDiagnosed \/ runProfileDiagnose

Next ==
  \/ openTab \/ changeTarget \/ refreshExecutionModeOptions
  \/ state.tab = "profiles" /\ (Catalogue \/ Detail)
  \/ \E i \in DOMAIN calls :
       \/ loadProfilesOverview(i) \/ loadBuiltinProfileDetail(i) \/ loadCustomProfile(i)
       \/ AnswerChange(i) \/ AnswerDiagnose(i)

Spec == Init /\ [][Next]_<<state, calls>>

-----------------------------------------------------------------------------
\* The state of the page and its calls have their types, and what is selected of the
\* built-in profiles and for the diagnosis is listed.
TypeOK ==
  /\ state \in ProfilesPageState
  /\ state.selected \in state.builtins \cup {None}
  /\ state.diagnosed \in state.diagnosable \cup {None}
  /\ \A i \in DOMAIN calls : calls[i] \in Call

\* The modes that commands can be run in are those of the connection once every refresh
\* has ended, whatever profiles were saved and targets chosen meanwhile: unless a
\* refresh has waited while the target was changed out of sight of the page.
ModesAreOfTarget ==
  state.tab = "delivery" /\ state.queue = <<>> /\ ~state.strayed
    => state.options \in {state.target, Fallback}

\* A refresh that is waited for has started, and a diagnosis that runs has a call.
BusyIsPending ==
  /\ state.queue # <<>> <=> state.fetching # None
  /\ state.diagnoseLoading => \E i \in DOMAIN calls : calls[i].op = "diagnose"
=============================================================================
