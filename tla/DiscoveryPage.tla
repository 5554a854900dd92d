---------------------------- MODULE DiscoveryPage ----------------------------
(***************************************************************************)
(* The page that starts device discovery runs, follows the run it shows by  *)
(* polling, and imports results as connections.  detail is the run shown,   *)
(* whether it is still active and the results that can be imported;         *)
(* selected are the results ticked for import, initialized those that were  *)
(* once ticked by the page itself, edited those whose name the user typed.  *)
(***************************************************************************)
EXTENDS Requests, FiniteSets

CONSTANTS Runs,        \* discovery runs
          Endpoints,   \* host and port of a result
          None

VARIABLES state, calls

DiscoveryPageAssumption == None \notin Runs

vars == <<state, calls>>

DiscoveryRunDetail == [run: Runs, running: BOOLEAN, importable: SUBSET Endpoints]

DeviceDiscoveryState ==
  [currentDetail: DiscoveryRunDetail \cup {None}, selected: SUBSET Endpoints,
   initialized: SUBSET Endpoints, edited: SUBSET Endpoints,
   loading: BOOLEAN, importing: BOOLEAN, error: BOOLEAN,
   active: BOOLEAN, opened: BOOLEAN, destroyed: BOOLEAN, pollTimer: BOOLEAN]

newDeviceDiscoveryState ==
  [currentDetail |-> None, selected |-> {}, initialized |-> {}, edited |-> {},
   loading |-> FALSE, importing |-> FALSE, error |-> FALSE,
   active |-> FALSE, opened |-> FALSE, destroyed |-> FALSE, pollTimer |-> FALSE]

\* "for" is the function that awaits the call.
Call == [op: {"lists"}, for: {"initialize"}] \cup [op: {"runs"}, for: {"refresh"}]
          \cup [op: {"run"}, run: Runs, for: {"initialize", "refresh", "poll", "import"}]
          \cup [op: {"create"}, for: {"start"}]
          \cup [op: {"cancel"}, run: Runs, for: {"cancel"}]
          \cup [op: {"import"}, run: Runs, for: {"import"}]

Init == state = newDeviceDiscoveryState /\ calls = NoCalls

Shown == state.currentDetail
runActive == Shown # None /\ Shown.running
selectedImportableResults == IF Shown = None THEN {} ELSE state.selected \cap Shown.importable

Send(s, call) == CanPost(calls) /\ state' = s /\ calls' = Post(calls, call)

-----------------------------------------------------------------------------
\* Results that are new to the page are ticked, those it has seen are left as
\* the user wants them.
initializeResultDrafts(s, detail) ==
  [s EXCEPT !.initialized = @ \cup detail.importable,
            !.selected = @ \cup (detail.importable \ s.initialized)]

\* The end of loadRun: an active run is asked for again after a while.
Loaded(s, detail) ==
  [initializeResultDrafts([s EXCEPT !.currentDetail = detail], detail)
     EXCEPT !.pollTimer = @ \/ detail.running]

\* What the function that awaits a call does last, failed or not.
Ends(s, for) ==
  CASE for \in {"initialize", "start", "cancel"} -> [s EXCEPT !.loading = FALSE]
    [] for = "import" -> [s EXCEPT !.importing = FALSE]
    [] OTHER -> s

\* A failure is shown, except that of a refresh.
Failed(s, for) == Ends([s EXCEPT !.error = @ \/ for # "refresh"], for)

Details(run) == {detail \in DiscoveryRunDetail : detail.run = run}

\* The ticks of an import that has ended stay where the import has failed.
retainImportableDiscoveryResultKeys(s) ==
  [s EXCEPT !.selected = @ \cap s.currentDetail.importable]

RunArrives(i, detail) ==
  LET s == Loaded(state, detail) IN
  state' = Ends(IF calls[i].for = "import"
                THEN retainImportableDiscoveryResultKeys(s) ELSE s, calls[i].for)

loadRun(i) ==
  /\ calls[i].op = "run"
  /\ \/ \E detail \in Details(calls[i].run) : RunArrives(i, detail)
     \/ state' = Failed(state, calls[i].for)
  /\ calls' = Settle(calls, i)

-----------------------------------------------------------------------------
schedulePoll(s) == [s EXCEPT !.pollTimer = TRUE]

\* The timer goes off: the run that is shown by then is asked for.
Poll ==
  /\ state.pollTimer
  /\ LET s == [state EXCEPT !.pollTimer = FALSE] IN
     IF state.active /\ Shown # None
     THEN Send(s, [op |-> "run", run |-> Shown.run, for |-> "poll"])
     ELSE state' = s /\ UNCHANGED calls

initialize(s) ==
  Send([s EXCEPT !.loading = TRUE, !.error = FALSE],
       [op |-> "lists", for |-> "initialize"])

AnswerLists(i) ==
  /\ calls[i].op = "lists"
  /\ \/ /\ \E run \in Runs :
             calls' = Chain(calls, i, [op |-> "run", run |-> run, for |-> "initialize"])
        /\ UNCHANGED state
     \/ /\ state' \in {Ends(state, "initialize"), Failed(state, "initialize")}
        /\ calls' = Settle(calls, i)

loadLatestRun ==
  /\ Shown # None /\ ~state.loading
  /\ Send(state, [op |-> "runs", for |-> "refresh"])

\* The latest run is another one than is shown: its results start afresh.
Forget(s) == [s EXCEPT !.initialized = {}, !.edited = {}, !.selected = {}]

AnswerRuns(i) ==
  /\ calls[i].op = "runs"
  /\ \/ \E run \in Runs :
          /\ calls' = Chain(calls, i, [op |-> "run", run |-> run, for |-> "refresh"])
          /\ state' = IF Shown # None /\ Shown.run = run THEN state ELSE Forget(state)
     \/ /\ state' \in {[state EXCEPT !.currentDetail = None], state}
        /\ calls' = Settle(calls, i)

\* Ports, targets or credentials are missing, or the run is created.
startDiscovery ==
  /\ ~runActive /\ ~state.loading
  /\ \/ state' = [state EXCEPT !.error = TRUE] /\ UNCHANGED calls
     \/ Send([Forget(state) EXCEPT !.loading = TRUE, !.error = FALSE],
             [op |-> "create", for |-> "start"])

cancelDiscovery ==
  /\ runActive /\ ~state.loading
  /\ Send([state EXCEPT !.loading = TRUE, !.error = FALSE],
          [op |-> "cancel", run |-> Shown.run, for |-> "cancel"])

\* The run is shown without drafts; the first poll makes them.
AnswerStartOrCancel(i) ==
  LET call == calls[i] IN
  /\ call.op \in {"create", "cancel"}
  /\ \/ \E run \in IF call.op = "create" THEN Runs ELSE {call.run} :
          \E detail \in Details(run) :
            state' = Ends(schedulePoll([state EXCEPT !.currentDetail = detail]), call.for)
     \/ state' = Failed(state, call.for)
  /\ calls' = Settle(calls, i)

importSelected ==
  /\ selectedImportableResults # {} /\ ~state.importing
  /\ Send([state EXCEPT !.importing = TRUE, !.error = FALSE],
          [op |-> "import", run |-> Shown.run, for |-> "import"])

AnswerImport(i) ==
  /\ calls[i].op = "import"
  /\ \/ /\ calls' = Chain(calls, i, [calls[i] EXCEPT !.op = "run"])
        /\ UNCHANGED state
     \/ /\ state' = Failed(state, "import")
        /\ calls' = Settle(calls, i)

-----------------------------------------------------------------------------
Choose(s) == state' = s /\ UNCHANGED calls

toggleResult(result) ==
  Choose([state EXCEPT !.selected = IF result \in @ THEN @ \ {result}
                                    ELSE @ \cup {result}])

toggleAllImportable(checked) ==
  Choose([state EXCEPT !.selected = IF checked /\ Shown # None
                                    THEN Shown.importable ELSE {}])

updateConnectionName(result) == Choose([state EXCEPT !.edited = @ \cup {result}])

setPageContext ==
  IF state.active
  THEN Choose([state EXCEPT !.active = FALSE, !.pollTimer = FALSE])
  ELSE LET s == [state EXCEPT !.active = TRUE] IN
       IF ~state.opened THEN initialize([s EXCEPT !.opened = TRUE])
       ELSE Choose(IF runActive THEN schedulePoll(s) ELSE s)

destroy == Choose([newDeviceDiscoveryState EXCEPT !.destroyed = TRUE])

DeviceDiscoveryPanel ==
  \/ startDiscovery \/ cancelDiscovery \/ loadLatestRun \/ importSelected
  \/ \E checked \in BOOLEAN : toggleAllImportable(checked)
  \/ /\ Shown # None
     /\ \E result \in Shown.importable : toggleResult(result) \/ updateConnectionName(result)

Next ==
  \/ ~state.destroyed /\ (setPageContext \/ destroy)
  \/ state.active /\ DeviceDiscoveryPanel
  \/ Poll
  \/ \E i \in DOMAIN calls : \/ loadRun(i) \/ AnswerLists(i) \/ AnswerRuns(i)
                             \/ AnswerStartOrCancel(i) \/ AnswerImport(i)

Spec == Init /\ [][Next]_vars

-----------------------------------------------------------------------------
\* The store and the calls have their types.
TypeOK ==
  /\ state \in DeviceDiscoveryState
  /\ DOMAIN calls \subseteq CallIds
  /\ \A i \in DOMAIN calls : calls[i] \in Call

\* An active run on the open page is followed: a poll is due or a call is in
\* flight, unless a failure is shown (a failed poll is the last one).
ActiveRunIsFollowed ==
  state.active /\ runActive => state.pollTimer \/ calls # NoCalls \/ state.error

\* What is busy is waiting for a call.
BusyIsPending ==
  /\ state.loading => \E i \in DOMAIN calls :
                        calls[i].for \in {"initialize", "start", "cancel"}
  /\ state.importing => \E i \in DOMAIN calls : calls[i].for = "import"

\* A poll neither ticks a result again that the user has unticked nor forgets
\* the names the user has typed.
PollKeepsChoices ==
  \A i \in DOMAIN calls \ DOMAIN calls' :
    calls[i].op = "run" /\ calls[i].for = "poll" =>
      /\ (state'.selected \ state.selected) \cap state.initialized = {}
      /\ state.edited \subseteq state'.edited
=============================================================================
