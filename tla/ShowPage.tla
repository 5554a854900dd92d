------------------------------- MODULE ShowPage -------------------------------
(***************************************************************************)
(* The page that runs show objects, on one connection and on a batch of     *)
(* saved connections.  What may be chosen are the objects the profile of    *)
(* the target knows, for a batch those that every profile of it knows; the  *)
(* lists are loaded again when the targets or the custom objects change.    *)
(* Each list has a request sequence of its own; running disables only the   *)
(* button that was pressed.                                                 *)
(***************************************************************************)
EXTENDS Requests, FiniteSets

CONSTANTS Targets,     \* saved connections
          ProfileOf,   \* their profiles, None where there is none
          Objects, None

VARIABLES state, calls

Profiles == {ProfileOf[t] : t \in Targets} \ {None}
ShowPageAssumption == ProfileOf \in [Targets -> Profiles \cup {None}] /\ None \notin Targets

Statuses == {"waiting", "missing-profile", "loading", "ready", "empty", "error"}

\* What an execution shows: the rows that came back, one for each target and object.
Results == [kind: {"empty", "running", "error"}]
             \cup [kind: {"result"}, rows: SUBSET (Targets \X Objects)]
EmptyResult == [kind |-> "empty"]
ErrorResult == [kind |-> "error"]

ShowState ==
  [target: Targets, options: SUBSET Objects, selected: SUBSET Objects, seq: Nat,
   result: Results, executing: BOOLEAN,
   batchTargets: SUBSET Targets, batchOptions: SUBSET Objects,
   batchSelected: SUBSET Objects, batchSeq: Nat, availability: Statuses,
   batchResult: Results, batchExecuting: BOOLEAN]

\* selected: the choice when the list was asked for; profiles: whose objects.
Call ==
  [op: {"objects", "batchObjects"}, selected: SUBSET Objects, profiles: SUBSET Profiles]
    \cup [op: {"execute"}, target: Targets, left: SUBSET Objects,
          rows: SUBSET (Targets \X Objects)]
    \cup [op: {"executeBatch"}, targets: SUBSET Targets, objects: SUBSET Objects]
    \cup [op: {"download", "batchDownload"}]

\* catalog: the objects each profile knows, at the service.
CONSTANT Catalog
CatalogAssumption == Catalog \in [Profiles -> SUBSET Objects]
Common(profiles) == {object \in Objects : \A p \in profiles : object \in Catalog[p]}

Init ==
  /\ calls = NoCalls
  /\ \E target \in Targets :
       state = [target |-> target, options |-> {}, selected |-> {}, seq |-> NoCall,
                result |-> EmptyResult, executing |-> FALSE, batchTargets |-> {},
                batchOptions |-> {}, batchSelected |-> {}, batchSeq |-> NoCall,
                availability |-> "waiting", batchResult |-> EmptyResult,
                batchExecuting |-> FALSE]

Show(s) == state' = s /\ UNCHANGED calls
End(i, s) == state' = s /\ calls' = Settle(calls, i)
profilesOf(targets) == {ProfileOf[t] : t \in targets} \ {None}

-----------------------------------------------------------------------------
\* The list for one connection: all objects where the profile is to be detected.
loadShowObjects(s) ==
  /\ CanPost(calls)
  /\ state' = [s EXCEPT !.seq = NextId(calls)]
  /\ calls' = Post(calls, [op |-> "objects", selected |-> s.selected,
                           profiles |-> profilesOf({s.target})])

\* Another connection is selected, or custom objects have changed.
setRouteContext == \E target \in Targets \ {state.target} :
                     loadShowObjects([state EXCEPT !.target = target])
notifyCustomShowObjectsChanged == loadShowObjects(state)

AnswerCounts(i, seq) == seq = i

\* The choice that was there when the list was asked for is made again.
refreshObjectOptions(i) ==
  LET call == calls[i] IN
  /\ call.op = "objects"
  /\ IF ~AnswerCounts(i, state.seq) THEN End(i, state)
     ELSE \/ End(i, [state EXCEPT !.options = Common(call.profiles),
                                  !.selected = call.selected \cap Common(call.profiles)])
          \/ End(i, [state EXCEPT !.result = ErrorResult])

clearBatchShowObjectOptions(s, status) ==
  [s EXCEPT !.batchOptions = {}, !.batchSelected = {}, !.availability = status]

\* Without targets, or with one that has no profile, there is nothing to ask; the
\* sequence goes on in any case.
loadBatchShowObjects(targets) ==
  LET s == [state EXCEPT !.batchTargets = targets] IN
  IF targets = {} \/ \E t \in targets : ProfileOf[t] = None
  THEN Show([clearBatchShowObjectOptions(s, IF targets = {} THEN "waiting"
                                            ELSE "missing-profile") EXCEPT !.batchSeq = NoCall])
  ELSE /\ CanPost(calls)
       /\ state' = [s EXCEPT !.availability = "loading", !.batchSeq = NextId(calls)]
       /\ calls' = Post(calls, [op |-> "batchObjects", selected |-> s.batchSelected,
                                profiles |-> profilesOf(targets)])

AnswerBatchObjects(i) ==
  LET call == calls[i] common == Common(call.profiles) IN
  /\ call.op = "batchObjects"
  /\ IF ~AnswerCounts(i, state.batchSeq) THEN End(i, state)
     ELSE \/ End(i, [state EXCEPT !.batchOptions = common,
                                  !.batchSelected = call.selected \cap common,
                                  !.availability = IF common = {} THEN "empty" ELSE "ready"])
          \/ End(i, clearBatchShowObjectOptions(state, "error"))

changeShowObject(object) ==
  Show([state EXCEPT !.selected = IF object \in @ THEN @ \ {object} ELSE @ \cup {object}])

\* The picker of a batch can be used once its list is ready.
changeBatchShowObject(object) ==
  /\ state.availability = "ready"
  /\ Show([state EXCEPT !.batchSelected = IF object \in @ THEN @ \ {object}
                                          ELSE @ \cup {object}])

-----------------------------------------------------------------------------
\* One object after the other, each on the connection the run was started on.
executeShowObject ==
  /\ ~state.executing
  /\ IF state.selected = {} THEN Show([state EXCEPT !.result = ErrorResult])
     ELSE /\ CanPost(calls)
          /\ state' = [state EXCEPT !.executing = TRUE, !.result = [kind |-> "running"]]
          /\ calls' = Post(calls, [op |-> "execute", target |-> state.target,
                                   left |-> state.selected, rows |-> {}])

PayloadOf(call) == call.target

AnswerExecute(i) ==
  LET call == calls[i] IN
  /\ call.op = "execute"
  /\ \/ \E object \in call.left :
          LET left == call.left \ {object}
              rows == call.rows \cup {<<PayloadOf(call), object>>}
          IN IF left # {}
             THEN /\ calls' = Chain(calls, i, [call EXCEPT !.left = left, !.rows = rows])
                  /\ UNCHANGED state
             ELSE /\ state' = [state EXCEPT !.result = [kind |-> "result", rows |-> rows]]
                  /\ calls' = Chain(calls, i, [op |-> "download"])
     \/ End(i, [state EXCEPT !.result = ErrorResult, !.executing = FALSE])

executeBatchShowObject ==
  /\ ~state.batchExecuting
  /\ IF state.batchSelected = {} \/ state.batchTargets = {}
     THEN Show([state EXCEPT !.batchResult = ErrorResult])
     ELSE /\ CanPost(calls)
          /\ state' = [state EXCEPT !.batchExecuting = TRUE, !.batchResult = [kind |-> "running"]]
          /\ calls' = Post(calls, [op |-> "executeBatch", targets |-> state.batchTargets,
                                   objects |-> state.batchSelected])

AnswerBatch(i) ==
  LET call == calls[i] IN
  /\ call.op = "executeBatch"
  /\ \/ /\ state' = [state EXCEPT !.batchResult = [kind |-> "result",
                                                   rows |-> call.targets \X call.objects]]
        /\ calls' = Chain(calls, i, [op |-> "batchDownload"])
     \/ End(i, [state EXCEPT !.batchResult = ErrorResult, !.batchExecuting = FALSE])

\* Downloads come after the result, which one that fails takes away.
AnswerDownload(i) ==
  \/ /\ calls[i].op = "download"
     /\ \E result \in {state.result, ErrorResult} :
          End(i, [state EXCEPT !.result = result, !.executing = FALSE])
  \/ /\ calls[i].op = "batchDownload"
     /\ \E result \in {state.batchResult, ErrorResult} :
          End(i, [state EXCEPT !.batchResult = result, !.batchExecuting = FALSE])

SingleShowPanel ==
  executeShowObject \/ \E object \in state.options : changeShowObject(object)

BatchShowInputPanel ==
  \/ executeBatchShowObject
  \/ \E targets \in SUBSET Targets \ {state.batchTargets} : loadBatchShowObjects(targets)
  \/ \E object \in state.batchOptions : changeBatchShowObject(object)

Next ==
  \/ setRouteContext \/ notifyCustomShowObjectsChanged \/ SingleShowPanel \/ BatchShowInputPanel
  \/ \E i \in DOMAIN calls : \/ refreshObjectOptions(i) \/ AnswerBatchObjects(i)
                             \/ AnswerExecute(i) \/ AnswerBatch(i) \/ AnswerDownload(i)

Spec == Init /\ [][Next]_<<state, calls>>

-----------------------------------------------------------------------------
\* The store and the calls have their types.
TypeOK ==
  /\ state \in ShowState
  /\ DOMAIN calls \subseteq CallIds
  /\ \A i \in DOMAIN calls : calls[i] \in Call

\* What can be chosen for a batch, once it is ready, is known to the profile of each
\* of its present targets, in whatever order the lists of earlier targets arrive; and
\* nothing else is chosen.
ChoicesFitTargets ==
  /\ state.availability = "ready" =>
       /\ state.batchOptions = Common(profilesOf(state.batchTargets))
       /\ \A t \in state.batchTargets : ProfileOf[t] # None
  /\ state.availability # "loading" => state.batchSelected \subseteq state.batchOptions
  /\ state.selected \subseteq state.options

\* The rows of one run are all of one connection, the one it was started on, though
\* another may be selected between two of its objects.
RunKeepsItsTarget ==
  state.result.kind = "result" =>
    Cardinality({row[1] : row \in state.result.rows}) = 1

\* What is shown as running or loading has a call in flight that ends it.
BusyIsPending ==
  /\ state.executing = \E i \in DOMAIN calls : calls[i].op \in {"execute", "download"}
  /\ state.batchExecuting = \E i \in DOMAIN calls : calls[i].op \in {"executeBatch", "batchDownload"}
  /\ state.result.kind = "running" => state.executing
  /\ state.batchResult.kind = "running" => state.batchExecuting
  /\ state.availability = "loading" => Pending(calls, state.batchSeq, "batchObjects")
=============================================================================
