--------------------------- MODULE ConfigFetchPage ---------------------------
(***************************************************************************)
(* The page that fetches configurations from one device or several: the     *)
(* kinds the selected device offers, the result of the last fetch, and the  *)
(* history of fetches, which outlives a reload of the console.              *)
(***************************************************************************)
EXTENDS Requests, ExecutionHistory

CONSTANTS Profiles,    \* device profiles, which decide the kinds
          AllProfiles, \* the catalog for several targets
          Kinds,       \* kinds of configuration
          None,
          MaxEntries,  \* bound: fetches in one behaviour
          Limit        \* entries the history keeps

VARIABLES state, calls

ConfigFetchAssumption ==
  /\ None \notin Kinds \cup Profiles
  /\ AllProfiles \notin Profiles
  /\ MaxEntries \in Nat /\ Limit \in Nat \ {0}

vars == <<state, calls>>

Entries == 1..MaxEntries
CatalogProfiles == Profiles \cup {AllProfiles, None}

\* The configurations of two devices, so many of which could not be fetched.
Fetched(failures) ==
  [n \in 1..2 |-> [device |-> n, command |-> "c", output |-> Null, all |-> Null,
     error |-> IF n <= failures THEN {"error"} ELSE Null, success |-> {}, exit_code |-> "unset",
     object |-> "", parsed_output |-> {}, parse_error |-> FALSE, normalized_content |-> Null]]

\* started: identifiers of history entries that were handed out.
ConfigFetchState ==
  [catalog: {"idle", "loading", "ready", "error"}, options: SUBSET Kinds,
   catalogOf: CatalogProfiles, kind: Kinds \cup {None},
   batch: BOOLEAN, target: Profiles \cup {None},
   result: {"empty", "running", "result", "error"},
   history: Seq(HistoryEntry(Entries, {"config-fetch"},
                             {Fetched(f) : f \in 0..2} \cup {<<>>}, {{}})),
   started: 0..MaxEntries, catalogVersion: CallIds \cup {NoCall}]

Call == [op: {"catalog"}, profile: Profiles \cup {AllProfiles}]
          \cup [op: {"fetch"}, entry: Entries]

Fresh(history, started, target) ==
  [catalog |-> "idle", options |-> {}, catalogOf |-> None,
   kind |-> CHOOSE k \in Kinds : TRUE, batch |-> FALSE, target |-> target,
   result |-> "empty", history |-> history, started |-> started,
   catalogVersion |-> NoCall]

Init ==
  /\ \E target \in Profiles \cup {None} : state = Fresh(<<>>, 0, target)
  /\ calls = NoCalls

-----------------------------------------------------------------------------
\* What the catalog is loaded for; the page loads it when this changes.
CatalogTarget(s) == IF s.batch \/ s.target = None THEN AllProfiles ELSE s.target

loadKindOptions(s) ==
  IF CatalogTarget(s) = s.catalogOf THEN state' = s /\ UNCHANGED calls
  ELSE /\ CanPost(calls)
       /\ state' = [s EXCEPT !.catalog = "loading", !.options = {},
                             !.catalogOf = CatalogTarget(s),
                             !.catalogVersion = NextId(calls)]
       /\ calls' = Post(calls, [op |-> "catalog", profile |-> CatalogTarget(s)])

\* The page is opened, another device is selected, or one or several are meant.
ConfigFetchEffect ==
  \/ loadKindOptions(state) /\ state.catalogOf = None
  \/ \E target \in (Profiles \cup {None}) \ {state.target} :
       loadKindOptions([state EXCEPT !.target = target])
  \/ loadKindOptions([state EXCEPT !.batch = ~@])

CatalogCountsAlways(i) == TRUE
CatalogCounts(i) == i = state.catalogVersion

\* A kind that the catalog does not offer gives way to one that it does.
AnswerCatalog(i) ==
  /\ calls[i].op = "catalog"
  /\ IF ~CatalogCounts(i) THEN UNCHANGED state
     ELSE \/ \E options \in SUBSET Kinds :
               \E kind \in IF state.kind \in options THEN {state.kind}
                           ELSE IF options = {} THEN {None} ELSE options :
                 state' = [state EXCEPT !.catalog = "ready", !.options = options,
                                        !.catalogOf = calls[i].profile, !.kind = kind]
          \/ state' = [state EXCEPT !.catalog = "error", !.options = {},
                                    !.catalogOf = calls[i].profile]
  /\ calls' = Settle(calls, i)

configFetchKindAvailable == state.catalog = "ready" /\ state.kind \in state.options

selectKind(kind) ==
  /\ state.catalog # "loading" /\ kind \in state.options
  /\ state' = [state EXCEPT !.kind = kind]
  /\ UNCHANGED calls

\* Without a target nothing is fetched; several targets may be none at all.
execute ==
  /\ configFetchKindAvailable /\ state.result # "running"
  /\ \/ ~state.batch /\ state.target = None /\ UNCHANGED <<state, calls>>
     \/ state.batch /\ state' = [state EXCEPT !.result = "error"] /\ UNCHANGED calls
     \/ LET id == state.started + 1 IN
        /\ state.batch \/ state.target # None
        /\ CanPost(calls) /\ id \in Entries
        /\ state' = [state EXCEPT !.result = "running", !.started = id,
                                  !.history = startHistory(@, Limit, id, "config-fetch", state.batch, FALSE, id)]
        /\ calls' = Post(calls, [op |-> "fetch", entry |-> id])

AnswerFetch(i) ==
  /\ calls[i].op = "fetch"
  /\ \/ \E failures \in 0..2 : \E failed \in BOOLEAN :
          state' = [state EXCEPT !.result = "result",
                      !.history = finish(@, calls[i].entry, Fetched(failures), FALSE, failed, {})]
     \/ state' = [state EXCEPT !.result = "error",
                    !.history = fail(@, calls[i].entry)]
  /\ calls' = Settle(calls, i)

\* The browser reloads the console: only the stored history is left.
Reload ==
  /\ \E target \in Profiles \cup {None} :
       state' = Fresh(parseExecutionHistory(state.history, Limit), state.started, target)
  /\ calls' = NoCalls

Next ==
  \/ ConfigFetchEffect \/ execute \/ Reload
  \/ \E kind \in Kinds \ {state.kind} : selectKind(kind)
  \/ \E i \in DOMAIN calls : AnswerCatalog(i) \/ AnswerFetch(i)

Spec == Init /\ [][Next]_vars

-----------------------------------------------------------------------------
\* The stores, the history and the calls have their types.
TypeOK ==
  /\ state \in ConfigFetchState /\ Len(state.history) <= Limit
  /\ DOMAIN calls \subseteq CallIds
  /\ \A i \in DOMAIN calls : calls[i] \in Call

\* The kinds on offer are those of the device that is selected, or of all
\* devices when several are meant: a fetch never asks for a kind of another one.
CatalogIsOfTarget ==
  state.catalog # "idle" => state.catalogOf = CatalogTarget(state)

\* What is shown as loading or running has a call in flight; so has an entry of
\* the history, also after reloads.
BusyIsPending ==
  /\ state.catalog = "loading" => Pending(calls, state.catalogVersion, "catalog")
  /\ state.result = "running" => \E i \in DOMAIN calls : calls[i].op = "fetch"
  /\ \A n \in DOMAIN state.history :
       state.history[n].status = "running" =>
         \E i \in DOMAIN calls : /\ calls[i].op = "fetch"
                                 /\ calls[i].entry = state.history[n].id
=============================================================================
