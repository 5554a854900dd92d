------------------------------ MODULE Dashboard ------------------------------
(***************************************************************************)
(* The frame of the console: the routes of its pages, the managed agent    *)
(* mode and its token, the protected resources, the theme, the language and *)
(* the components that are loaded when they are first shown.                *)
(*                                                                          *)
(* The frame exists while its user is signed in, and it is started again    *)
(* whenever what the login displays is recomputed: when the user signs in,  *)
(* and when the language changes.  A start awaits one tick, in which the    *)
(* browser handles no event, so it is one step.                             *)
(***************************************************************************)
EXTENDS Requests, FiniteSets, Sequences

CONSTANTS Routes, Default,       \* routes, named by their paths; the first one
          TabOf, TxStageOf,        \* tab and stage of each route
          Aliases,               \* old paths: function to routes
          Overlays,              \* sequence: what Escape closes, the topmost first
          Tokens,                \* tokens that can be typed
          None                   \* no stage, no token, no call

\* The pages that only a managed agent has, and those that only others have.
ManagedTabs == {"tasks"}
OtherTabs == {"schedules", "config-history"}
DEFAULT_TAB == "command"
Stages == {"workflow", "orchestrate"}
Tabs == {TabOf[r] : r \in Routes}
OverlayIds == {Overlays[i] : i \in DOMAIN Overlays}

DashboardAssumption ==
  /\ Default \in Routes /\ DEFAULT_TAB \in Tabs /\ None \notin Stages \cup Tokens
  /\ \A r \in Routes : TxStageOf[r] \in Stages \cup {None}
  /\ \A p \in DOMAIN Aliases : p \notin Routes /\ Aliases[p] \in Routes
  /\ Tabs \cap OverlayIds = {} /\ TabOf[Default] \notin ManagedTabs \cup OtherTabs

VARIABLES state, calls

\* Addresses that are no route's.
Root == "/"
Elsewhere == "elsewhere"
Paths == Routes \cup DOMAIN Aliases \cup {Root, Elsewhere}

routeByPath(path) ==
  IF path \in Routes THEN path ELSE IF path \in DOMAIN Aliases THEN Aliases[path] ELSE Default

themeModeOptions == {"system", "light", "dark"}
resolveThemeMode(mode, systemDark) ==
  IF mode # "system" THEN mode ELSE IF systemDark THEN "dark" ELSE "light"

Call ==
  [op: {"body", "agent", "logout"}] \cup [op: {"refresh"}, step: {"modules", "lists"}]
  \cup [op: {"language"}, language: {"en", "zh"}]

\* agent: the server is a managed agent; token: the one that is stored, and urlToken the
\* one of the address; field: the one in the panel, set up for panelManaged.  The
\* components are those of the frame that is mounted.
Init ==
  /\ \E path \in Paths, agent \in BOOLEAN, mode \in themeModeOptions, token \in {None} \cup Tokens :
       state = [authenticated |-> FALSE, agent |-> agent, path |-> path, visited |-> {path},
                currentTab |-> DEFAULT_TAB, currentTxStage |-> "workflow", managed |-> FALSE,
                ready |-> FALSE, token |-> None, urlToken |-> token,
                field |-> None, panelManaged |-> FALSE,
                mode |-> mode, systemDark |-> FALSE, theme |-> resolveThemeMode(mode, FALSE),
                language |-> "zh", dictionaries |-> {"zh"}, storedLanguage |-> "zh",
                body |-> "none", bodyLoad |-> NoCall,
                components |-> {}, loading |-> {}, failed |-> {}, open |-> {}]
  /\ calls = NoCalls

-----------------------------------------------------------------------------
(***************************************************************************)
(* Pages: what is shown, and the components that are loaded for it.         *)
(***************************************************************************)
normalizeTab(tab, managed) ==
  IF tab \in (IF managed THEN OtherTabs ELSE ManagedTabs) THEN DEFAULT_TAB ELSE tab

isDashboardTabActive(s, tab) ==
  /\ s.currentTab = tab
  /\ tab \in ManagedTabs => s.managed
  /\ tab \in OtherTabs => ~s.managed
activePages(s) == {tab \in Tabs : isDashboardTabActive(s, tab)}

Mounted(s) == s.authenticated /\ s.body = "loaded"

\* A component is loaded once; one that could not be is loaded again when it is ensured again.
ensure(s, ids) ==
  IF Mounted(s) THEN [s EXCEPT !.loading = @ \cup (ids \ s.components)] ELSE s

\* The panel takes the stored token when the frame turns out to be an agent's.
setPanelContextAlways(s) ==
  IF ~Mounted(s) THEN s
  ELSE [s EXCEPT !.panelManaged = s.managed, !.field = IF s.managed THEN s.token ELSE None]

setPanelContext(s) ==
  IF ~Mounted(s) \/ s.managed = s.panelManaged THEN s
  ELSE [s EXCEPT !.panelManaged = s.managed, !.field = IF s.managed THEN s.token ELSE None]

\* What follows every change of the state of the frame, and of its overlays.
applyShellState(s) == setPanelContext(ensure(s, activePages(s)))
applyHostDisplay(s) == ensure(s, s.open)
MountedEffects(s) == applyHostDisplay(applyShellState(s))

setDashboardTab(s, tab) == [s EXCEPT !.currentTab = normalizeTab(tab, s.managed)]

setManagedKeepingTab(s, managed) == [s EXCEPT !.managed = managed]

setDashboardManagedAgentMode(s, managed) ==
  [s EXCEPT !.managed = managed, !.currentTab = normalizeTab(@, managed)]

applyRouteTabAlone(s, route) == setDashboardTab(s, TabOf[route])

applyDashboardRoute(s, route) ==
  LET onTab == setDashboardTab(s, TabOf[route])
  IN IF TxStageOf[route] = None THEN onTab ELSE [onTab EXCEPT !.currentTxStage = TxStageOf[route]]

\* The sidebar lists the routes that the mode has, and sets their tabs as they are.
Visible(route) ==
  /\ TabOf[route] \in ManagedTabs => state.managed
  /\ TabOf[route] \in OtherTabs => ~state.managed

navigateDashboardRoute(route) ==
  /\ Visible(route)
  /\ state' = applyShellState(
       [state EXCEPT !.path = route, !.visited = @ \cup {route}, !.currentTab = TabOf[route],
                     !.currentTxStage = IF TxStageOf[route] = None THEN @ ELSE TxStageOf[route]])
  /\ UNCHANGED calls

\* Back and forward; heard while the router is there.
handlePopState ==
  \E path \in state.visited \ {state.path} :
    LET s == [state EXCEPT !.path = path] IN
    /\ state' = IF s.ready THEN applyShellState(applyDashboardRoute(s, routeByPath(path))) ELSE s
    /\ UNCHANGED calls

\* A component or an error takes the place of the load.
LoadedComponent(id) ==
  /\ \/ state' = [state EXCEPT !.loading = @ \ {id}, !.failed = @ \ {id}, !.components = @ \cup {id}]
     \/ state' = [state EXCEPT !.loading = @ \ {id}, !.failed = @ \cup {id}]
  /\ UNCHANGED calls

-----------------------------------------------------------------------------
(***************************************************************************)
(* Start and end of the frame.                                              *)
(***************************************************************************)
\* What a start posts; it needs two free calls at most.
CanStart(cs) == Cardinality(Free(cs)) >= 2

initializeDashboardStatePreferences(s) ==
  [s EXCEPT !.theme = resolveThemeMode(s.mode, s.systemDark)]

initDashboardRouter(s) ==
  LET path == IF s.path = Root THEN Default ELSE s.path
      replaced == [s EXCEPT !.path = path, !.visited = (@ \ {s.path}) \cup {path}]
  IN applyDashboardRoute(IF s.path = Root THEN replaced ELSE s, routeByPath(path))

\* The token of the address is stored and taken out of it.
maybePersistAgentTokenFromUrl(s) ==
  IF s.urlToken = None THEN s ELSE [s EXCEPT !.token = s.urlToken, !.urlToken = None]

\* A load in flight is taken for the one this start needs.
ensureBodyUnlessLoading(s, cs) ==
  IF s.body # "none" \/ \E i \in DOMAIN cs : cs[i].op = "body"
  THEN [state |-> s, calls |-> cs]
  ELSE [state |-> [s EXCEPT !.bodyLoad = NextId(cs)], calls |-> Post(cs, [op |-> "body"])]

\* Each start loads the body anew until it is there; the earlier load is cancelled.
ensureDashboardBodyComponentLoaded(s, cs) ==
  IF s.body # "none" THEN [state |-> s, calls |-> cs]
  ELSE [state |-> [s EXCEPT !.bodyLoad = NextId(cs)], calls |-> Post(cs, [op |-> "body"])]

startWithoutPreferences(s, cs) ==
  LET begun == initDashboardRouter([maybePersistAgentTokenFromUrl(s) EXCEPT !.ready = TRUE])
      withBody == ensureDashboardBodyComponentLoaded(MountedEffects(begun), cs)
  IN [state |-> withBody.state, calls |-> Post(withBody.calls, [op |-> "agent"])]

startDashboardAppBootstrap(s, cs) ==
  LET preferred == initializeDashboardStatePreferences(s)
      begun == initDashboardRouter(
                 [maybePersistAgentTokenFromUrl(preferred) EXCEPT !.ready = TRUE])
      withBody == ensureDashboardBodyComponentLoaded(MountedEffects(begun), cs)
  IN [state |-> withBody.state, calls |-> Post(withBody.calls, [op |-> "agent"])]

\* The router and the listener go, a load of the body is cancelled, and with the body
\* go its panel and its registries.
Stopped(s) ==
  [s EXCEPT !.ready = FALSE, !.bodyLoad = NoCall]
Unmounted(s) ==
  [s EXCEPT !.field = None, !.panelManaged = FALSE, !.components = {}, !.loading = {},
            !.failed = {}]

Started(s, cs) ==
  /\ CanStart(cs)
  /\ LET next == startDashboardAppBootstrap(Stopped(s), cs)
     IN state' = next.state /\ calls' = next.calls

\* The login tells that the user is signed in, or no longer is.
SignIn == ~state.authenticated /\ Started([state EXCEPT !.authenticated = TRUE], calls)
SignOut ==
  /\ state.authenticated
  /\ state' = Unmounted([Stopped(state) EXCEPT !.authenticated = FALSE]) /\ UNCHANGED calls

AnswerBody(i) ==
  /\ calls[i].op = "body" /\ calls' = Settle(calls, i)
  /\ IF state.bodyLoad # i THEN UNCHANGED state
     ELSE \E body \in {"loaded", "error"} :
            state' = MountedEffects([state EXCEPT !.body = body, !.bodyLoad = NoCall])

\* A server that does not answer is taken for one that is no agent; an agent without
\* a token waits for one.
AnswerAgent(i) ==
  /\ calls[i].op = "agent"
  /\ \E managed \in {state.agent, FALSE} :
       LET s == applyShellState(setDashboardManagedAgentMode(state, managed)) IN
       /\ state' = s
       /\ calls' = IF managed /\ s.token = None THEN Settle(calls, i)
                   ELSE Chain(calls, i, [op |-> "refresh", step |-> "modules"])

\* The lists are asked for when the modules are there; nothing depends on their answers.
AnswerModules(i) ==
  /\ calls[i].op = "refresh" /\ calls[i].step = "modules" /\ UNCHANGED state
  /\ \/ calls' = Chain(calls, i, [calls[i] EXCEPT !.step = "lists"])
     \/ calls' = Settle(calls, i)
AnswerLists(i) ==
  /\ calls[i].op = "refresh" /\ calls[i].step = "lists"
  /\ calls' = Settle(calls, i) /\ UNCHANGED state

-----------------------------------------------------------------------------
(***************************************************************************)
(* The panel of the token, the preferences and the overlays.                *)
(***************************************************************************)
setAgentToken == \E token \in Tokens \cup {None} :
  state' = [state EXCEPT !.field = token] /\ UNCHANGED calls

clearAgentTokenState ==
  state' = [state EXCEPT !.field = None, !.token = None] /\ UNCHANGED calls

saveAgentTokenState ==
  /\ state' = [state EXCEPT !.token = state.field]
  /\ IF state.field = None THEN UNCHANGED calls
     ELSE CanPost(calls) /\ calls' = Post(calls, [op |-> "refresh", step |-> "modules"])

DashboardAgentAuthPanel ==
  state.managed /\ (setAgentToken \/ clearAgentTokenState \/ saveAgentTokenState)

\* The settings are changed and stored.
WithMode(s, mode) ==
  applyShellState([s EXCEPT !.mode = mode, !.theme = resolveThemeMode(mode, s.systemDark)])
onDashboardThemeSettingsChange ==
  \E mode \in themeModeOptions \ {state.mode} : state' = WithMode(state, mode) /\ UNCHANGED calls

\* The system changes its colours, which only a frame that listens hears.
SystemThemeChanges ==
  LET s == [state EXCEPT !.systemDark = ~@] IN
  /\ state' = IF s.ready /\ s.mode = "system" THEN WithMode(s, "system") ELSE s
  /\ UNCHANGED calls

setCurrentLanguage(s, language) ==
  [s EXCEPT !.language = language, !.storedLanguage = language, !.dictionaries = @ \cup {language}]

changeDashboardLanguage == \E language \in {"en", "zh"} :
  IF language \in state.dictionaries THEN Started(setCurrentLanguage(state, language), calls)
  ELSE /\ CanPost(calls) /\ UNCHANGED state
       /\ calls' = Post(calls, [op |-> "language", language |-> language])

AnswerLanguage(i) ==
  /\ calls[i].op = "language"
  /\ \/ LET s == setCurrentLanguage(state, calls[i].language) IN
        IF s.authenticated THEN Started(s, Settle(calls, i))
        ELSE state' = s /\ calls' = Settle(calls, i)
     \/ UNCHANGED state /\ calls' = Settle(calls, i)

logoutWebSession ==
  /\ ~state.managed
  /\ CanPost(calls) /\ calls' = Post(calls, [op |-> "logout"]) /\ UNCHANGED state

\* Logged out or not, the page is loaded anew; what is stored stays.
reloadBrowser(i) ==
  /\ calls[i].op = "logout" /\ calls' = NoCalls
  /\ state' = [state EXCEPT !.authenticated = FALSE, !.visited = {state.path},
                  !.currentTab = DEFAULT_TAB, !.currentTxStage = "workflow", !.managed = FALSE,
                  !.ready = FALSE, !.body = "none", !.bodyLoad = NoCall,
                  !.field = None, !.panelManaged = FALSE,
                  !.language = state.storedLanguage, !.dictionaries = {state.storedLanguage},
                  !.theme = resolveThemeMode(state.mode, state.systemDark),
                  !.components = {}, !.loading = {}, !.failed = {}, !.open = {}]

DashboardPreferenceTools ==
  onDashboardThemeSettingsChange \/ changeDashboardLanguage \/ logoutWebSession

\* Other parts open overlays; Escape closes the topmost one that is open.
openOverlay == \E id \in OverlayIds \ state.open :
  state' = applyHostDisplay([state EXCEPT !.open = @ \cup {id}]) /\ UNCHANGED calls

Topmost(open) ==
  Overlays[CHOOSE i \in DOMAIN Overlays :
             Overlays[i] \in open /\ \A j \in 1..(i - 1) : Overlays[j] \notin open]

closeTopDashboardOverlayOnEscape ==
  /\ state.open # {}
  /\ state' = applyHostDisplay([state EXCEPT !.open = @ \ {Topmost(state.open)}])
  /\ UNCHANGED calls

DashboardSidebar == \E route \in Routes : navigateDashboardRoute(route)
DashboardOverlayHost == openOverlay \/ closeTopDashboardOverlayOnEscape
DashboardBody ==
  /\ Mounted(state)
  /\ \/ DashboardSidebar \/ DashboardAgentAuthPanel \/ DashboardPreferenceTools
     \/ DashboardOverlayHost

Next ==
  \/ SignIn \/ SignOut \/ handlePopState \/ SystemThemeChanges
  \/ DashboardBody
  \/ \E id \in state.loading : LoadedComponent(id)
  \/ \E i \in DOMAIN calls :
       AnswerBody(i) \/ AnswerAgent(i) \/ AnswerModules(i) \/ AnswerLists(i) \/ AnswerLanguage(i)
       \/ reloadBrowser(i)

-----------------------------------------------------------------------------
TypeOK ==
  /\ state \in
       [authenticated: BOOLEAN, agent: BOOLEAN, path: Paths, visited: SUBSET Paths,
        currentTab: Tabs, currentTxStage: Stages, managed: BOOLEAN, ready: BOOLEAN,
        token: Tokens \cup {None}, urlToken: Tokens \cup {None}, field: Tokens \cup {None},
        panelManaged: BOOLEAN, mode: themeModeOptions, systemDark: BOOLEAN,
        theme: {"light", "dark"}, language: {"en", "zh"}, dictionaries: SUBSET {"en", "zh"},
        storedLanguage: {"en", "zh"}, body: {"none", "loaded", "error"},
        bodyLoad: CallIds \cup {NoCall}, components: SUBSET (Tabs \cup OverlayIds),
        loading: SUBSET (Tabs \cup OverlayIds), failed: SUBSET (Tabs \cup OverlayIds),
        open: SUBSET OverlayIds]
  /\ DOMAIN calls \subseteq CallIds /\ \A i \in DOMAIN calls : calls[i] \in Call

\* There is always a page to show, whichever mode the server is found to be in after a
\* route was followed, and it is the page of the address unless that one was hidden.
PageIsOfPath ==
  state.ready =>
    LET route == routeByPath(state.path) IN
    /\ activePages(state) # {}
    /\ TabOf[route] \in {state.currentTab} \cup ManagedTabs \cup OtherTabs
    /\ TxStageOf[route] \in {None, state.currentTxStage}

\* While somebody is signed in the colours are those of the preference, also of a system
\* that changed its own when nobody was.
ThemeIsResolved ==
  state.authenticated => state.theme = resolveThemeMode(state.mode, state.systemDark)

\* What is shown without its component is being loaded, or has an error: the body by
\* the load of the present start, which no later start will cancel and not replace.
LoadingIsPending ==
  /\ state.authenticated /\ state.body = "none" => Pending(calls, state.bodyLoad, "body")
  /\ Mounted(state) =>
       activePages(state) \cup state.open \subseteq
         state.components \cup state.loading \cup state.failed

\* A token that is being typed is changed by its panel alone while the panel is there,
\* however often the frame is started again meanwhile.
FieldIsKept ==
  state.panelManaged /\ state'.panelManaged /\ state'.field # state.field => DashboardAgentAuthPanel
=============================================================================
