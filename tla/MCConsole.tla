------------------------------- MODULE MCConsole -------------------------------
(***************************************************************************)
(* The pages, workspaces and editors of the console.  Each is alone with its *)
(* store and its calls, so one run checks them side by side: focus is the   *)
(* one the behaviour is about.  Where texts are edited or operations       *)
(* counted, behaviours are cut after Budget steps, left of which are to     *)
(* come; a call and its answer are one step each.                           *)
(***************************************************************************)
EXTENDS Naturals, FiniteSets, Sequences, TLC

CONSTANTS CallIds, a, b, None,
          Focuses   \* the pages of a run

VARIABLES focus, left, state, calls

vars == <<focus, left, state, calls>>

Items == {a, b}
Symmetry == Permutations(Items)

\* A run that has failed, with events of every group, and one that is not yet known of.
Event(type, stage, message) ==
  [type |-> type, level |-> IF type = "failed" THEN "error" ELSE "info", stage |-> stage, message |-> message]
Tasks == INSTANCE TasksPage
  WITH Tasks <- {1, 2}, Queries <- {"all", "failed"}, DefaultQuery <- "all",
       Words <- {"w"}, MaxFilters <- 1,
       RunOf <- <<[status |-> "success", outcome |-> "failed", recording |-> TRUE, error |-> TRUE,
                   started |-> {5}, completed |-> {4}, words |-> {"w"}],
                  [status |-> "queued", outcome |-> None, recording |-> FALSE, error |-> FALSE,
                   started |-> {}, completed |-> {}, words |-> {}]>>,
       DetailOf <- <<[recordingAvailable |-> TRUE, counts |-> {[total |-> 2, succeeded |-> 1, failed |-> 1]},
                      events |-> <<Event("started", {}, {}), Event("step", {"audit"}, {"w"}),
                                   Event("step", {"w"}, {}), Event("step", {}, {"callback"}),
                                   Event("failed", {"report"}, {})>>,
                      artifacts |-> <<[type |-> "recording_jsonl", name |-> "x"], [type |-> "", name |-> "y"],
                                      [type |-> "recording_jsonl", name |-> "z"]>>],
                     [recordingAvailable |-> FALSE, counts |-> {}, events |-> <<>>, artifacts |-> <<>>]>>

ConfigHistory == INSTANCE ConfigHistoryPage
  WITH Devices <- Items, Snapshots <- {1, 2}, Queries <- {"all", "bad"},
       DefaultQuery <- "all", InvalidQuery <- "bad"

Inventory == INSTANCE InventoryPage WITH Names <- Items

Discovery == INSTANCE DiscoveryPage WITH Runs <- Items, Endpoints <- {1}

Credentials == INSTANCE CredentialsPage WITH Ids <- Items

Auth == INSTANCE AuthPage

ConfigFetch == INSTANCE ConfigFetchPage
  WITH Profiles <- {"ios"}, AllProfiles <- "all", Kinds <- {"running", "startup"},
       MaxEntries <- 3, Limit <- 2

Execution == INSTANCE ExecutionTemplate
  WITH Names <- {"k", "l"}, Contents <- {"x", "y"}, Draft <- "x", Invalid <- "bad"

Content == INSTANCE ContentTemplates
  WITH Kinds <- {"command", "json"}, FirstKind <- "command", Names <- {"k", "l"},
       Builtins <- {"l"}, Contents <- {"x", "y"}, DefaultContent <- "x",
       Inspected <- {"command"}

Forms == INSTANCE ResourceForms WITH Ids <- {"k", "l"}

ConfigRows == INSTANCE ConfigCatalog
  WITH Profiles <- {"p", "q"},
       ModesOf <- [p \in {"p", "q"} |-> IF p = "p" THEN {"m", "n"} ELSE {"n", "o"}]

ProfileOf == [t \in {"s", "t", "u"} |-> CASE t = "s" -> "p" [] t = "t" -> "q" [] t = "u" -> None]
Show == INSTANCE ShowPage
  WITH Targets <- DOMAIN ProfileOf, Objects <- {"arp", "mac"},
       Catalog <- [p \in {"p", "q"} |-> IF p = "p" THEN {"arp", "mac"} ELSE {"mac"}]

Command == INSTANCE CommandPage
  WITH Names <- {"k"}, Contents <- {"x", "y"}, Connections <- {"s"},
       Vars <- {1, 2}, NoVars <- 1

ProfilesOf == INSTANCE ProfilesPage
  WITH Builtins <- {"ios"}, Customs <- {"c", "d"}, CopyOf <- [n \in {"ios"} |-> "c"],
       Fallback <- "fallback", MaxRefreshes <- 2

\* The editors of documents make no calls.
Tree == INSTANCE WorkflowTree
Choice == [Tree!NewNode("choice", "new") EXCEPT
             !.kids = <<Tree!Kid(1, <<Tree!Plain("new")>>), Tree!Kid(1, <<>>), Tree!Kid(0, <<>>)>>]

Workflow == INSTANCE TxWorkflowEditor
  WITH Contents <- {"new", "other"}, NewContent <- "new", MaxBlocks <- 4,
       Texts <- {[blocks |-> <<>>, failFast |-> {}],
                 [blocks |-> <<Tree!Plain("other"), Choice>>, failFast |-> {FALSE}]}

Op(kind, command, prompts, flow) ==
  [kind |-> kind, command |-> command, prompts |-> prompts, flow |-> flow,
   draft |-> {}, editor |-> {}]
NoOp == Op("none", <<>>, FALSE, <<>>)
Runs(run, rollback) == Tree!Plain([run |-> run, rollback |-> rollback, onFailure |-> {TRUE}])
Control(kind, kids) ==
  [Tree!Plain([run |-> NoOp, rollback |-> NoOp, onFailure |-> {}]) EXCEPT !.kind = kind, !.kids = kids]
Line(command) == Op("command", <<command>>, FALSE, <<>>)
\* Two blocks as they are written; one that leaves out its flag, the trigger, the kinds of
\* its operations and the branches of a choice; one with a policy and a kind of step there
\* are not, and without operations; and one with an operation in a loop that is no command.
Block == INSTANCE TxBlockEditor
  WITH Commands <- {<<"a">>, <<"a", "b">>}, MaxSteps <- 4,
       Loaded <-
         {[policy |-> [kind |-> "per_step", rollback |-> NoOp, trigger |-> {}],
           failFast |-> {FALSE},
           steps |-> <<Runs(Op("flow", <<>>, FALSE, <<<<"a">>>>), Op("command", <<>>, TRUE, <<>>))>>],
          [policy |-> [kind |-> "whole_resource", trigger |-> {2}, rollback |-> Line("c")],
           failFast |-> {TRUE},
           steps |-> <<Runs(Op("command", <<"a", "b">>, FALSE, <<>>), NoOp),
                       Runs(Line("c"), NoOp)>>],
          [policy |-> [kind |-> "whole_resource", trigger |-> {}, rollback |-> Op("", <<"c">>, FALSE, <<>>)],
           failFast |-> {},
           steps |-> <<Runs(Op("", <<"a", "b">>, FALSE, <<>>), NoOp),
                       Control("condition", <<Tree!Kid(1, <<Runs(Line("b"), Op("", <<"c">>, TRUE, <<>>))>>),
                                              Tree!Kid(0, <<>>)>>)>>],
          [policy |-> [kind |-> "unknown", trigger |-> {}, rollback |-> NoOp],
           failFast |-> {FALSE}, steps |-> <<Control("unknown", <<>>), Runs(Line("a"), NoOp)>>],
          [policy |-> [kind |-> "per_step", rollback |-> NoOp, trigger |-> {}], failFast |-> {TRUE},
           steps |-> <<Runs(Line("a"), NoOp),
                       Control("loop", <<Tree!Kid(0, <<Runs(Op("unknown", <<"a">>, FALSE, <<>>), NoOp)>>)>>)>>]}

Cmd(text, prompts) == [text |-> text, prompts |-> prompts]
HookOf(name, kind, commands) == [name |-> name, kind |-> kind, commands |-> commands]
Rules == <<[pattern |-> "t", weight |-> "50"]>>
Profile == INSTANCE ProfileForm
  WITH Texts <- {"t"}, Modes <- {"m", "n"}, Blank <- "", Bad <- "bad", Default <- "default",
       Markers <- {"exit"}, DefaultMarker <- "status", MaxRows <- 2,
       Loadable <-
         {[execution |-> [kind |-> "shell_exit_status", marker |-> "exit"], simple |-> <<"t">>,
           prompts |-> <<[state |-> "m", patterns |-> <<"t">>]>>,
           hooks |-> <<HookOf("t", "flow", <<Cmd("t", <<TRUE>>)>>)>>,
           stateHooks |-> <<[state |-> "m", hooks |-> <<HookOf("t", "command", <<Cmd("t", <<>>)>>)>>],
                            [state |-> "n", hooks |-> <<HookOf("t", "command", <<Cmd("t", <<>>)>>)>>]>>,
           detect |-> [enabled |-> TRUE, rules |-> <<>>,
                       probes |-> <<[command |-> "t", errors |-> <<"t">>, rules |-> Rules]>>]]}

\* Two jobs of one template, and two of two with one of a workflow between them.
JobOf(action) == [id |-> 0, settings |-> "set", targets |-> {}, action |-> action]
OfName(name, given) ==
  JobOf([source |-> "workflow_template_name", workflow |-> {}, name |-> {name}, vars |-> given])
Nameless ==
  JobOf([source |-> "workflow_template_name", workflow |-> {}, name |-> {}, vars |-> 1])
OfBlocks(blocks) ==
  JobOf([source |-> "workflow_json", workflow |-> {blocks}, name |-> {}, vars |-> 1])
StageOf(jobs) == [settings |-> "set", jobs |-> jobs]
PlanOf(stages) == [settings |-> "set", stages |-> stages]
Plan == INSTANCE OrchestrationEditor
  WITH Names <- {"k", "l"}, Vars <- {1, 2}, NoVars <- 1, Settings <- {"set", "other"},
       Parallel <- {"other"}, NewSettings <- "set", Targets <- {"d"},
       Contents <- {"new", "other"}, NewContent <- "new", BlockHeight <- 150,
       MaxStages <- 3, MaxJobs <- 2, MaxBlocks <- 2,
       Texts <- {PlanOf(<<StageOf(<<OfName("k", 1), OfName("k", 2)>>), StageOf(<<OfBlocks(<<"other">>)>>)>>),
                 PlanOf(<<StageOf(<<OfName("k", 1), OfBlocks(<<>>)>>), StageOf(<<OfName("l", 1)>>)>>),
                PlanOf(<<StageOf(<<Nameless>>)>>)}

\* Two records of one device and one of another, the last without a recording.
Records == INSTANCE RecordHistory
  WITH Items <- {1, 2, 3}, DeviceOf <- <<"d", "d", "e">>, OperationOf <- <<"exec", "show", "exec">>,
       RecordingOf <- <<"x", "y", "">>, Blank <- "", Failing <- {"y"},
       Limits <- {1, 2}, DefaultLimit <- 2, Operations <- {"all", "show"}, All <- "all"

SchedulesOf == INSTANCE SchedulesPage
  WITH Schedules <- {"k", "new"}, NewId <- "new", ObjIds <- {"o", "p", "q"}

Routes == {"show", "command", "tasks", "orchestrate"}
Frame == INSTANCE Dashboard
  WITH CallIds <- 1..3, Routes <- Routes, Default <- "show",
       TabOf <- [r \in Routes |-> IF r = "orchestrate" THEN "orchestrated" ELSE r],
       TxStageOf <- [r \in Routes |-> IF r = "orchestrate" THEN "orchestrate" ELSE None],
       Aliases <- [p \in {"batch"} |-> "command"],
       Overlays <- <<"savedConnectionEditor", "connectionModal">>, Tokens <- {"t"}

\* An object that names one variable twice, one of a number and one of a document.
Pair(kind, text) == <<"v", <<kind, text>>>>
Running == INSTANCE ExecutionPage
  WITH Contents <- {"new", "other"}, Draft <- "new", Empty <- "", Invalid <- "bad", Targets <- {"d"},
       Keys <- {"", "v", "w"}, Blank <- "", Numerals <- {"0", "1"},
       Truths <- {"true", "1"}, Falsehoods <- {"false", "0"},
       Documents <- [text \in {"{}", "1", "true"} |->
                       CASE text = "{}" -> <<"json", "{}">> [] text = "1" -> <<"number", "1">>
                         [] text = "true" -> <<"boolean", "true">>],
       ValueTexts <- {"", "1", "true"},
       Objects <- {<<Pair("string", "1"), Pair("number", "1")>>,
                   <<Pair("json", "{}"), <<"w", <<"boolean", "true">>>>>>},
       MaxVars <- 2, MaxRuns <- 2

\* A template of each kind and the text of a new one; what cannot be read names nothing.
Doc(name, command, prompts) ==
  [name |-> name, command |-> command, timeout |-> "30", prompts |-> prompts]
Interactive == INSTANCE InteractivePage
  WITH Names <- {"k"}, Builtins <- {"l"}, Commands <- {"", "c", "d"}, Blank <- "",
       FieldsOf <- [c \in {"", "c", "d"} |->
                      CASE c = "c" -> {"n"} [] c = "d" -> {"n", "s"} [] OTHER -> {}],
       DefaultOf <- [f \in {"n", "s"} |-> IF f = "n" THEN "" ELSE "x"],
       Required <- {"n"}, Numeric <- {"n"}, AllowsEmpty <- {"s"},
       Values <- {"", "1", "x"}, Numerals <- {"1"}, Patterns <- {"", "p"},
       MaxPrompts <- 2, MaxRuns <- 1, Settings <- {1, 2}, NewSettings <- 1,
       Typed <- {Doc("k", "d", <<<<>>, <<"p">>>>), Doc("l", "c", <<<<"p", "">>>>)},
       Invalid <- Doc("bad", "bad", <<>>), Draft <- "draft"

\* Groups of the two forms of connections, labels that may be new, labels that may not,
\* devices, and the objects of a batch.
Picking == INSTANCE ConnectionPickers
  WITH Keys <- {"savedGroups", "savedLabels", "orchestrationTargetTags",
                "batchShowTargets", "batchShowObject"},
       Texts <- {"p", "q"}, DeviceLists <- {{}, {"p"}}, Selections <- {<<"p">>}, MaxChanges <- 1,
       Inventories <- {[groups |-> {"p"}, labels |-> {"q"}], [groups |-> {}, labels |-> {"p"}]}

\* Connections with a variable of each type, with a document, and with none.
FormOf(name, timeout, profile) ==
  [name |-> name, host |-> "h", credential |-> "c", timeout |-> timeout, profile |-> profile,
   model |-> "", enabled |-> "on"]
Filled == INSTANCE ConnectionForm
  WITH Kinds <- {"temporary", "editor"}, Blank <- "", Autodetect <- "autodetect",
       TextsOf <- [field \in {"name", "host", "credential", "timeout", "profile", "model", "enabled"} |->
                     CASE field = "name" -> {"", "k"} [] field = "host" -> {"", "h"}
                       [] field = "credential" -> {"", "c"} [] field = "timeout" -> {"", "bad"}
                       [] field = "profile" -> {"", "autodetect", "ios"}
                       [] field = "model" -> {"", "m"} [] field = "enabled" -> {"on", "off"}],
       BadTimeouts <- {"bad"}, Numerals <- {"1"}, Bad <- <<"bad", "">>,
       VarNames <- {"", "v", "w"}, VarTexts <- {"1", "x"}, MaxRows <- 2,
       Loadable <-
         {[form |-> FormOf("k", "", "ios"),
           given |-> <<<<"v", <<"number", "1">>>>, <<"w", <<"boolean", "false">>>>>>],
          [form |-> FormOf("k", "", ""),
           given |-> <<<<"v", <<"json", "{}">>>>, <<"w", <<"null", "">>>>>>]},
       Detectable <- {[profile |-> "ios", model |-> "m"], [profile |-> "ios", model |-> ""],
                      [profile |-> "", model |-> "m"]}

\* A batch with a good device and a bad one, a table with a column named device, and
\* what one device alone gives; a workflow that has failed in its second block, and an
\* orchestration that has been compensated.
Printout(device, object, success, error, parsed) ==
  [device |-> device, command |-> object, output |-> {"out"}, all |-> {"all", "out"}, error |-> error,
   success |-> success, exit_code |-> "unset", object |-> object, parsed_output |-> parsed,
   parse_error |-> FALSE, normalized_content |-> IF parsed = {} THEN {"plain"} ELSE {"null"},
   recording_jsonl |-> {"recording"}]
Table(columns) == {[kind |-> "rows", rows |-> <<[column \in columns |-> column]>>]}
Step(success) == [success |-> success, content |-> {"content"}, all |-> {"content", "all"}]
Part(steps, reason, rollback) ==
  [steps |-> steps, reason |-> reason, rollback |-> rollback, rollbackErrors |-> rollback # <<>>]
Target(status, compensation) ==
  [label |-> "d", status |-> status, recording_jsonl |-> {"recording"},
   compensation |-> compensation]
Staged(status, jobs, succeeded, failed) ==
  [status |-> status, jobs |-> jobs, jobs_succeeded |-> succeeded, jobs_failed |-> failed,
   jobs_skipped |-> 0]
Results == INSTANCE ExecutionResults
  WITH Features <- {"show", "tx-workflow", "orchestrate"}, Limits <- {1, 2}, MaxRuns <- 2,
       OutputsOf <- [f \in {"show"} |->
         {<<>>,
          <<Printout("d", "arp", {}, {"null"}, Table({"device"})),
            Printout("e", "arp", {FALSE}, {"failed"}, {}), Printout("d", "mac", {}, {"null"}, {})>>,
          <<Printout("d", "arp", {TRUE}, {"null"}, Table({"mac"})),
            [Printout("d", "mac", {}, {}, {}) EXCEPT !.exit_code = "nonzero", !.parse_error = TRUE]>>}],
       DetailsOf <- [f \in {"tx-workflow", "orchestrate"} |->
         IF f = "tx-workflow"
         THEN {[kind |-> f, result |-> {}],
               [kind |-> f, result |-> {[committed |-> FALSE, failedBlock |-> {2}, blocks |->
                 <<Part(<<[forward |-> <<Step(TRUE)>>, rollback |-> <<>>]>>, {}, <<>>),
                   Part(<<[forward |-> <<Step(FALSE)>>, rollback |-> <<Step(FALSE)>>]>>,
                        {"reason", "out"}, <<Step(FALSE)>>),
                   Part(<<>>, {"reason", "out"}, <<>>)>>]}]}
         ELSE {[kind |-> f, result |-> {[success |-> FALSE, stages |->
                 <<Staged("success", <<>>, 0, 0),
                   Staged("failed", <<[status |-> "failed", targets_succeeded |-> 1,
                                       targets_failed |-> 1, targets_skipped |-> 0, results |->
                     <<Target("success", {[recording_jsonl |-> {"recording"}]}),
                       Target("failed", {})>>]>>, 0, 1)>>]}]}],
       Legacy <- {<<[id |-> 1, batch |-> FALSE, started |-> 1, textfsm |-> FALSE, kind |-> "running",
                      results |-> <<Printout("d", "arp", {TRUE}, {"null"}, {})>>]>>}

ASSUME ConsoleAssumption ==
  /\ Tasks!CallIdsAssumption /\ Tasks!TasksAssumption
  /\ ConfigHistory!ConfigHistoryAssumption /\ Inventory!InventoryAssumption
  /\ Discovery!DiscoveryPageAssumption /\ Credentials!CredentialsAssumption
  /\ ConfigFetch!ConfigFetchAssumption
  /\ Execution!ExecutionTemplateAssumption /\ Content!ContentTemplatesAssumption
  /\ Forms!ResourceFormsAssumption /\ ConfigRows!ConfigCatalogAssumption
  /\ Show!ShowPageAssumption /\ Show!CatalogAssumption /\ Command!CommandPageAssumption
  /\ ProfilesOf!ProfilesPageAssumption /\ Plan!OrchestrationEditorAssumption
  /\ Records!RecordHistoryAssumption /\ SchedulesOf!SchedulesPageAssumption
  /\ Frame!DashboardAssumption /\ Running!ExecutionPageAssumption
  /\ Interactive!InteractivePageAssumption /\ Picking!ConnectionPickersAssumption
  /\ Filled!ConnectionFormAssumption /\ Results!ExecutionResultsAssumption

\* The longest behaviours of the workspaces that have no end of their own.
Budget == [tasks |-> 6, history |-> 7, inventory |-> 9, fetch |-> 7, discovery |-> 8, credentials |-> 8,
           execution |-> 5, content |-> 4, forms |-> 8, catalog |-> 8, show |-> 4, command |-> 6,
           profiles |-> 5, workflow |-> 4, block |-> 4, profile |-> 2,
           plan |-> 4, records |-> 6, schedules |-> 6, frame |-> 5, running |-> 4,
           interactive |-> 5, pickers |-> 4, form |-> 4, results |-> 4]
Bounded == DOMAIN Budget

InitOf(page) ==
  CASE page = "tasks" -> Tasks!Init
    [] page = "history" -> ConfigHistory!Init
    [] page = "inventory" -> Inventory!Init
    [] page = "discovery" -> Discovery!Init
    [] page = "credentials" -> Credentials!Init
    [] page = "auth" -> Auth!Init
    [] page = "fetch" -> ConfigFetch!Init
    [] page = "execution" -> Execution!Init
    [] page = "content" -> Content!Init
    [] page = "forms" -> Forms!Init
    [] page = "catalog" -> ConfigRows!Init
    [] page = "show" -> Show!Init
    [] page = "command" -> Command!Init
    [] page = "profiles" -> ProfilesOf!Init
    [] page = "plan" -> Plan!Init
    [] page = "records" -> Records!Init
    [] page = "schedules" -> SchedulesOf!Init
    [] page = "frame" -> Frame!Init
    [] page = "running" -> Running!Init
    [] page = "interactive" -> Interactive!Init
    [] page = "pickers" -> Picking!Init
    [] page = "form" -> Filled!Init
    [] page = "results" -> Results!Init
    [] page = "workflow" -> Workflow!Init /\ calls = Tasks!NoCalls
    [] page = "block" -> Block!Init /\ calls = Tasks!NoCalls
    [] page = "profile" -> Profile!Init /\ calls = Tasks!NoCalls

Init ==
  /\ focus \in Focuses /\ InitOf(focus)
  /\ left = IF focus \in Bounded THEN Budget[focus] ELSE 0

Next ==
  /\ UNCHANGED focus
  /\ IF focus \in Bounded THEN left > 0 /\ left' = left - 1 ELSE UNCHANGED left
  /\ \/ focus = "tasks" /\ Tasks!Next
     \/ focus = "history" /\ ConfigHistory!Next
     \/ focus = "inventory" /\ Inventory!Next
     \/ focus = "discovery" /\ Discovery!Next
     \/ focus = "credentials" /\ Credentials!Next
     \/ focus = "auth" /\ Auth!Next
     \/ focus = "fetch" /\ ConfigFetch!Next
     \/ focus = "execution" /\ Execution!Next
     \/ focus = "content" /\ Content!Next
     \/ focus = "forms" /\ Forms!Next
     \/ focus = "catalog" /\ ConfigRows!Next
     \/ focus = "show" /\ Show!Next
     \/ focus = "command" /\ Command!Next
     \/ focus = "profiles" /\ ProfilesOf!Next
     \/ focus = "plan" /\ Plan!Next
     \/ focus = "records" /\ Records!Next
     \/ focus = "schedules" /\ SchedulesOf!Next
     \/ focus = "frame" /\ Frame!Next
     \/ focus = "running" /\ Running!Next
     \/ focus = "interactive" /\ Interactive!Next
     \/ focus = "pickers" /\ Picking!Next
     \/ focus = "form" /\ Filled!Next
     \/ focus = "results" /\ Results!Next
     \/ focus = "workflow" /\ Workflow!Next /\ UNCHANGED calls
     \/ focus = "block" /\ Block!Next /\ UNCHANGED calls
     \/ focus = "profile" /\ Profile!Next /\ UNCHANGED calls

Spec == Init /\ [][Next]_vars

-----------------------------------------------------------------------------
\* The store and the calls of every page, and its part of the service, have their types.
ConsoleTypeOK ==
  CASE focus = "tasks" -> Tasks!TypeOK
    [] focus = "history" -> ConfigHistory!TypeOK
    [] focus = "inventory" -> Inventory!TypeOK
    [] focus = "discovery" -> Discovery!TypeOK
    [] focus = "credentials" -> Credentials!TypeOK
    [] focus = "auth" -> Auth!TypeOK
    [] focus = "fetch" -> ConfigFetch!TypeOK
    [] focus = "execution" -> Execution!TypeOK
    [] focus = "content" -> Content!TypeOK
    [] focus = "forms" -> Forms!TypeOK
    [] focus = "catalog" -> ConfigRows!TypeOK
    [] focus = "show" -> Show!TypeOK
    [] focus = "command" -> Command!TypeOK
    [] focus = "profiles" -> ProfilesOf!TypeOK
    [] focus = "plan" -> Plan!TypeOK
    [] focus = "records" -> Records!TypeOK
    [] focus = "schedules" -> SchedulesOf!TypeOK
    [] focus = "frame" -> Frame!TypeOK
    [] focus = "running" -> Running!TypeOK
    [] focus = "interactive" -> Interactive!TypeOK
    [] focus = "pickers" -> Picking!TypeOK
    [] focus = "form" -> Filled!TypeOK
    [] focus = "results" -> Results!TypeOK
    [] focus = "workflow" -> Workflow!TypeOK
    [] focus = "block" -> Block!TypeOK
    [] focus = "profile" -> Profile!TypeOK

\* What a page shows belongs to the selection, the filters and the inputs that are shown
\* next to it, and a result to those it was started with, in whatever order the answers
\* of lists, details, saves, previews and deletions arrive; what a dialog deletes is
\* what it has named, and a scan that runs is followed to its end.
ShownIsCurrent ==
  CASE focus = "tasks" -> Tasks!DetailIsOfSelection /\ Tasks!ListIsCurrent
    [] focus = "history" -> ConfigHistory!DetailIsOfSelection /\ ConfigHistory!ListIsCurrent
    [] focus = "inventory" -> Inventory!FormIsOfSelection
    [] focus = "credentials" -> Credentials!FormIsOfSelection /\ Credentials!DeletesTheNamed
    [] focus = "discovery" -> Discovery!ActiveRunIsFollowed
    [] focus = "fetch" -> ConfigFetch!CatalogIsOfTarget
    [] focus = "catalog" -> ConfigRows!ModesAreOfProfile
    [] focus = "show" -> Show!ChoicesFitTargets /\ Show!RunKeepsItsTarget
    [] focus = "command" -> Command!PreviewFollowsInputs
    [] focus = "profiles" -> ProfilesOf!ModesAreOfTarget
    [] focus = "plan" -> Plan!ShownIsOfPlan
    [] focus = "records" -> Records!ListIsCurrent /\ Records!DeviceIsKnown /\ Records!OpenHasContent
    [] focus = "frame" -> Frame!PageIsOfPath /\ Frame!ThemeIsResolved
    [] focus = "running" -> Running!RunsAreOfShown /\ Running!PreviewIsOfInput
    [] focus = "interactive" -> Interactive!FieldsAreOfText /\ Interactive!RunsAreOfShown
    [] focus = "form" -> Filled!FactsAreOfForm
    [] focus = "results" -> Results!DetailIsOfEntry
    [] OTHER -> TRUE

\* What is shown as saved is what the service keeps, and a save that is two requests
\* loses nothing between them.
SavedIsKept ==
  CASE focus = "execution" -> Execution!UnchangedIsStored
    [] focus = "content" -> Content!UnchangedIsStored
    [] focus = "forms" -> Forms!RenameKeepsOne
    [] focus = "catalog" -> ConfigRows!OverridesFit
    [] focus = "command" -> Command!UnchangedIsStored
    [] focus = "interactive" -> Interactive!UnchangedIsStored /\ Interactive!ReadonlyIsUnchanged
    [] focus = "results" -> Results!NoRecordingIsKept
    [] OTHER -> TRUE

\* Whatever a page shows as loading, saving, deleting, previewing or running has a call
\* in flight, or a timer, that will end it: no button stays disabled for good.
\* Excepted are the preview of a plan's job whose template another job of the plan names
\* too, and an inspection that was left for a template that could not be loaded.
BusyIsPending ==
  CASE focus = "tasks" -> Tasks!BusyIsPending
    [] focus = "history" -> ConfigHistory!BusyIsPending
    [] focus = "inventory" -> Inventory!BusyIsPending
    [] focus = "discovery" -> Discovery!BusyIsPending
    [] focus = "credentials" -> Credentials!BusyIsPending
    [] focus = "auth" -> Auth!BusyIsPending
    [] focus = "fetch" -> ConfigFetch!BusyIsPending
    [] focus = "execution" -> Execution!BusyIsPending
    [] focus = "forms" -> Forms!BusyIsPending
    [] focus = "catalog" -> ConfigRows!BusyIsPending
    [] focus = "show" -> Show!BusyIsPending
    [] focus = "command" -> Command!BusyIsPending
    [] focus = "profiles" -> ProfilesOf!BusyIsPending
    [] focus = "plan" -> Plan!LoadingIsPending
    [] focus = "records" -> Records!BusyIsPending
    [] focus = "schedules" -> SchedulesOf!BusyIsPending
    [] focus = "frame" -> Frame!LoadingIsPending
    [] focus = "running" -> Running!BusyIsPending
    [] focus = "interactive" -> Interactive!BusyIsPending
    [] focus = "form" -> Filled!RunningIsPending
    [] focus = "results" -> Results!BusyIsPending
    [] OTHER -> TRUE

\* An answer does not undo what was decided after its question was asked: the
\* choices of results to import, the end of a session, the values of variables.
AnswersKeepChoices ==
  [][CASE focus = "discovery" -> Discovery!PollKeepsChoices
       [] focus = "auth" -> Auth!EndedSessionStaysEnded
       [] focus = "records" -> Records!TextIsKept
       [] focus = "frame" -> Frame!FieldIsKept
       [] focus = "interactive" -> Interactive!ValuesAreKept
       [] focus = "pickers" -> Picking!ListsAdvance
       [] focus = "results" -> Results!OtherRunsStayAside
       [] OTHER -> TRUE]_vars

\* The form and the text of an editor are one document, and reading the text back
\* gives what would be written again.
ViewsAgree ==
  CASE focus = "tasks" -> Tasks!DetailTellsAll
    [] focus = "execution" -> Execution!BlockIsShown
    [] focus = "workflow" ->
           Workflow!ViewsAgree /\ Workflow!GraphShowsWorkflow /\ Workflow!IdsAreUnique
    [] focus = "block" -> Block!ViewsAgree /\ Block!CanvasShowsBlock
    [] focus = "profile" -> Profile!CollectsWhatItShows
    [] focus = "plan" -> Plan!ViewsAgree /\ Plan!GraphShowsPlan
    [] focus = "running" -> Running!VarsAgree
    [] focus = "interactive" -> Interactive!ViewsAgree
    [] focus = "pickers" -> Picking!MenuIsCurrent
    [] focus = "form" -> Filled!ShowsWhatItSaves
    [] focus = "results" -> Results!ResultsTellAll
    [] OTHER -> TRUE

\* An operation changes what it is about and keeps the rest.
EditsKeepTheRest ==
  /\ [][focus = "workflow" => Workflow!KeepsTheRest]_vars
  /\ [][focus = "block" => Block!KeepsTheBlock]_vars
  /\ [][focus = "plan" => Plan!KeepsOtherJobs]_vars
  /\ [][focus = "interactive" => Interactive!KeepsOtherPrompts]_vars
  /\ [][focus = "pickers" => Picking!SelectionsAreKept /\ Picking!RestrictedTakesOptions]_vars
  /\ [][focus = "form" => Filled!EditsChangeOne]_vars
  /\ [][focus = "results" => Results!EndedRunsStay]_vars

\* The preview a command template can be run with is one of the text that is shown.
PreviewIsOfTemplate == focus = "command" => Command!PreviewIsOfTemplate

\* A custom profile that is loaded and saved keeps how its commands are executed.
SavesExecution == focus = "profile" => Profile!SavesExecution
=============================================================================
