----------------------------- MODULE ConfigCatalog -----------------------------
(***************************************************************************)
(* The catalogue of commands that read a configuration: the rows of the     *)
(* service, those that override a built-in one, and the form that adds one. *)
(* A mode in the form is one of the profile in the form; the modes of a     *)
(* profile are asked for under a sequence number, the rows are not.         *)
(***************************************************************************)
EXTENDS Requests

CONSTANTS Profiles,
          ModesOf,   \* the modes of each profile
          None

VARIABLES state, calls

ConfigCatalogAssumption ==
  /\ None \notin Profiles /\ DOMAIN ModesOf = Profiles
  /\ \A p \in Profiles : ModesOf[p] # {} /\ None \notin ModesOf[p]

Modes == UNION {ModesOf[p] : p \in Profiles}

\* A row is a profile with its mode; stored are the overrides of the service.
Rows == Profiles \X (Modes \cup {None})
ConfigCatalogState ==
  [commands: SUBSET Rows, profiles: SUBSET Profiles, profile: Profiles \cup {None},
   mode: Modes \cup {None}, command: BOOLEAN, profileModes: SUBSET Modes,
   modeRequestSequence: CallIds \cup {NoCall}, loading: BOOLEAN, loadingModes: BOOLEAN,
   savingCommand: BOOLEAN, stored: SUBSET Rows]

\* "by" is who awaits a load: the page or its button, a save, a deletion.
Bys == {"page", "save", "remove"}
Call == [op: {"load"}, by: Bys] \cup [op: {"modes"}, by: Bys \cup {"select"}, profile: Profiles]
          \cup [op: {"save", "remove"}, row: Rows]

Init ==
  /\ calls = [i \in {1} |-> [op |-> "load", by |-> "page"]]
  /\ state = [commands |-> {}, profiles |-> {}, profile |-> None, mode |-> None,
              command |-> FALSE, profileModes |-> {}, modeRequestSequence |-> NoCall,
              loading |-> TRUE, loadingModes |-> FALSE, savingCommand |-> FALSE, stored |-> {}]

\* A load ends, and with it the save that awaited it.
LoadDone(s, by) == [s EXCEPT !.loading = IF by = "select" THEN @ ELSE FALSE]
Done(s, by) ==
  [s EXCEPT !.loading = IF by = "select" THEN @ ELSE FALSE,
            !.savingCommand = @ /\ by # "save"]

\* The modes of the profile in the form, asked for under the identifier of a call.
Asking(s, i) ==
  [s EXCEPT !.profileModes = {}, !.modeRequestSequence = i, !.loadingModes = TRUE]
ModesCall(by, profile) == [op |-> "modes", by |-> by, profile |-> profile]

selectCommandProfile(profile) ==
  /\ ~state.loading /\ CanPost(calls)
  /\ state' = Asking([state EXCEPT !.profile = profile, !.mode = None], NextId(calls))
  /\ calls' = Post(calls, ModesCall("select", profile))

ModesCount(i) == state.modeRequestSequence = i

loadCommandProfileModes(i) ==
  LET call == calls[i] s == Done(state, call.by) modes == ModesOf[call.profile] IN
  /\ call.op = "modes"
  /\ calls' = Settle(calls, i)
  /\ IF ~ModesCount(i) THEN state' = s
     ELSE \/ state' = [s EXCEPT !.profileModes = modes, !.loadingModes = FALSE,
                                !.mode = IF @ \in modes THEN @ ELSE None]
          \/ state' = [s EXCEPT !.loadingModes = FALSE]

load ==
  /\ ~state.loading /\ CanPost(calls)
  /\ state' = [state EXCEPT !.loading = TRUE]
  /\ calls' = Post(calls, [op |-> "load", by |-> "page"])

\* The profile of the form is kept if the service still knows it; its modes are asked
\* for in any case, and the load has ended once they are there.
AnswerLoad(i) ==
  LET by == calls[i].by IN
  /\ calls[i].op = "load"
  /\ \/ \E profiles \in SUBSET Profiles :
          LET kept == state.profile \in profiles
              firsts == IF kept THEN {state.profile} ELSE IF profiles = {} THEN {None} ELSE profiles
          IN \E profile \in firsts :
               LET s == [state EXCEPT !.commands = state.stored, !.profiles = profiles,
                                      !.profile = profile, !.mode = IF kept THEN @ ELSE None]
               IN IF profile = None
                  THEN /\ state' = Done([s EXCEPT !.profileModes = {}, !.loadingModes = FALSE,
                                                  !.modeRequestSequence = NoCall], by)
                       /\ calls' = Settle(calls, i)
                  ELSE /\ state' = Asking(s, i)
                       /\ calls' = Chain(calls, i, ModesCall(by, profile))
     \/ state' = Done(state, by) /\ calls' = Settle(calls, i)

changeCommand(filled) ==
  /\ filled # state.command
  /\ state' = [state EXCEPT !.command = filled] /\ UNCHANGED calls
changeMode(mode) ==
  /\ ~state.loadingModes /\ state.profile # None /\ mode # state.mode
  /\ state' = [state EXCEPT !.mode = mode] /\ UNCHANGED calls

saveCommandOverride ==
  /\ state.profile # None /\ state.command /\ ~state.savingCommand /\ CanPost(calls)
  /\ state' = [state EXCEPT !.savingCommand = TRUE]
  /\ calls' = Post(calls, [op |-> "save", row |-> <<state.profile, state.mode>>])

removeCommandOverride(row) ==
  /\ CanPost(calls)
  /\ calls' = Post(calls, [op |-> "remove", row |-> row]) /\ UNCHANGED state

\* A profile has one override; the rows are loaded after every change.
OfOther(row) == {r \in state.stored : r[1] # row[1]}
Reload(i, s, by) ==
  /\ state' = [s EXCEPT !.loading = TRUE]
  /\ calls' = Chain(calls, i, [op |-> "load", by |-> by])

AnswerSave(i) ==
  LET row == calls[i].row IN
  /\ calls[i].op = "save"
  /\ \/ Reload(i, [state EXCEPT !.command = FALSE, !.stored = OfOther(row) \cup {row}], "save")
     \/ state' = [state EXCEPT !.savingCommand = FALSE] /\ calls' = Settle(calls, i)

AnswerRemove(i) ==
  LET row == calls[i].row IN
  /\ calls[i].op = "remove"
  /\ \/ Reload(i, [state EXCEPT !.stored = OfOther(row)], "remove")
     \/ UNCHANGED state /\ calls' = Settle(calls, i)

CommandForm ==
  \/ \E profile \in state.profiles : selectCommandProfile(profile)
  \/ \E mode \in state.profileModes \cup {None} : changeMode(mode)
  \/ \E filled \in BOOLEAN : changeCommand(filled)
  \/ saveCommandOverride
CommandTable == load \/ \E row \in state.commands : removeCommandOverride(row)

Next ==
  \/ CommandForm \/ CommandTable
  \/ \E i \in DOMAIN calls : \/ loadCommandProfileModes(i) \/ AnswerLoad(i)
                             \/ AnswerSave(i) \/ AnswerRemove(i)

Spec == Init /\ [][Next]_<<state, calls>>

-----------------------------------------------------------------------------
\* The state of the page and its calls have their types.
TypeOK ==
  /\ state \in ConfigCatalogState
  /\ DOMAIN calls \subseteq CallIds
  /\ \A i \in DOMAIN calls : calls[i] \in Call

\* The modes that are offered are those of the profile in the form, however many
\* profiles have been selected or loaded while they were under way.
ModesAreOfProfile ==
  state.profileModes # {} => state.profile # None /\ state.profileModes = ModesOf[state.profile]

\* The overrides of the service name a mode of their own profile.
OverridesFit ==
  \A row \in state.stored : row[2] = None \/ row[2] \in ModesOf[row[1]]

\* What is disabled by a load or a save has a call in flight that will enable it.
BusyIsPending ==
  /\ state.loading => \E i \in DOMAIN calls : calls[i].op \in {"load", "modes"}
  /\ state.loadingModes => Pending(calls, state.modeRequestSequence, "modes")
  /\ state.savingCommand =>
       \E i \in DOMAIN calls : \/ calls[i].op = "save"
                               \/ calls[i].op \in {"load", "modes"} /\ calls[i].by = "save"
=============================================================================
