------------------------------- MODULE AuthPage -------------------------------
(***************************************************************************)
(* The gate in front of the console: the status check, the login form and   *)
(* the calls of the console that may be refused when the session ends.  Any *)
(* call of the console may be answered "unauthorized", also while a login   *)
(* is in flight.                                                            *)
(***************************************************************************)
EXTENDS Requests

CONSTANTS None

VARIABLES state, calls

vars == <<state, calls>>

\* error: no text, a failed login, an ended session or a missing password.
WebAuthState ==
  [mode: {"", "web", "agent"}, status: {"loading", "authenticated", "required", "error"},
   pending: BOOLEAN, error: {None, "status", "session", "password", "missing"},
   password: BOOLEAN, requestVersion: CallIds \cup {NoCall}]

Call == [op: {"status", "login"}] \cup [op: {"console"}]

newWebAuthState(s) ==
  [s EXCEPT !.mode = "", !.status = "loading", !.pending = FALSE, !.error = None]

authenticatedWebAuthState(s, mode, authenticated) ==
  [s EXCEPT !.mode = mode, !.pending = FALSE, !.error = None,
            !.status = IF mode = "agent" \/ authenticated THEN "authenticated"
                       ELSE "required"]

requiredWebAuthState(s, message) ==
  [s EXCEPT !.mode = "web", !.pending = FALSE, !.error = message,
            !.status = "required"]

Init ==
  /\ state = [mode |-> "", status |-> "loading", pending |-> FALSE, error |-> None,
              password |-> FALSE, requestVersion |-> 1]
  /\ calls = [i \in {1} |-> [op |-> "status"]]

-----------------------------------------------------------------------------
refresh ==
  /\ CanPost(calls)
  /\ state' = [newWebAuthState(state) EXCEPT !.requestVersion = NextId(calls)]
  /\ calls' = Post(calls, [op |-> "status"])

AnswerStatus(i) ==
  /\ calls[i].op = "status"
  /\ state' \in IF i # state.requestVersion THEN {state}
                ELSE {authenticatedWebAuthState(state, mode, authenticated) :
                        mode \in {"web", "agent"}, authenticated \in BOOLEAN}
                       \cup {[newWebAuthState(state) EXCEPT !.status = "error",
                                                            !.error = "status"]}
  /\ calls' = Settle(calls, i)

\* The version is raised: a login in flight no longer counts.
requireLogin(s, message) ==
  IF s.mode = "web" THEN [requiredWebAuthState(s, message) EXCEPT !.requestVersion = NoCall]
  ELSE s

setPassword == state' = [state EXCEPT !.password = ~@] /\ UNCHANGED calls

submitLogin ==
  IF ~state.password THEN state' = requireLogin(state, "missing") /\ UNCHANGED calls
  ELSE /\ CanPost(calls)
       /\ state' = [state EXCEPT !.error = None, !.pending = TRUE,
                                 !.requestVersion = NextId(calls)]
       /\ calls' = Post(calls, [op |-> "login"])

\* A login that was overtaken changes nothing but the text under the form.
LoginCountsAlways(i) == TRUE
LoginCounts(i) == i = state.requestVersion

LoggedIn(s) == [authenticatedWebAuthState(s, "web", TRUE) EXCEPT !.password = FALSE]

Overtaken(s) ==
  IF s.mode = "web" /\ s.status = "required" THEN [s EXCEPT !.error = "password"] ELSE s

AnswerLogin(i) ==
  /\ calls[i].op = "login"
  /\ state' \in IF LoginCounts(i)
                THEN {LoggedIn(state), requiredWebAuthState(state, "password")}
                ELSE {state, Overtaken(state)}
  /\ calls' = Settle(calls, i)

\* The console is shown and asks the service for something.
UseConsole ==
  /\ CanPost(calls)
  /\ calls' = Post(calls, [op |-> "console"])
  /\ UNCHANGED state

AnswerConsole(i) ==
  /\ calls[i].op = "console"
  /\ state' \in {state, requireLogin(state, "session")}
  /\ calls' = Settle(calls, i)

App ==
  \/ state.status = "required" /\ (setPassword \/ (~state.pending /\ submitLogin))
  \/ state.status = "error" /\ refresh
  \/ state.status = "authenticated" /\ UseConsole

Next ==
  \/ App
  \/ \E i \in DOMAIN calls : AnswerStatus(i) \/ AnswerLogin(i) \/ AnswerConsole(i)

Spec == Init /\ [][Next]_vars

-----------------------------------------------------------------------------
\* The state of the gate and the calls have their types.
TypeOK ==
  /\ state \in WebAuthState
  /\ DOMAIN calls \subseteq CallIds
  /\ \A i \in DOMAIN calls : calls[i] \in Call

\* The form is busy only while the call that will free it is in flight.
BusyIsPending ==
  /\ state.status = "loading" => Pending(calls, state.requestVersion, "status")
  /\ state.pending => Pending(calls, state.requestVersion, "login")

\* Once the session has ended the console is entered again only by a login that
\* began after that.
EndedSessionStaysEnded ==
  \A i \in DOMAIN calls \ DOMAIN calls' :
    calls[i].op = "login" /\ i # state.requestVersion => state'.status = state.status
=============================================================================
