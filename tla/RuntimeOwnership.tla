-------------------------- MODULE RuntimeOwnership --------------------------
(***************************************************************************)
(* Who may open device sessions for one RAUTO_HOME: the ownership lock and *)
(* runtime.json (src/src/infrastructure/runtime.rs), discovery, the        *)
(* control plane and its client (src/src/interfaces/runtime.rs) and the    *)
(* start and stop of services and command-line executions (src/src/main.rs *)
(* and src/src/web/server.rs).                                             *)
(*                                                                         *)
(* Two kinds of processes run: services (serve, web, agent) and commands   *)
(* (show, exec, ...; the diagnostics that insist on owning the runtime     *)
(* are commands with exclusive = TRUE).  The operating system provides the *)
(* file lock, which it releases when a process dies, and loopback ports,   *)
(* which may be reused by a later process.                                 *)
(***************************************************************************)
EXTENDS Naturals, FiniteSets

CONSTANTS Services, Commands,
          Ports,        \* ephemeral loopback ports
          MaxLaunches,  \* bound: launches of services and commands together
          NoProcess, NoInfo

ASSUME RuntimeAssumption ==
    /\ Services \cap Commands = {}
    /\ NoProcess \notin Services \cup Commands
    /\ MaxLaunches \in Nat
    /\ NoInfo \notin [id : Nat, port : Ports]

VARIABLES
    lock,        \* the process that holds runtime.lock
    file,        \* runtime.json: NoInfo (empty or partly written) or an instance
    listening,   \* the instance whose control server is bound to a port
    launches,    \* processes launched so far
    instances,   \* instance ids drawn so far; the last one is the newest id
    service,     \* per service: its phase
    instance,    \* per service: its RuntimeInfo, or NoInfo
    command,     \* per command: its phase
    exclusive,   \* per command: a diagnostic that must own the runtime
    expired,     \* per command: the 15 s of discover are over
    found,       \* per process: the RuntimeInfo it read from runtime.json
    job,         \* per command: the service executing its request
    started      \* per command: executions begun for this launch (history)

osVars == <<lock, file, listening>>
serviceVars == <<instances, service, instance>>
commandVars == <<command, exclusive, expired, started>>
vars == <<osVars, launches, serviceVars, commandVars, found, job>>

Infos == [id : Nat, port : Ports]

ServicePhases == {"off", "tryLock", "read", "probe", "owned", "bound", "publishing",
                  "serving", "stopping", "clearing", "unlocking"}
CommandPhases == {"off", "tryLock", "read", "probe", "wait", "client", "requested",
                  "local", "clearing", "unlocking"}

TypeOK ==
    /\ lock \in Services \cup Commands \cup {NoProcess}
    /\ file \in Infos \cup {NoInfo}
    /\ listening \in [Ports -> Infos \cup {NoInfo}]
    /\ launches \in 0..MaxLaunches
    /\ instances \in Nat
    /\ service \in [Services -> ServicePhases]
    /\ instance \in [Services -> Infos \cup {NoInfo}]
    /\ command \in [Commands -> CommandPhases]
    /\ exclusive \in [Commands -> BOOLEAN]
    /\ expired \in [Commands -> BOOLEAN]
    /\ found \in [Services \cup Commands -> Infos \cup {NoInfo}]
    /\ job \in [Commands -> Services \cup {NoProcess}]
    /\ started \in [Commands -> Nat]
    /\ \A s \in Services : service[s] = "probe" => found[s] \in Infos
    /\ \A c \in Commands :
        command[c] \in {"probe", "client", "requested"} => found[c] \in Infos

Init ==
    /\ lock = NoProcess
    /\ file = NoInfo
    /\ listening = [p \in Ports |-> NoInfo]
    /\ launches = 0
    /\ instances = 0
    /\ service = [s \in Services |-> "off"]
    /\ instance = [s \in Services |-> NoInfo]
    /\ command = [c \in Commands |-> "off"]
    /\ exclusive = [c \in Commands |-> FALSE]
    /\ expired = [c \in Commands |-> FALSE]
    /\ found = [p \in Services \cup Commands |-> NoInfo]
    /\ job = [c \in Commands |-> NoProcess]
    /\ started = [c \in Commands |-> 0]

-----------------------------------------------------------------------------
\* Helpers.

\* Mutant: any control server that answers on the port will do.
AnswersAny(info) == listening[info.port] # NoInfo

\* The control server on the port accepts the token and reports the instance
\* id of the metadata (authenticate, identity and RuntimeClient::healthy).
Answers(info) == listening[info.port] = info

\* A service that stops may have closed its listener already.
Refuses(info) ==
    ~ Answers(info) \/ \E s \in Services : service[s] = "stopping" /\ instance[s] = info

\* The instance behind the port takes the request: execute turns requests away
\* from the moment shutdown has begun.
Accepts(s, info) ==
    Answers(info) /\ service[s] = "serving" /\ instance[s] = listening[info.port]

Enter(s, phase) == service' = [service EXCEPT ![s] = phase]
Move(c, phase) == command' = [command EXCEPT ![c] = phase]

\* Closing the control listener of a service.
Close(s) ==
    listening' = [p \in Ports |->
        IF instance[s] # NoInfo /\ listening[p] = instance[s] THEN NoInfo ELSE listening[p]]

-----------------------------------------------------------------------------
\* Services.

\* serve, web or agent is started and enters acquire_service.
ServiceLaunch(s) ==
    /\ service[s] = "off"
    /\ launches < MaxLaunches
    /\ launches' = launches + 1
    /\ Enter(s, "tryLock")
    /\ UNCHANGED <<osVars, instances, instance, commandVars, found, job>>

\* RuntimeLock::try_acquire in the loop of acquire_service.
ServiceTryLock(s) ==
    /\ service[s] = "tryLock"
    /\ \/ /\ lock = NoProcess
          /\ lock' = s
          /\ Enter(s, "owned")
       \/ /\ lock # NoProcess
          /\ Enter(s, "read")
          /\ UNCHANGED lock
    /\ UNCHANGED <<file, listening, launches, instances, instance, commandVars, found, job>>

\* RuntimeLock::read: unreadable metadata means another round.
ServiceRead(s) ==
    /\ service[s] = "read"
    /\ \/ /\ file = NoInfo
          /\ Enter(s, "tryLock")
          /\ UNCHANGED found
       \/ /\ file # NoInfo
          /\ found' = [found EXCEPT ![s] = file]
          /\ Enter(s, "probe")
    /\ UNCHANGED <<osVars, launches, instances, instance, commandVars, job>>

\* A healthy service ends the start; any other answer means another round.
ServiceProbe(s) ==
    /\ service[s] = "probe"
    /\ \/ Answers(found[s]) /\ Enter(s, "off")
       \/ Refuses(found[s]) /\ Enter(s, "tryLock")
    /\ found' = [found EXCEPT ![s] = NoInfo]
    /\ UNCHANGED <<osVars, launches, instances, instance, commandVars, job>>

\* RuntimeServer::start binds a port and draws a new instance id and token.
ServiceBind(s) ==
    /\ service[s] = "owned"
    /\ \E p \in Ports :
        /\ listening[p] = NoInfo
        /\ LET info == [id |-> instances + 1, port |-> p]
           IN /\ instance' = [instance EXCEPT ![s] = info]
              /\ listening' = [listening EXCEPT ![p] = info]
    /\ instances' = instances + 1
    /\ Enter(s, "bound")
    /\ UNCHANGED <<lock, file, launches, commandVars, found, job>>

\* publish opens runtime.json with truncate ...
ServiceTruncate(s) ==
    /\ service[s] = "bound"
    /\ file' = NoInfo
    /\ Enter(s, "publishing")
    /\ UNCHANGED <<lock, listening, launches, instances, instance, commandVars, found, job>>

\* ... and writes the metadata into it.
ServiceWrite(s) ==
    /\ service[s] = "publishing"
    /\ file' = instance[s]
    /\ Enter(s, "serving")
    /\ UNCHANGED <<lock, listening, launches, instances, instance, commandVars, found, job>>

\* Binding, publishing or initialising failed: the lock is dropped in order.
ServiceFail(s) ==
    /\ service[s] \in {"owned", "bound", "publishing"}
    /\ Close(s)
    /\ instance' = [instance EXCEPT ![s] = NoInfo]
    /\ Enter(s, "clearing")
    /\ UNCHANGED <<lock, file, launches, instances, commandVars, found, job>>

\* Ctrl+C or a failed control server: begin_shutdown.
ServiceStop(s) ==
    /\ service[s] = "serving"
    /\ Enter(s, "stopping")
    /\ UNCHANGED <<osVars, launches, instances, instance, commandVars, found, job>>

\* Mutant: the process goes on without waiting for its open requests.
ServiceFinishAtOnce(s) ==
    /\ service[s] = "stopping"
    /\ Close(s)
    /\ instance' = [instance EXCEPT ![s] = NoInfo]
    /\ Enter(s, "clearing")
    /\ UNCHANGED <<lock, file, launches, instances, commandVars, found, job>>

\* control.finish(): every open request has got its reply.
ServiceFinish(s) ==
    /\ service[s] = "stopping"
    /\ \A c \in Commands : job[c] # s
    /\ Close(s)
    /\ instance' = [instance EXCEPT ![s] = NoInfo]
    /\ Enter(s, "clearing")
    /\ UNCHANGED <<lock, file, launches, instances, commandVars, found, job>>

\* RuntimeLock::drop clears runtime.json while the lock is still held.
ServiceClear(s) ==
    /\ service[s] = "clearing"
    /\ file' = NoInfo
    /\ Enter(s, "unlocking")
    /\ UNCHANGED <<lock, listening, launches, instances, instance, commandVars, found, job>>

\* The file is closed, which releases the lock.
ServiceUnlock(s) ==
    /\ service[s] = "unlocking"
    /\ lock' = NoProcess
    /\ Enter(s, "off")
    /\ UNCHANGED <<file, listening, launches, instances, instance, commandVars, found, job>>

\* Mutant: ownership is a file with a pid, which a dead process leaves behind.
ServiceCrashKeepsLock(s) ==
    /\ service[s] # "off"
    /\ Close(s)
    /\ instance' = [instance EXCEPT ![s] = NoInfo]
    /\ job' = [c \in Commands |-> IF job[c] = s THEN NoProcess ELSE job[c]]
    /\ found' = [found EXCEPT ![s] = NoInfo]
    /\ Enter(s, "off")
    /\ UNCHANGED <<lock, file, launches, instances, commandVars>>

\* The process dies at any point: the system takes back lock and port, its
\* executions are gone, and runtime.json stays as it is.
ServiceCrash(s) ==
    /\ service[s] # "off"
    /\ lock' = IF lock = s THEN NoProcess ELSE lock
    /\ Close(s)
    /\ instance' = [instance EXCEPT ![s] = NoInfo]
    /\ job' = [c \in Commands |-> IF job[c] = s THEN NoProcess ELSE job[c]]
    /\ found' = [found EXCEPT ![s] = NoInfo]
    /\ Enter(s, "off")
    /\ UNCHANGED <<file, launches, instances, commandVars>>

-----------------------------------------------------------------------------
\* Requests at the control plane.

\* The execution in the response body ends: with its result, or cancelled by
\* run_until_shutdown while the service stops.
JobDone(c) ==
    /\ job[c] # NoProcess
    /\ job' = [job EXCEPT ![c] = NoProcess]
    /\ UNCHANGED <<osVars, launches, serviceVars, commandVars, found>>

-----------------------------------------------------------------------------
\* Commands.

\* A command is launched and enters discover.  A command stands for another
\* process at each launch, so the connection of the last one is gone.
CommandLaunch(c) ==
    /\ command[c] = "off"
    /\ job[c] = NoProcess
    /\ launches < MaxLaunches
    /\ launches' = launches + 1
    /\ \E e \in BOOLEAN : exclusive' = [exclusive EXCEPT ![c] = e]
    /\ expired' = [expired EXCEPT ![c] = FALSE]
    /\ started' = [started EXCEPT ![c] = 0]
    /\ Move(c, "tryLock")
    /\ UNCHANGED <<osVars, serviceVars, found, job>>

\* The deadline of discover passes while it polls.
CommandDeadline(c) ==
    /\ command[c] \in {"tryLock", "read", "probe", "wait"}
    /\ ~ expired[c]
    /\ expired' = [expired EXCEPT ![c] = TRUE]
    /\ UNCHANGED <<osVars, launches, serviceVars, command, exclusive, started, found, job>>

\* try_acquire in discover: the owner executes locally, at once.
CommandTryLock(c) ==
    /\ command[c] = "tryLock"
    /\ \/ /\ lock = NoProcess
          /\ lock' = c
          /\ started' = [started EXCEPT ![c] = @ + 1]
          /\ Move(c, "local")
       \/ /\ lock # NoProcess
          /\ Move(c, "read")
          /\ UNCHANGED <<lock, started>>
    /\ UNCHANGED <<file, listening, launches, serviceVars, exclusive, expired, found, job>>

\* Mutant: metadata that is empty or partly written is used as it is.
CommandReadUnchecked(c) ==
    /\ command[c] = "read"
    /\ found' = [found EXCEPT ![c] = file]
    /\ Move(c, "probe")
    /\ UNCHANGED <<osVars, launches, serviceVars, exclusive, expired, started, job>>

\* RuntimeLock::read in discover.
CommandRead(c) ==
    /\ command[c] = "read"
    /\ \/ /\ file = NoInfo
          /\ Move(c, "wait")
          /\ UNCHANGED found
       \/ /\ file # NoInfo
          /\ found' = [found EXCEPT ![c] = file]
          /\ Move(c, "probe")
    /\ UNCHANGED <<osVars, launches, serviceVars, exclusive, expired, started, job>>

\* The identity probe: a healthy service is used, unless the command must own
\* the runtime itself (launch bails).
CommandProbe(c) ==
    /\ command[c] = "probe"
    /\ \/ /\ Answers(found[c]) /\ ~ exclusive[c]
          /\ Move(c, "client")
          /\ UNCHANGED found
       \/ /\ Answers(found[c]) /\ exclusive[c]
          /\ Move(c, "off")
          /\ found' = [found EXCEPT ![c] = NoInfo]
       \/ /\ Refuses(found[c])
          /\ Move(c, "wait")
          /\ found' = [found EXCEPT ![c] = NoInfo]
    /\ UNCHANGED <<osVars, launches, serviceVars, exclusive, expired, started, job>>

\* Mutant: the deadline is forgotten.
CommandWaitForEver(c) ==
    /\ command[c] = "wait"
    /\ Move(c, "tryLock")
    /\ UNCHANGED <<osVars, launches, serviceVars, exclusive, expired, started, found, job>>

\* After the deadline the command is refused; before, it sleeps and retries.
CommandWait(c) ==
    /\ command[c] = "wait"
    /\ \/ expired[c] /\ Move(c, "off")
       \/ ~ expired[c] /\ Move(c, "tryLock")
    /\ UNCHANGED <<osVars, launches, serviceVars, exclusive, expired, started, found, job>>

\* RuntimeClient::execute posts the request: whoever listens on the port now
\* checks the token, and refuses while it shuts down.
CommandPost(c) ==
    /\ command[c] = "client"
    /\ \/ \E s \in Services :
            /\ Accepts(s, found[c])
            /\ job' = [job EXCEPT ![c] = s]
            /\ started' = [started EXCEPT ![c] = @ + 1]
       \/ /\ \A s \in Services : ~ Accepts(s, found[c])
          /\ UNCHANGED <<job, started>>
    /\ Move(c, "requested")
    /\ UNCHANGED <<osVars, launches, serviceVars, exclusive, expired, found>>

\* Mutant: a lost answer sends the command back to discovery.
CommandAnswerRetry(c) ==
    /\ command[c] = "requested"
    /\ job[c] = NoProcess
    /\ \/ Move(c, "off")
       \/ started[c] < 2 /\ Move(c, "tryLock")
    /\ found' = [found EXCEPT ![c] = NoInfo]
    /\ UNCHANGED <<osVars, launches, serviceVars, exclusive, expired, started, job>>

\* The answer, the refusal or the lost connection ends the command: nothing
\* is sent again and nothing is executed locally.
CommandAnswer(c) ==
    /\ command[c] = "requested"
    /\ job[c] = NoProcess
    /\ Move(c, "off")
    /\ found' = [found EXCEPT ![c] = NoInfo]
    /\ UNCHANGED <<osVars, launches, serviceVars, exclusive, expired, started, job>>

\* The local execution ends and RuntimeLock::drop begins.
CommandLocalDone(c) ==
    /\ command[c] = "local"
    /\ Move(c, "clearing")
    /\ UNCHANGED <<osVars, launches, serviceVars, exclusive, expired, started, found, job>>

CommandClear(c) ==
    /\ command[c] = "clearing"
    /\ file' = NoInfo
    /\ Move(c, "unlocking")
    /\ UNCHANGED <<lock, listening, launches, serviceVars, exclusive, expired, started, found, job>>

CommandUnlock(c) ==
    /\ command[c] = "unlocking"
    /\ lock' = NoProcess
    /\ Move(c, "off")
    /\ UNCHANGED <<file, listening, launches, serviceVars, exclusive, expired, started, found, job>>

\* Ctrl+C or a kill at any point.  A posted execution stays with the service
\* until the service notices that the connection is gone (JobDone).
CommandCrash(c) ==
    /\ command[c] # "off"
    /\ lock' = IF lock = c THEN NoProcess ELSE lock
    /\ found' = [found EXCEPT ![c] = NoInfo]
    /\ Move(c, "off")
    /\ UNCHANGED <<file, listening, launches, serviceVars, exclusive, expired, started, job>>

-----------------------------------------------------------------------------
ServiceStep(s) ==
    \/ ServiceTryLock(s) \/ ServiceRead(s) \/ ServiceProbe(s)
    \/ ServiceBind(s) \/ ServiceTruncate(s) \/ ServiceWrite(s)
    \/ ServiceFinish(s) \/ ServiceClear(s) \/ ServiceUnlock(s)

CommandStep(c) ==
    \/ CommandTryLock(c) \/ CommandRead(c) \/ CommandProbe(c) \/ CommandWait(c)
    \/ CommandPost(c) \/ CommandAnswer(c) \/ CommandClear(c) \/ CommandUnlock(c)

Next ==
    \/ \E s \in Services :
        \/ ServiceLaunch(s) \/ ServiceStep(s)
        \/ ServiceFail(s) \/ ServiceStop(s) \/ ServiceCrash(s)
    \/ \E c \in Commands :
        \/ CommandLaunch(c) \/ CommandStep(c) \/ CommandDeadline(c)
        \/ CommandLocalDone(c) \/ CommandCrash(c) \/ JobDone(c)

Spec == Init /\ [][Next]_vars

\* Processes that are not killed go on and clocks run.  Executions may last for
\* ever: JobDone and CommandLocalDone have no fairness.
FairSpec ==
    /\ Spec
    /\ \A s \in Services : WF_vars(ServiceStep(s))
    /\ \A c \in Commands : WF_vars(CommandStep(c)) /\ WF_vars(CommandDeadline(c))

\* Every execution ends, with its result, an error or a device timeout.
ExecutionsEnd == \A c \in Commands : WF_vars(CommandLocalDone(c)) /\ WF_vars(JobDone(c))

-----------------------------------------------------------------------------
\* Properties.

\* The processes that may talk to devices right now.
Operating ==
    {c \in Commands : command[c] = "local"} \cup ({job[c] : c \in Commands} \ {NoProcess})

\* "An OS file lock prevents a second service or direct execution process from
\* owning the same runtime" (README.md:267): through crashes, stale metadata
\* and slow shutdowns, only one process at a time operates devices, and it
\* holds the lock until its last execution has ended.
SingleRuntime == \A p \in Operating : lock = p

\* A request reaches only the instance whose metadata the command read: a
\* later service that got the same port never executes it by mistake.
RequestsReachTheirInstance ==
    \A c \in Commands :
        command[c] = "requested" /\ job[c] # NoProcess => instance[job[c]] = found[c]

\* A service that serves can be discovered: its metadata stays in place until
\* it stops, whatever processes that end or fail around it do to the file.
ServingIsPublished ==
    \A s \in Services : service[s] = "serving" => file = instance[s]

\* "Errors never trigger automatic resubmission or local fallback"
\* (docs/architecture.md:147): one launch is executed at most once.
AtMostOneExecution == \A c \in Commands : started[c] <= 1

\* "CLI ownership waits time out after 15 seconds" (README.md:269): a command is
\* executed, routed or refused, even if the owner of the runtime never ends.
DiscoveryEnds ==
    \A c \in Commands :
        command[c] \in {"tryLock", "read", "probe", "wait"}
            ~> command[c] \in {"client", "local", "off"}

\* "A service waits for an existing direct execution to finish" (README.md:268):
\* if executions end, and once no more processes are launched (MaxLaunches), it
\* owns the runtime or ends because another service is healthy.
ServicesStart ==
    ExecutionsEnd =>
        \A s \in Services : service[s] = "tryLock" ~> service[s] \in {"owned", "off"}
=============================================================================
