----------------------------- MODULE Scheduler -----------------------------
(***************************************************************************)
(* The cron scheduler: the tables schedules and schedule_runs              *)
(* (src/src/infrastructure/db/schedule_store.rs), the loop of the service  *)
(* that enqueues, claims and executes runs (src/src/scheduler/runner.rs,   *)
(* executor.rs) and the managers - Web requests of the service and command *)
(* lines in processes of their own - that edit the same tables.            *)
(*                                                                         *)
(* A statement or transaction of SQLite is one step; what a function reads *)
(* before it, the clock included, is a step of its own, because another    *)
(* connection may commit in between.                                       *)
(***************************************************************************)
EXTENDS Integers, FiniteSets

CONSTANTS Schedules, Managers,
          Allowed,        \* the definitions managers give to each schedule
          NextAfter(_, _),\* next_run_after_ms(cron expression, time)
          MaxRuntime,     \* max_runtime_seconds
          LeaseMargin,    \* the 60 s a lease outlasts max_runtime_seconds
          MisfireGrace,   \* MISFIRE_GRACE_MS
          MaxSleep,       \* MAX_SLEEP of the runner
          MaxConcurrency, \* MAX_CONCURRENCY of the runner
          MaxClock, MaxStarts, MaxRuns,   \* bounds: time, service starts, rows
          Absent, Deleted, NoTime, NoEdit

Definitions == UNION {Allowed[s] : s \in Schedules}
Crons == {d.cron : d \in Definitions}

ASSUME SchedulerAssumption ==
    /\ MaxRuntime \in Nat /\ LeaseMargin \in Nat \ {0}
    /\ MisfireGrace \in Nat /\ MaxSleep \in Nat /\ MaxConcurrency \in Nat
    /\ MaxClock \in Nat /\ MaxStarts \in Nat /\ MaxRuns \in Nat
    /\ \A s \in Schedules : \A d \in Allowed[s] :
        d.overlap \in {"skip", "allow"} /\ d.misfire \in {"skip", "fire_once"}
    /\ \A k \in Crons : \A t \in 0..MaxClock : NextAfter(k, t) \in Nat /\ NextAfter(k, t) > t

ASSUME FiniteAssumption == IsFiniteSet(Schedules)

ASSUME MarkerAssumption ==
    NoTime \notin Nat /\ Absent \notin Definitions /\ Deleted \notin Definitions

VARIABLES
    clock,       \* wall clock
    definition,  \* per schedule: its row, Absent (not created yet) or Deleted
    next,        \* per schedule: next_run_at_ms; NoTime while it is disabled
    runs,        \* the rows of schedule_runs
    edit,        \* per manager: the call it is in, with what it has read
    runner,      \* phase of the scheduler loop
    now,         \* the time the loop read at the start of its iteration, until it claims
    wakeAt,      \* end of the sleep of the loop, while it sleeps
    signal,      \* a notification or an ended execution not yet noticed
    executing,   \* executions of claimed runs in this process
    starts       \* scheduler starts; the last is the owner of new leases

tables == <<definition, next, runs>>
loop == <<runner, now, wakeAt, starts>>
vars == <<clock, tables, edit, loop, signal, executing>>

\* "finished" stands for success and failed, which nothing here tells apart.
Statuses == {"queued", "running", "finished", "skipped"}
Active == {"queued", "running"}
RunnerPhases == {"off", "enqueue", "claim", "plan", "sleep", "stopping"}

Init ==
    /\ clock = 0
    /\ definition = [s \in Schedules |-> Absent]
    /\ next = [s \in Schedules |-> NoTime]
    /\ runs = {}
    /\ edit = [m \in Managers |-> NoEdit]
    /\ runner = "off" /\ now = 0 /\ wakeAt = 0
    /\ signal = FALSE
    /\ executing = {}
    /\ starts = 0

Exists(s) == definition[s] \notin {Absent, Deleted}
RunsOf(s) == {r \in runs : r.schedule = s}
ActiveRun(s) == \E r \in RunsOf(s) : r.status \in Active
\* Mutant: the table has no such constraint.
RowExistsNever(s, at) == FALSE

\* UNIQUE (schedule_id, scheduled_for_ms) refuses a second row.
RowExists(s, at) == \E r \in RunsOf(s) : r.at = at

Row(s, at, skipped) ==
    [schedule |-> s, at |-> at, owner |-> 0, lease |-> 0,
     status |-> IF skipped THEN "skipped" ELSE "queued"]

\* Notify::notify_one by a Web request; a command line cannot notify.
Notify == \E web \in BOOLEAN : signal' = (signal \/ web)

-----------------------------------------------------------------------------
\* Managers.

\* create_schedule and update_schedule validate, read the clock and compute the
\* next trigger.  The name of an existing or new schedule is known to callers.
BeginWrite(m, s, d, on) ==
    /\ edit[m] = NoEdit
    /\ d \in Allowed[s]
    /\ definition[s] # Deleted
    /\ definition[s] = Absent => ~ \E n \in Managers : edit[n] # NoEdit /\ edit[n].schedule = s
    /\ edit' = [edit EXCEPT ![m] =
        [op |-> IF Exists(s) THEN "update" ELSE "create", schedule |-> s, definition |-> d,
         at |-> IF on THEN NextAfter(d.cron, clock) ELSE NoTime]]
    /\ UNCHANGED <<clock, tables, loop, signal, executing>>

\* The INSERT of create_schedule; the UPDATE of update_schedule, which finds no
\* row when the schedule was deleted meanwhile.
CommitWrite(m) ==
    /\ edit[m] # NoEdit
    /\ edit[m].op \in {"create", "update"}
    /\ LET e == edit[m]
           written == e.op = "create" \/ Exists(e.schedule)
       IN /\ definition' = IF written THEN [definition EXCEPT ![e.schedule] = e.definition]
                           ELSE definition
          /\ next' = IF written THEN [next EXCEPT ![e.schedule] = e.at] ELSE next
    /\ edit' = [edit EXCEPT ![m] = NoEdit]
    /\ Notify
    /\ UNCHANGED <<clock, runs, loop, executing>>

\* set_schedule_enabled and enqueue_manual_run read the row and the clock.
BeginUse(m, s, op) ==
    /\ edit[m] = NoEdit
    /\ Exists(s)
    /\ op \in {"enable", "disable", "manual"}
    /\ op = "manual" => Cardinality(runs) < MaxRuns
    /\ edit' = [edit EXCEPT ![m] =
        [op |-> op, schedule |-> s, definition |-> definition[s],
         at |-> CASE op = "enable" -> NextAfter(definition[s].cron, clock)
                  [] op = "disable" -> NoTime
                  [] op = "manual" -> clock]]
    /\ UNCHANGED <<clock, tables, loop, signal, executing>>

\* The UPDATE of set_schedule_enabled.
CommitEnabled(m) ==
    /\ edit[m] # NoEdit
    /\ edit[m].op \in {"enable", "disable"}
    /\ next' = IF Exists(edit[m].schedule)
               THEN [next EXCEPT ![edit[m].schedule] = edit[m].at] ELSE next
    /\ edit' = [edit EXCEPT ![m] = NoEdit]
    /\ Notify
    /\ UNCHANGED <<clock, definition, runs, loop, executing>>

\* The trigger time of a manual run: now, moved behind every run that exists.
ManualTimes(s, at) ==
    {t \in {at} \cup {r.at + 1 : r \in RunsOf(s)} : t >= at /\ \A r \in RunsOf(s) : t > r.at}

\* Mutant: the active runs are looked up before the transaction begins.
ManualSkippedUnseen(m) == FALSE

ManualSkipped(m) == ActiveRun(edit[m].schedule) /\ edit[m].definition.overlap = "skip"

\* The transaction of enqueue_manual_run; its INSERT fails for a schedule that
\* was deleted meanwhile and for a trigger that has a run.
CommitManual(m) ==
    /\ edit[m] # NoEdit
    /\ edit[m].op = "manual"
    /\ \E t \in ManualTimes(edit[m].schedule, edit[m].at) :
        runs' = IF Exists(edit[m].schedule) /\ ~ RowExists(edit[m].schedule, t)
                THEN runs \cup {Row(edit[m].schedule, t, ManualSkipped(m))}
                ELSE runs
    /\ edit' = [edit EXCEPT ![m] = NoEdit]
    /\ Notify
    /\ UNCHANGED <<clock, definition, next, loop, executing>>

\* Mutant: deleted without a look at its runs.
DeleteActive(s) ==
    /\ Exists(s)
    /\ definition' = [definition EXCEPT ![s] = Deleted]
    /\ next' = [next EXCEPT ![s] = NoTime]
    /\ runs' = runs \ RunsOf(s)
    /\ Notify
    /\ UNCHANGED <<clock, edit, loop, executing>>

\* delete_schedule: refused while a run is active; its runs go with it.
Delete(s) ==
    /\ Exists(s)
    /\ ~ ActiveRun(s)
    /\ definition' = [definition EXCEPT ![s] = Deleted]
    /\ next' = [next EXCEPT ![s] = NoTime]
    /\ runs' = runs \ RunsOf(s)
    /\ Notify
    /\ UNCHANGED <<clock, edit, loop, executing>>

-----------------------------------------------------------------------------
\* The scheduler loop.

Start ==
    /\ runner = "off"
    /\ starts < MaxStarts
    /\ starts' = starts + 1
    /\ runner' = "enqueue"
    /\ now' = clock
    /\ UNCHANGED <<clock, tables, edit, wakeAt, signal, executing>>

Due == {s \in Schedules : Exists(s) /\ next[s] # NoTime /\ next[s] <= now}

SkippedTrigger(s) ==
    \/ ActiveRun(s) /\ definition[s].overlap = "skip"
    \/ now - next[s] > MisfireGrace /\ definition[s].misfire = "skip"

\* enqueue_due_runs: one transaction, which the first failing INSERT aborts.
Enqueue ==
    /\ runner = "enqueue"
    /\ runner' = "claim"
    /\ \/ /\ \E s \in Due : RowExists(s, next[s])
          /\ UNCHANGED <<next, runs>>
       \/ /\ \A s \in Due : ~ RowExists(s, next[s])
          /\ runs' = runs \cup {Row(s, next[s], SkippedTrigger(s)) : s \in Due}
          /\ next' = [s \in Schedules |->
                IF s \in Due THEN NextAfter(definition[s].cron, now) ELSE next[s]]
    /\ UNCHANGED <<clock, definition, edit, now, wakeAt, signal, executing, starts>>

\* Mutant: a run left behind by a dead process is never looked at again.
ClaimableQueued == {r \in runs : r.status = "queued"}

Claimable ==
    {r \in runs : r.status = "queued" \/ (r.status = "running" /\ r.lease <= now)}

\* Mutant: the lease ends with the runtime limit.
LeaseEndTight == now + MaxRuntime

LeaseEnd == now + MaxRuntime + LeaseMargin

\* Mutant: all claimable runs are leased at once.
ClaimedAll(K) == K = Claimable

\* As many of the claimable runs as there are permits; which ones the order of
\* their creation decides is left open.
Claimed(K) ==
    LET available == MaxConcurrency - Cardinality(executing)
    IN /\ Cardinality(K) <= available
       /\ K # Claimable => Cardinality(K) = available

\* claim_pending_runs, and the spawn of the executions.
Claim ==
    /\ runner = "claim"
    /\ runner' = "plan"
    /\ \E K \in SUBSET Claimable :
        /\ Claimed(K)
        /\ runs' = (runs \ K) \cup
            {[r EXCEPT !.status = "running", !.owner = starts, !.lease = LeaseEnd] : r \in K}
        /\ executing' = executing \cup
            {[schedule |-> r.schedule, at |-> r.at, owner |-> starts, since |-> now] : r \in K}
    /\ now' = 0
    /\ UNCHANGED <<clock, definition, next, edit, wakeAt, signal, starts>>

\* next_sleep_duration: until the next trigger, but not for longer than MAX_SLEEP.
PlanSleep ==
    /\ runner = "plan"
    /\ runner' = "sleep"
    /\ \E t \in {clock + MaxSleep} \cup {next[s] : s \in Schedules} :
        /\ t # NoTime
        /\ \A u \in {clock + MaxSleep} \cup ({next[s] : s \in Schedules} \ {NoTime}) : t <= u
        /\ wakeAt' = t
    /\ UNCHANGED <<clock, tables, edit, now, signal, executing, starts>>

\* Mutant: the loop sleeps until it is notified.
WakeOnSignal ==
    /\ runner = "sleep"
    /\ signal
    /\ runner' = "enqueue"
    /\ now' = clock /\ wakeAt' = 0
    /\ signal' = FALSE
    /\ UNCHANGED <<clock, tables, edit, executing, starts>>

\* The select! ends: the sleep is over, a Web request notified, an execution ended.
Wake ==
    /\ runner = "sleep"
    /\ clock >= wakeAt \/ signal
    /\ runner' = "enqueue"
    /\ now' = clock /\ wakeAt' = 0
    /\ signal' = FALSE
    /\ UNCHANGED <<clock, tables, edit, executing, starts>>

\* An execution ends - done, failed, timed out or cancelled by shutdown - and
\* finish_run records it if the lease is still its own.
Finish(e) ==
    /\ e \in executing
    /\ executing' = executing \ {e}
    /\ runs' = {IF r.schedule = e.schedule /\ r.at = e.at /\ r.owner = e.owner
                THEN [r EXCEPT !.status = "finished", !.owner = 0, !.lease = 0] ELSE r : r \in runs}
    /\ signal' = TRUE
    /\ UNCHANGED <<clock, definition, next, edit, loop>>

\* finish_run fails: the run stays "running" until its lease expires.
FinishFails(e) ==
    /\ e \in executing
    /\ executing' = executing \ {e}
    /\ signal' = TRUE
    /\ UNCHANGED <<clock, tables, edit, loop>>

\* begin_shutdown: the loop is left from its select! and waits for its executions.
Shutdown ==
    /\ runner = "sleep"
    /\ runner' = "stopping"
    /\ wakeAt' = 0
    /\ UNCHANGED <<clock, tables, edit, now, signal, executing, starts>>

Stopped ==
    /\ runner = "stopping"
    /\ executing = {}
    /\ runner' = "off"
    /\ signal' = FALSE
    /\ UNCHANGED <<clock, tables, edit, now, wakeAt, executing, starts>>

\* The process is killed.
Crash ==
    /\ runner # "off"
    /\ runner' = "off"
    /\ executing' = {}
    /\ signal' = FALSE
    /\ now' = 0 /\ wakeAt' = 0
    /\ UNCHANGED <<clock, tables, edit, starts>>

\* Time passes.  The margin of the lease is longer than the loop takes from its
\* look at the clock to the claim, and than an execution, which gives up after
\* max_runtime_seconds, takes altogether beyond that limit.
Tick ==
    /\ clock < MaxClock
    /\ runner \in {"enqueue", "claim"} => clock + 1 < now + LeaseMargin
    /\ \A e \in executing : clock + 1 < e.since + MaxRuntime + LeaseMargin
    /\ clock' = clock + 1
    /\ UNCHANGED <<tables, edit, loop, signal, executing>>

-----------------------------------------------------------------------------
Manage(m) ==
    \/ \E s \in Schedules :
        \/ \E d \in Allowed[s], on \in BOOLEAN : BeginWrite(m, s, d, on)
        \/ \E op \in {"enable", "disable", "manual"} : BeginUse(m, s, op)
    \/ CommitWrite(m) \/ CommitEnabled(m) \/ CommitManual(m)

Step == Enqueue \/ Claim \/ PlanSleep \/ Wake \/ Stopped

Next ==
    \/ \E m \in Managers : Manage(m)
    \/ \E s \in Schedules : Delete(s)
    \/ \E e \in executing : Finish(e) \/ FinishFails(e)
    \/ Start \/ Step \/ Shutdown \/ Crash \/ Tick

Spec == Init /\ [][Next]_vars

\* The loop runs, a service manager restarts the service, time passes,
\* executions end.
FairSpec ==
    /\ Spec
    /\ WF_vars(Start) /\ WF_vars(Step) /\ WF_vars(Tick)
    /\ WF_vars(\E e \in executing : Finish(e))

-----------------------------------------------------------------------------
\* Properties.

Times == Nat \cup {NoTime}
Run == [schedule : Schedules, at : Nat, owner : Nat, lease : Nat, status : Statuses]
Execution == [schedule : Schedules, at : Nat, owner : Nat, since : Nat]
Edit ==
    [op : {"create", "update", "enable", "disable"},
     schedule : Schedules, definition : Definitions, at : Times]
    \cup [op : {"manual"}, schedule : Schedules, definition : Definitions, at : Nat]

TypeOK ==
    /\ clock \in 0..MaxClock
    /\ definition \in [Schedules -> Definitions \cup {Absent, Deleted}]
    /\ next \in [Schedules -> Times]
    /\ runs \subseteq Run
    /\ \A q, r \in runs : q.schedule = r.schedule /\ q.at = r.at => q = r
    /\ edit \in [Managers -> Edit \cup {NoEdit}]
    /\ runner \in RunnerPhases
    /\ now \in 0..MaxClock /\ wakeAt \in Nat
    /\ signal \in BOOLEAN
    /\ executing \subseteq Execution
    /\ starts \in 0..MaxStarts

\* A run is executed by one execution at a time: the lease outlasts the runtime
\* limit, so a run is claimed again only after its executor is gone.
NoConcurrentExecution ==
    \A e, f \in executing : e.schedule = f.schedule /\ e.at = f.at => e = f

\* No run is claimed that would have to wait for a permit while its lease runs.
WithinConcurrency == Cardinality(executing) <= MaxConcurrency

\* While its runs overlap by policy "skip", a schedule has at most one active
\* run, whatever managers, triggers and restarts add.
OverlapIsSkipped ==
    \A s \in Schedules :
        (\A d \in Allowed[s] : d.overlap = "skip") =>
            \A q, r \in RunsOf(s) : q.status \in Active /\ r.status \in Active => q = r

\* Whatever is executed can be recorded: its run is there and "running" under
\* the lease of the executor - no delete and no second claim takes it away.
ExecutionsHaveRuns ==
    \A e \in executing : \E r \in runs :
        r.schedule = e.schedule /\ r.at = e.at /\ r.status = "running" /\ r.owner = e.owner

\* A manual run is recorded, queued or skipped, whatever runs were triggered in
\* its millisecond or later: "overlap_policy_records_skipped_manual_run"
\* (schedule_store.rs:632) enqueues two at once.
ManualRunsAreRecorded ==
    [][\A m \in Managers :
        (/\ edit[m] # NoEdit /\ edit'[m] = NoEdit
         /\ edit[m].op = "manual" /\ Exists(edit[m].schedule))
        => Cardinality(runs') = Cardinality(runs) + 1]_vars

\* The end of the modelled time: the loop sleeps beyond it, or may not start again.
BeyondBounds ==
    \/ runner = "sleep" /\ wakeAt > MaxClock /\ ~ signal
    \/ runner = "off" /\ starts = MaxStarts

IsDue(s) == Exists(s) /\ next[s] # NoTime /\ next[s] <= clock

\* A due schedule gets its run, unless a trigger that is taken already blocks
\* the transaction of all schedules.
DueIsEnqueued ==
    \A s \in Schedules :
        IsDue(s) ~> (~ IsDue(s) \/ BeyondBounds
                        \/ \E t \in Schedules : Exists(t) /\ next[t] # NoTime /\ RowExists(t, next[t]))

\* "Actual cron and queued-run execution is owned by the scheduler inside a
\* running rauto web or rauto serve process" (README.md:734): while it runs, a
\* schedule does not stay due.
DueSchedulesRun == \A s \in Schedules : IsDue(s) ~> (~ IsDue(s) \/ BeyondBounds)

\* A run ends, also when the process that executed it was killed or could not
\* record its result (except for a lease that ends after the modelled time).
RunsEnd ==
    \A s \in Schedules :
        ActiveRun(s) ~> \/ ~ ActiveRun(s)
                        \/ BeyondBounds
                        \/ \E r \in RunsOf(s) : r.status = "running" /\ r.lease > MaxClock
                                /\ \A e \in executing : e.at # r.at

-----------------------------------------------------------------------------
\* Values of the constants for TLC: cron expressions are periods, and managers give
\* every schedule the policy skip, or all but one definitions of both policies.
Periodically(period, t) == (t \div period + 1) * period

Skipping == [s \in Schedules |-> {[cron |-> 2, overlap |-> "skip", misfire |-> "fire_once"]}]

OneSkipping ==
    LET skipper == CHOOSE s \in Schedules : TRUE
        Both == {[cron |-> 2, overlap |-> "allow", misfire |-> "skip"],
                 [cron |-> 3, overlap |-> "skip", misfire |-> "skip"]}
    IN [s \in Schedules |-> IF s = skipper THEN Skipping[s] ELSE Both]
=============================================================================
