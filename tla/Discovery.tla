----------------------------- MODULE Discovery -----------------------------
(***************************************************************************)
(* Device discovery (src/src/web/handlers/device_discovery.rs): a scan is  *)
(* a detached task that reports to its row of the database, a second task  *)
(* keeps the lease of the row fresh, and requests start and cancel scans.  *)
(* The database keeps one run and its results; a start replaces them,      *)
(* unless the run is active and its lease is fresh.                        *)
(*                                                                         *)
(* Targets differ by their results only, so the table of results is three  *)
(* counts, as the progress of a row is; which probes identified a device   *)
(* is left out.  The process that owns the runtime is the only one that    *)
(* scans (RuntimeOwnership); rows and leases outlive it.                   *)
(***************************************************************************)
EXTENDS Naturals, FiniteSets

CONSTANTS TotalTargets, \* addresses and ports to scan
          MaxRuns,      \* bound: how many scans are started
          MaxTroubles,  \* bound: how many cancel requests and late leases there are
          MayBeLate     \* a lease that is kept may expire all the same

Runs == 1..MaxRuns
NoRun == 0

ASSUME DiscoveryAssumption ==
    /\ TotalTargets \in Nat \ {0} /\ MaxRuns \in Nat
    /\ MaxTroubles \in Nat /\ MayBeLate \in BOOLEAN

VARIABLES
    late,       \* history: a lease expired although it was kept (a database that
                \* is busy for long, a process that was suspended)
    asked,      \* how many cancel requests have arrived
    last,       \* the last run started
    row,        \* the row of the latest run
    results,    \* its results: how many, of reachable targets, of probes
    lease,      \* the lease: its run, and whether it is younger than 10 s
    tasks,      \* per run: its entry of the Task Center
    worker,     \* per run: where the request, then the worker, is
    found,      \* per run: the counters of the worker
    cancelled,  \* per run: the value of its watch channel
    keeping,    \* the runs with a lease task
    request     \* the cancel request in progress: what it read and what it writes

database == <<row, results, lease, tasks>>
memory == <<worker, found, cancelled, keeping, request>>
vars == <<late, asked, last, database, memory>>

Active == {"queued", "running", "cancelling"}
Ended == {"completed", "cancelled", "failed"}
Counters == [scanned : 0..TotalTargets, reachable : 0..TotalTargets, probed : 0..TotalTargets]
Zero == [scanned |-> 0, reachable |-> 0, probed |-> 0]
NoRow == [id |-> NoRun, status |-> "none", seen |-> Zero]
NoLease == [run |-> NoRun, fresh |-> FALSE]
NoRequest == [run |-> NoRun, seen |-> Zero, verdict |-> "none"]

\* The request is still starting the worker.
Starting == {"accept", "register"}
\* execute_discovery_run, which holds the receiver of the channel.
Executing == {"begin", "scan", "scanned", "probe", "probed", "stop"}
\* What the worker does after it.
Closing == {"ended", "broken", "reload", "fail", "record", "succeed", "regret", "release"}

TypeOK ==
    /\ late \in BOOLEAN /\ asked \in 0..MaxTroubles
    /\ last \in 0..MaxRuns
    /\ row \in [id : 0..last, status : Active \cup Ended \cup {"none"}, seen : Counters]
    /\ results \in Counters
    /\ lease \in [run : {NoRun, row.id}, fresh : BOOLEAN]
    /\ tasks \in [Runs -> {"none", "queued", "success", "failed"}]
    /\ worker \in [Runs -> {"new", "gone"} \cup Starting \cup Executing \cup Closing]
    /\ found \in [Runs -> Counters]
    /\ cancelled \in [Runs -> BOOLEAN]
    /\ keeping \subseteq Runs
    /\ request \in [run : 0..last, seen : Counters, verdict : {"none", "cancelling", "cancelled"}]

Init ==
    /\ late = FALSE /\ asked = 0
    /\ last = 0 /\ row = NoRow /\ results = Zero /\ lease = NoLease
    /\ tasks = [r \in Runs |-> "none"]
    /\ worker = [r \in Runs |-> "new"]
    /\ found = [r \in Runs |-> Zero]
    /\ cancelled = [r \in Runs |-> FALSE]
    /\ keeping = {} /\ request = NoRequest

\* update_run_state: nothing when the run was replaced.
Update(r, status, seen) ==
    row' = IF row.id = r THEN [row EXCEPT !.status = status, !.seen = seen] ELSE row

Step(r, from, to) == worker[r] = from /\ worker' = [worker EXCEPT ![r] = to]

\* The locals of a future are dropped with it.
Forget(S) ==
    /\ found' = [r \in Runs |-> IF r \in S THEN Zero ELSE found[r]]
    /\ cancelled' = [r \in Runs |-> cancelled[r] /\ r \notin S]

-----------------------------------------------------------------------------
\* start_device_discovery_run.

\* Mutant: a lease is no obstacle.
StartableAnyTime == TRUE

\* The check of replace_latest_run.
Startable == row.status \in Active => ~ lease.fresh

\* replace_latest_run: the rows of older runs go, with their lease.
Start ==
    /\ last < MaxRuns /\ Startable
    /\ last' = last + 1
    /\ row' = [id |-> last', status |-> "queued", seen |-> Zero]
    /\ results' = Zero
    /\ lease' = [run |-> last', fresh |-> TRUE]
    /\ tasks' = [r \in Runs |-> "none"]
    /\ worker' = [worker EXCEPT ![last'] = "accept"]
    /\ UNCHANGED <<late, asked, found, cancelled, keeping, request>>

\* save_task_accepted; an error is only logged.
Accept(r) ==
    /\ Step(r, "accept", "register")
    /\ tasks' \in {tasks, [tasks EXCEPT ![r] = "queued"]}
    /\ UNCHANGED <<late, asked, last, row, results, lease, found, cancelled, keeping, request>>

\* The cancellation is registered, the worker and its lease task are spawned.
Register(r) ==
    /\ Step(r, "register", "begin")
    /\ keeping' = keeping \cup {r}
    /\ UNCHANGED <<late, asked, last, database, found, cancelled, request>>

\* The client went away: the future of its request is dropped.
Abandon(r) ==
    /\ worker[r] \in Starting
    /\ worker' = [worker EXCEPT ![r] = "gone"]
    /\ UNCHANGED <<late, asked, last, database, found, cancelled, keeping, request>>

-----------------------------------------------------------------------------
\* execute_discovery_run.

Begin(r) ==
    /\ Step(r, "begin", "scan")
    /\ Update(r, "running", Zero)
    /\ UNCHANGED <<late, asked, last, results, lease, tasks, found, cancelled, keeping, request>>

\* A target is scanned, or a reachable one probed.
Counted(counters, reached) ==
    [counters EXCEPT !.scanned = @ + 1, !.reachable = @ + (IF reached THEN 1 ELSE 0)]
Probed(counters) == [counters EXCEPT !.probed = @ + 1]

\* Mutant: without the foreign key.
StrayUpsert(r, table, to) ==
    /\ results' = table
    /\ worker' = [worker EXCEPT ![r] = to]

\* upsert_result: a foreign key refuses results of a run that was replaced.
Upsert(r, table, to) ==
    IF row.id = r
    THEN results' = table /\ worker' = [worker EXCEPT ![r] = to]
    ELSE worker' = [worker EXCEPT ![r] = "broken"] /\ UNCHANGED results

\* A result arrives at a worker that was cancelled.
Drop(r) ==
    /\ cancelled[r]
    /\ \/ Step(r, "scan", "stop") /\ found[r].scanned < TotalTargets
       \/ Step(r, "probe", "stop") /\ found[r].probed < found[r].reachable
    /\ UNCHANGED <<late, asked, last, database, found, cancelled, keeping, request>>

\* The result of a port.
Scan(r) ==
    /\ worker[r] = "scan" /\ found[r].scanned < TotalTargets /\ ~ cancelled[r]
    /\ \E reached \in BOOLEAN :
        /\ found' = [found EXCEPT ![r] = Counted(@, reached)]
        /\ Upsert(r, Counted(results, reached), "scanned")
    /\ UNCHANGED <<late, asked, last, row, lease, tasks, cancelled, keeping, request>>

\* The result of a probe.
Probe(r) ==
    /\ worker[r] = "probe" /\ found[r].probed < found[r].reachable /\ ~ cancelled[r]
    /\ found' = [found EXCEPT ![r] = Probed(@)]
    /\ Upsert(r, Probed(results), "probed")
    /\ UNCHANGED <<late, asked, last, row, lease, tasks, cancelled, keeping, request>>

\* The progress after a result.
Report(r) ==
    /\ \/ Step(r, "scanned", "scan")
       \/ Step(r, "probed", "probe")
    /\ Update(r, "running", found[r])
    /\ UNCHANGED <<late, asked, last, results, lease, tasks, found, cancelled, keeping, request>>

EndScan(r) ==
    /\ found[r].scanned = TotalTargets
    /\ Step(r, "scan", "probe")
    /\ Update(r, "running", found[r])
    /\ UNCHANGED <<late, asked, last, results, lease, tasks, found, cancelled, keeping, request>>

\* Mutant: the stream of probes is not drained.
CompleteEarly(r) ==
    /\ Step(r, "probe", "ended")
    /\ Update(r, "completed", found[r])
    /\ UNCHANGED <<late, asked, last, results, lease, tasks, found, cancelled, keeping, request>>

\* The last status; a cancellation is not looked at any more.
Complete(r) ==
    /\ found[r].probed = found[r].reachable
    /\ Step(r, "probe", "ended")
    /\ Update(r, "completed", found[r])
    /\ UNCHANGED <<late, asked, last, results, lease, tasks, found, cancelled, keeping, request>>

FinishCancelled(r) ==
    /\ Step(r, "stop", "ended")
    /\ Update(r, "cancelled", found[r])
    /\ UNCHANGED <<late, asked, last, results, lease, tasks, found, cancelled, keeping, request>>

\* An error of the database ends the execution anywhere.
Break(r) ==
    /\ worker[r] \in Executing
    /\ worker' = [worker EXCEPT ![r] = "broken"]
    /\ UNCHANGED <<late, asked, last, database, found, cancelled, keeping, request>>

\* A panic drops the stop channel, which ends the lease task, and closes
\* nothing else.
Panic(r) ==
    /\ worker[r] \in {"scan", "probe"}
    /\ worker' = [worker EXCEPT ![r] = "gone"]
    /\ keeping' = keeping \ {r}
    /\ Forget({r})
    /\ UNCHANGED <<late, asked, last, database, request>>

-----------------------------------------------------------------------------
\* What the worker does when the execution has ended.

\* Mutant: every run is closed as a failed one.
StopLeaseFailing(r) ==
    /\ Step(r, "ended", "reload") \/ Step(r, "broken", "reload")
    /\ keeping' = keeping \ {r}
    /\ Forget({r})
    /\ UNCHANGED <<late, asked, last, database, request>>

\* The lease task is stopped and joined.
StopLease(r) ==
    /\ \/ Step(r, "ended", "record")
       \/ Step(r, "broken", "reload")
    /\ keeping' = keeping \ {r}
    /\ Forget({r})
    /\ UNCHANGED <<late, asked, last, database, request>>

\* The progress of a failed run is read back; without a row it is nothing.
Reload(r) ==
    /\ Step(r, "reload", "fail")
    /\ \E seen \in {Zero, IF row.id = r THEN row.seen ELSE Zero} :
        found' = [found EXCEPT ![r] = seen]
    /\ UNCHANGED <<late, asked, last, database, cancelled, keeping, request>>

\* failed_discovery_run_state; an error is ignored.
Fail(r) ==
    /\ Step(r, "fail", "record")
    /\ Update(r, "failed", found[r]) \/ UNCHANGED row
    /\ Forget({r})
    /\ UNCHANGED <<late, asked, last, results, lease, tasks, keeping, request>>

\* Mutant: a run that was cancelled is recorded as a success.
CarelessRecord(r) ==
    /\ \/ row.id = r /\ Step(r, "record", IF row.status = "failed" THEN "regret" ELSE "succeed")
       \/ Step(r, "record", "release")
    /\ UNCHANGED <<late, asked, last, database, found, cancelled, keeping, request>>

\* record_discovery_task reads the run and derives the callback, unless the
\* run was replaced or an error ends it, ...
Record(r) ==
    /\ \/ row.id = r /\ Step(r, "record", IF row.status = "completed" THEN "succeed" ELSE "regret")
       \/ Step(r, "record", "release")
    /\ UNCHANGED <<late, asked, last, database, found, cancelled, keeping, request>>

\* ... and saves it, whether or not the run is still the latest.
SaveCallback(r) ==
    /\ \/ /\ Step(r, "succeed", "release")
          /\ tasks' = [tasks EXCEPT ![r] = "success"]
       \/ /\ Step(r, "regret", "release")
          /\ tasks' = [tasks EXCEPT ![r] = "failed"]
    /\ UNCHANGED <<late, asked, last, row, results, lease, found, cancelled, keeping, request>>

\* release_run_lease, an error of which is only logged, and unregister_discovery_run.
Release(r) ==
    /\ Step(r, "release", "gone")
    /\ lease' \in {lease, IF lease.run = r THEN NoLease ELSE lease}
    /\ UNCHANGED <<late, asked, last, row, results, tasks, found, cancelled, keeping, request>>

-----------------------------------------------------------------------------
\* Leases and cancellations.

\* cancel_discovery_run of the state: the run is registered, and its receiver
\* ends with the execution.
Listening(r) == worker[r] \in Executing
Signal(r) == cancelled' = [cancelled EXCEPT ![r] = @ \/ Listening(r)]

\* maintain_discovery_lease: refreshed, or found to be another's.
Refresh(r) ==
    /\ r \in keeping
    /\ IF lease.run = r
       THEN /\ ~ lease.fresh
            /\ lease' = [lease EXCEPT !.fresh = TRUE]
            /\ UNCHANGED <<keeping, cancelled>>
       ELSE /\ keeping' = keeping \ {r}
            /\ Signal(r)
            /\ UNCHANGED lease
    /\ UNCHANGED <<late, asked, last, row, results, tasks, worker, found, request>>

\* Bound.
MoreTrouble == asked + (IF late THEN 1 ELSE 0) < MaxTroubles

\* Ten seconds without a refresh.
Lapsed == lease.run # NoRun /\ lease.run \notin keeping /\ worker[lease.run] \notin Starting
Expire ==
    /\ lease.fresh /\ (Lapsed \/ (MayBeLate /\ MoreTrouble))
    /\ lease' = [lease EXCEPT !.fresh = FALSE]
    /\ late' = (late \/ ~ Lapsed)
    /\ UNCHANGED <<asked, last, row, results, tasks, memory>>

\* Ctrl+C of the command that waits for its own scan.
Interrupt(r) ==
    /\ Listening(r) /\ ~ cancelled[r]
    /\ Signal(r)
    /\ UNCHANGED <<late, asked, last, database, worker, found, keeping, request>>

\* cancel_device_discovery_run reads the run, ...
CancelRead ==
    /\ MoreTrouble /\ request = NoRequest
    /\ asked' = asked + 1
    /\ row.status \in Active
    /\ request' = [run |-> row.id, seen |-> row.seen, verdict |-> "none"]
    /\ UNCHANGED <<late, last, database, worker, found, cancelled, keeping>>

\* ... signals the worker, ...
CancelSignal ==
    /\ request.run # NoRun /\ request.verdict = "none"
    /\ Signal(request.run)
    /\ request' = [request EXCEPT !.verdict = IF Listening(request.run) THEN "cancelling" ELSE "cancelled"]
    /\ UNCHANGED <<late, asked, last, database, worker, found, keeping>>

\* ... and writes a status, with the counters it has read.
CancelWrite ==
    /\ request.verdict # "none"
    /\ Update(request.run, request.verdict, request.seen)
    /\ request' = NoRequest
    /\ UNCHANGED <<late, asked, last, results, lease, tasks, worker, found, cancelled, keeping>>

\* The client went away, or the database failed.
CancelDrop ==
    /\ request # NoRequest
    /\ request' = NoRequest
    /\ UNCHANGED <<late, asked, last, database, worker, found, cancelled, keeping>>

\* The process ends or is killed; the next one knows the database only.
ProcessEnds ==
    /\ \E r \in Runs : worker[r] \notin {"new", "gone"}
    /\ worker' = [r \in Runs |-> IF worker[r] = "new" THEN "new" ELSE "gone"]
    /\ keeping' = {} /\ request' = NoRequest
    /\ Forget(Runs)
    /\ UNCHANGED <<late, asked, last, database>>

Launch(r) == Accept(r) \/ Register(r) \/ Abandon(r)
Execute(r) ==
    \/ Begin(r) \/ Scan(r) \/ Probe(r) \/ Drop(r) \/ Report(r) \/ EndScan(r)
    \/ Complete(r) \/ FinishCancelled(r) \/ Break(r) \/ Panic(r)
Close(r) == StopLease(r) \/ Reload(r) \/ Fail(r) \/ Record(r) \/ SaveCallback(r) \/ Release(r)
Cancel == CancelRead \/ CancelSignal \/ CancelWrite \/ CancelDrop

Next ==
    \/ Start \/ Expire \/ Cancel \/ ProcessEnds
    \/ \E r \in Runs : Launch(r) \/ Execute(r) \/ Close(r) \/ Refresh(r) \/ Interrupt(r)

Spec == Init /\ [][Next]_vars

-----------------------------------------------------------------------------
\* Safety.

\* While leases are kept in time and nobody uses the cancel endpoint, one
\* worker scans: a start finds the row active and its lease fresh, whatever
\* interrupts, errors, panics and process ends came before.
AtMostOneScan ==
    ~ late /\ asked = 0 => Cardinality({r \in Runs : worker[r] \in Executing}) <= 1

\* The lease task of the latest run finds its lease: a worker that was
\* replaced takes nobody's lease with it when it ends.
ScansHoldTheLease ==
    \A r \in keeping : row.id = r => lease.run = r

\* A start is refused because of a worker that is alive, or for the ten
\* seconds a lease outlives its worker: nothing refreshes a lease for a run
\* that nobody works on, whatever ended the worker.
OnlyWorkersBlock ==
    ~ Startable => lease.run = row.id /\ (Lapsed \/ worker[row.id] \in Starting \cup Executing \cup Closing)

\* A completed run has the outcome of every target, the counters of its row
\* count its results, and no result of a replaced run is among them.
CompletedIsComplete ==
    row.status = "completed" =>
        /\ results = row.seen
        /\ results.scanned = TotalTargets /\ results.probed = results.reachable

\* The Task Center agrees with the latest run: a success was completed, a
\* failure was not.  Only a cancellation can disown a success.
TaskEntryIsTrue ==
    \A r \in Runs : row.id = r =>
        /\ tasks[r] = "failed" => row.status # "completed"
        /\ tasks[r] = "success" /\ asked = 0 => row.status = "completed"

\* A completed or failed run stays what it is, progress included, but for a
\* cancellation that had read it before it ended.
EndedRunsStay ==
    [][row.status \in {"completed", "failed"} /\ row'.id = row.id /\ row' # row
        => request.run = row.id]_vars

\* README.md: "A second scan cannot start while the current one is active."
\* A cancellation between the row and the registration of its worker
\* writes 'cancelled', which admits a second scan next to the first.
OneActiveScan == Cardinality({r \in Runs : worker[r] \in Executing}) <= 1

\* README.md: "Starting another scan replaces the previous discovery run, its
\* results, and its Task Center entry".  The callback of a run that has
\* completed is saved after the rows were replaced.
OneTaskEntry == \A r \in Runs : tasks[r] # "none" => row.id = r
=============================================================================
