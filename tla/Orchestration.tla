--------------------------- MODULE Orchestration ---------------------------
(***************************************************************************)
(* The orchestrator (src/src/orchestrator/execution.rs): stages run one    *)
(* after the other, the jobs of a stage and the targets of a job in pools  *)
(* of tasks; failures stop what has not started (fail_fast, per plan,      *)
(* stage and job) and make it compensate successful targets.               *)
(*                                                                         *)
(* A job names its targets by a selector, which is resolved against the    *)
(* inventory (src/src/orchestrator/targets.rs) each time it is needed; the *)
(* inventory belongs to the Web workbench and to other commands.  Targets  *)
(* are listed by the name of their connection; a target is its number in   *)
(* the order of names, so a listing is a set and a position in it a rank.  *)
(***************************************************************************)
EXTENDS Integers, FiniteSets, Sequences

CONSTANTS Plans,        \* the plans validate_plan accepts
          Groups,       \* selectors of targets
          Devices,      \* saved connections, in the order of their names
          Inventories,  \* the inventories an orchestration may start with
          Editable,     \* the groups that change during an orchestration
          MaxEdits,     \* bound: how often they do
          Default,      \* max_parallel is not given
          Nothing       \* no compensation

Strategies == {"serial", "parallel"}
Limits == (Nat \ {0}) \cup {Default}
Job == [strategy : Strategies, max_parallel : Limits, fail_fast : BOOLEAN, group : Groups]
Stage == [strategy : Strategies, max_parallel : Limits, fail_fast : BOOLEAN, jobs : Seq(Job) \ {<<>>}]

ASSUME OrchestrationAssumption ==
    /\ Devices \subseteq Nat /\ IsFiniteSet(Devices) /\ MaxEdits \in Nat
    /\ Editable \subseteq Groups
    /\ Plans \subseteq [fail_fast : BOOLEAN, rollback_on_stage_failure : BOOLEAN,
                        rollback_completed_stages_on_failure : BOOLEAN,
                        stages : Seq(Stage) \ {<<>>}]
    /\ Inventories \subseteq [Groups -> SUBSET Devices]

ASSUME MarkerAssumption ==
    Default \notin Nat /\ Nothing \notin Devices

VARIABLES
    plan,
    members,  \* per group: the targets a job that selects it gets
    missing,  \* the groups that do not exist (any more)
    saving,   \* the members a save has deleted and not yet inserted again
    saved,    \* history, per group: the memberships somebody has saved
    edits,    \* how often the inventory changed
    stage,    \* the current stage
    phase,    \* what the orchestration does, or how it ended
    failed,   \* a stage has failed that ends the plan
    jobs,     \* per job: where it is, its targets and their results
    undo      \* the compensation in progress: its stage, job and targets

inventory == <<members, missing, saving, saved, edits>>
vars == <<plan, inventory, stage, phase, failed, jobs, undo>>

Phases == {"next", "stage", "compensate", "done", "error", "interrupted"}
Ended == {"done", "error", "interrupted"}
Results == {"pending", "running", "success", "failed", "skipped"}

Stages == 1..Len(plan.stages)
JobsOf(s) == 1..Len(plan.stages[s].jobs)
SlotsOf(s) == {s} \X JobsOf(s)
Slots == UNION {SlotsOf(s) : s \in Stages}
JobAt(k) == plan.stages[k[1]].jobs[k[2]]

\* The groups an edit of which matters.
Used == Editable \cap {JobAt(k).group : k \in Slots}

\* validate_plan leaves nothing else to check.  A job has no targets yet.
NewJob == [at |-> "pending", targets |-> {}, result |-> [d \in {} |-> "pending"],
           joined |-> {}, undone |-> [d \in {} |-> Nothing]]
UndoOf(s, j) == [stage |-> s, job |-> j, resolved |-> FALSE, listing |-> {}, rest |-> {}]
NoUndo == UndoOf(0, 0)

Init ==
    /\ plan \in Plans
    /\ missing \in SUBSET Used
    /\ \E start \in Inventories :
        members = [g \in Groups |-> IF g \in missing THEN {} ELSE start[g]]
    /\ saving = {} /\ saved = [g \in Groups |-> {members[g]}]
    /\ edits = 0
    /\ stage = 1 /\ phase = "next" /\ failed = FALSE
    /\ jobs = [k \in Slots |-> NewJob]
    /\ undo = NoUndo

\* How many jobs of a stage or targets of a job run at once.
Width(unit, n) ==
    IF unit.strategy = "serial" THEN 1
    ELSE LET limit == IF unit.max_parallel = Default THEN 4 ELSE unit.max_parallel
         IN  IF n = 0 THEN 1 ELSE IF limit < n THEN limit ELSE n

\* build_job_result and build_stage_result.
TargetsThat(k, result) == {d \in jobs[k].targets : jobs[k].result[d] = result}

\* Mutant: a job has failed when all its targets have.
JobFailedAll(k) == jobs[k].targets # {} /\ TargetsThat(k, "failed") = jobs[k].targets

JobFailed(k) == TargetsThat(k, "failed") # {}
StageFailed(s) == \E j \in JobsOf(s) : JobFailed(<<s, j>>)

Selected(k) == members[JobAt(k).group]
Unknown(k) == JobAt(k).group \in missing
Resolvable(s) == \A k \in SlotsOf(s) : ~ Unknown(k)

\* build_skipped_job.
SkippedJob(k) ==
    [at |-> "skipped", targets |-> Selected(k), result |-> [d \in Selected(k) |-> "skipped"],
     joined |-> {}, undone |-> [d \in Selected(k) |-> Nothing]]

-----------------------------------------------------------------------------
\* execute_plan.

\* A stage after a failure that ends the plan.
SkipStage ==
    /\ phase = "next" /\ stage \in Stages /\ failed
    /\ IF Resolvable(stage)
       THEN /\ jobs' = [k \in Slots |-> IF k[1] = stage THEN SkippedJob(k) ELSE jobs[k]]
            /\ stage' = stage + 1
            /\ UNCHANGED phase
       ELSE /\ phase' = "error"
            /\ UNCHANGED <<jobs, stage>>
    /\ UNCHANGED <<plan, inventory, failed, undo>>

\* count_stage_targets resolves the targets of all jobs once more than needed.
StartStage ==
    /\ phase = "next" /\ stage \in Stages /\ ~ failed
    /\ phase' = IF Resolvable(stage) THEN "stage" ELSE "error"
    /\ UNCHANGED <<plan, inventory, stage, failed, jobs, undo>>

Finish ==
    /\ phase = "next" /\ stage \notin Stages
    /\ phase' = "done"
    /\ UNCHANGED <<plan, inventory, stage, failed, jobs, undo>>

-----------------------------------------------------------------------------
\* execute_stage: the pool of the jobs.

JobsIn(at) == {k \in SlotsOf(stage) : jobs[k].at = at}
UnjoinedJobs == JobsIn("running") \cup JobsIn("broken") \cup JobsIn("ended")

\* stop_spawning of the stage: a failed job has been joined.
StageStops == plan.stages[stage].fail_fast /\ \E k \in JobsIn("joined") : JobFailed(k)

\* The pool is filled up before the next job is joined.
RoomForJobs ==
    /\ JobsIn("pending") # {} /\ ~ StageStops
    /\ Cardinality(UnjoinedJobs) < Width(plan.stages[stage], Len(plan.stages[stage].jobs))

\* Jobs start in order; a job whose targets cannot be resolved ends at once.
StartJob(k) ==
    /\ phase = "stage" /\ RoomForJobs
    /\ k \in JobsIn("pending") /\ \A l \in JobsIn("pending") : k[2] <= l[2]
    /\ jobs' = [jobs EXCEPT ![k] =
        IF Unknown(k) THEN [NewJob EXCEPT !.at = "broken"]
        ELSE [at |-> "running", targets |-> Selected(k),
              result |-> [d \in Selected(k) |-> "pending"], joined |-> {},
              undone |-> [d \in Selected(k) |-> Nothing]]]
    /\ UNCHANGED <<plan, inventory, stage, phase, failed, undo>>

\* The error of a broken job ends the orchestration: its other tasks are dropped.
JoinJob(k) ==
    /\ phase = "stage" /\ ~ RoomForJobs
    /\ \/ /\ k \in JobsIn("ended")
          /\ jobs' = [jobs EXCEPT ![k].at = "joined"]
          /\ UNCHANGED phase
       \/ /\ k \in JobsIn("broken")
          /\ phase' = "error"
          /\ UNCHANGED jobs
    /\ UNCHANGED <<plan, inventory, stage, failed, undo>>

\* Mutant: only fail_fast ends the plan.
EndsPlanFailFast == plan.fail_fast

\* A failed stage ends the plan.
EndsPlan == plan.fail_fast \/ plan.rollback_completed_stages_on_failure

Compensates == plan.rollback_on_stage_failure \/ plan.rollback_completed_stages_on_failure

\* Mutant: the stage waits for all its jobs.
EndStageAllStarted ==
    /\ phase = "stage" /\ \A k \in SlotsOf(stage) : k \in JobsIn("joined")
    /\ failed' = (StageFailed(stage) /\ EndsPlan)
    /\ phase' = "next" /\ stage' = stage + 1
    /\ UNCHANGED <<plan, inventory, jobs, undo>>

\* Jobs that were not started are skipped; a failed stage is compensated.
EndStage ==
    /\ phase = "stage"
    /\ UnjoinedJobs = {}
    /\ JobsIn("pending") = {} \/ StageStops
    /\ IF \A k \in JobsIn("pending") : ~ Unknown(k)
       THEN /\ jobs' = [k \in Slots |-> IF k \in JobsIn("pending") THEN SkippedJob(k) ELSE jobs[k]]
            /\ failed' = (StageFailed(stage) /\ EndsPlan)
            /\ IF StageFailed(stage) /\ Compensates
               THEN /\ phase' = "compensate"
                    /\ undo' = UndoOf(stage, 1)
                    /\ UNCHANGED stage
               ELSE /\ phase' = "next"
                    /\ stage' = stage + 1
                    /\ UNCHANGED undo
       ELSE /\ phase' = "error"
            /\ UNCHANGED <<jobs, failed, stage, undo>>
    /\ UNCHANGED <<plan, inventory>>

-----------------------------------------------------------------------------
\* execute_job: the pool of the targets.

Unjoined(k) == {d \in jobs[k].targets : jobs[k].result[d] \in {"running", "success", "failed"}}
                \ jobs[k].joined

\* Mutant: the flag of the stage is taken for that of the job.
JobStopsOfStage(k) ==
    plan.stages[k[1]].fail_fast /\ \E d \in jobs[k].joined : jobs[k].result[d] = "failed"

\* stop_spawning of the job: a failed target has been joined.
JobStops(k) == JobAt(k).fail_fast /\ \E d \in jobs[k].joined : jobs[k].result[d] = "failed"

\* The pool is filled up before the next target is joined.
RoomForTargets(k) ==
    /\ TargetsThat(k, "pending") # {} /\ ~ JobStops(k)
    /\ Cardinality(Unjoined(k)) < Width(JobAt(k), Cardinality(jobs[k].targets))

StartTarget(k, d) ==
    /\ phase = "stage" /\ k \in JobsIn("running") /\ RoomForTargets(k)
    /\ d \in TargetsThat(k, "pending") /\ \A e \in TargetsThat(k, "pending") : d <= e
    /\ jobs' = [jobs EXCEPT ![k].result[d] = "running"]
    /\ UNCHANGED <<plan, inventory, stage, phase, failed, undo>>

\* execute_target: the connection is not found or the workflow does not commit.
EndTarget(k, d) ==
    /\ phase = "stage" /\ k \in JobsIn("running")
    /\ d \in TargetsThat(k, "running")
    /\ \E result \in {"success", "failed"} : jobs' = [jobs EXCEPT ![k].result[d] = result]
    /\ UNCHANGED <<plan, inventory, stage, phase, failed, undo>>

JoinTarget(k, d) ==
    /\ phase = "stage" /\ k \in JobsIn("running") /\ ~ RoomForTargets(k)
    /\ d \in TargetsThat(k, "success") \cup TargetsThat(k, "failed")
    /\ d \notin jobs[k].joined
    /\ jobs' = [jobs EXCEPT ![k].joined = @ \cup {d}]
    /\ UNCHANGED <<plan, inventory, stage, phase, failed, undo>>

\* Mutant: targets that were not started are forgotten.
EndJobForgets(k) ==
    /\ phase = "stage" /\ k \in JobsIn("running")
    /\ Unjoined(k) = {}
    /\ TargetsThat(k, "pending") = {} \/ JobStops(k)
    /\ jobs' = [jobs EXCEPT ![k].at = "ended"]
    /\ UNCHANGED <<plan, inventory, stage, phase, failed, undo>>

\* Targets that were not started are skipped.
EndJob(k) ==
    /\ phase = "stage" /\ k \in JobsIn("running")
    /\ Unjoined(k) = {}
    /\ TargetsThat(k, "pending") = {} \/ JobStops(k)
    /\ jobs' = [jobs EXCEPT ![k].at = "ended",
                            ![k].result = [d \in jobs[k].targets |->
                                IF @[d] = "pending" THEN "skipped" ELSE @[d]]]
    /\ UNCHANGED <<plan, inventory, stage, phase, failed, undo>>

-----------------------------------------------------------------------------
\* compensate_stage and compensate_completed_stages.

Undoing == <<undo.stage, undo.job>>
Rank(S, d) == Cardinality({e \in S : e <= d})

\* The targets of the job are resolved anew.
ResolveUndo ==
    /\ phase = "compensate" /\ ~ undo.resolved
    /\ IF Unknown(Undoing)
       THEN /\ phase' = "error"
            /\ UNCHANGED undo
       ELSE /\ undo' = [stage |-> undo.stage, job |-> undo.job, resolved |-> TRUE,
                        listing |-> Selected(Undoing),
                        rest |-> {d \in TargetsThat(Undoing, "success") :
                                    jobs[Undoing].undone[d] = Nothing}]
            /\ UNCHANGED phase
    /\ UNCHANGED <<plan, inventory, stage, failed, jobs>>

\* The target at the position of the result is compensated, if there is one.
UndoTarget(d) ==
    /\ phase = "compensate" /\ undo.resolved
    /\ d \in undo.rest /\ \A e \in undo.rest : d <= e
    /\ undo' = [undo EXCEPT !.rest = @ \ {d}]
    /\ LET same == {e \in undo.listing : Rank(undo.listing, e) = Rank(jobs[Undoing].targets, d)}
       IN  IF same = {} THEN UNCHANGED jobs
           ELSE \E e \in same : jobs' = [jobs EXCEPT ![Undoing].undone[d] = e]
    /\ UNCHANGED <<plan, inventory, stage, phase, failed>>

\* Mutant: earlier stages are not compensated.
NextUndoOneStage ==
    IF undo.job < Len(plan.stages[undo.stage].jobs)
    THEN UndoOf(undo.stage, undo.job + 1)
    ELSE NoUndo

\* The next job of the stage, then the stage before it if those are compensated too.
NextUndo ==
    IF undo.job < Len(plan.stages[undo.stage].jobs)
    THEN UndoOf(undo.stage, undo.job + 1)
    ELSE IF plan.rollback_completed_stages_on_failure /\ undo.stage > 1
    THEN UndoOf(undo.stage - 1, 1)
    ELSE NoUndo

EndUndo ==
    /\ phase = "compensate" /\ undo.resolved /\ undo.rest = {}
    /\ undo' = NextUndo
    /\ phase' = IF NextUndo = NoUndo THEN "next" ELSE phase
    /\ stage' = IF NextUndo = NoUndo THEN stage + 1 ELSE stage
    /\ UNCHANGED <<plan, inventory, failed, jobs>>

-----------------------------------------------------------------------------
\* The service shuts down or the schedule's time is over: the future is dropped.
Interrupt ==
    /\ phase \notin Ended
    /\ phase' = "interrupted"
    /\ UNCHANGED <<plan, inventory, stage, failed, jobs, undo>>

\* upsert_group: no transaction, but a deletion and one insertion after the other.
Save(g) ==
    /\ edits < MaxEdits /\ saving = {}
    /\ edits' = edits + 1
    /\ missing' = missing \ {g}
    /\ members' = [members EXCEPT ![g] = {}]
    /\ \E hosts \in SUBSET Devices :
        /\ saving' = {g} \X hosts
        /\ saved' = [saved EXCEPT ![g] = @ \cup {hosts}]

InsertMember(g) ==
    \E m \in saving :
        /\ m[1] = g /\ g \notin missing
        /\ members' = [members EXCEPT ![g] = @ \cup {m[2]}]
        /\ saving' = saving \ {m}
        /\ UNCHANGED <<missing, saved, edits>>

\* The members are deleted with their group, and what remains of a save fails.
DeleteGroup(g) ==
    /\ edits < MaxEdits
    /\ edits' = edits + 1
    /\ missing' = missing \cup {g}
    /\ members' = [members EXCEPT ![g] = {}]
    /\ saving' = {m \in saving : m[1] # g}
    /\ UNCHANGED saved

\* Somebody saves a group or deletes it.
Edit(g) ==
    /\ phase \notin Ended
    /\ Save(g) \/ InsertMember(g) \/ DeleteGroup(g)
    /\ UNCHANGED <<plan, stage, phase, failed, jobs, undo>>

Pool(k) ==
    \/ StartJob(k) \/ JoinJob(k) \/ EndJob(k)
    \/ \E d \in jobs[k].targets : StartTarget(k, d) \/ EndTarget(k, d) \/ JoinTarget(k, d)

Step ==
    \/ SkipStage \/ StartStage \/ EndStage \/ Finish
    \/ \E k \in Slots : Pool(k)
    \/ ResolveUndo \/ EndUndo \/ \E d \in undo.rest : UndoTarget(d)

Next == Step \/ Interrupt \/ \E g \in Used : Edit(g)

Spec == Init /\ [][Next]_vars

\* Tasks run, and every workflow on a device ends (execution timeouts).
FairSpec == Spec /\ WF_vars(Step)

-----------------------------------------------------------------------------
\* Properties.

JobState(T) ==
    [at : {"pending", "broken"}, targets : {{}}, result : [{} -> Results],
     joined : {{}}, undone : [{} -> Devices]]
    \cup [at : {"running"}, targets : {T}, result : [T -> Results \ {"skipped"}],
          joined : SUBSET T, undone : [T -> {Nothing}]]
    \cup [at : {"ended", "joined", "skipped"}, targets : {T},
          result : [T -> {"success", "failed", "skipped"}],
          joined : SUBSET T, undone : [T -> Devices \cup {Nothing}]]

TypeOK ==
    /\ plan \in Plans
    /\ members \in [Groups -> SUBSET Devices] /\ missing \subseteq Groups
    /\ saving \in SUBSET (Groups \X Devices) /\ saved \in [Groups -> SUBSET SUBSET Devices]
    /\ edits \in 0..MaxEdits
    /\ stage \in 1..Len(plan.stages) + 1
    /\ phase \in Phases
    /\ failed \in BOOLEAN
    /\ DOMAIN jobs = Slots
    /\ \A k \in Slots : jobs[k] \in JobState(jobs[k].targets)
    /\ \A k \in Slots : jobs[k].targets \subseteq Devices
    /\ undo \in [stage : Nat, job : Nat, resolved : BOOLEAN,
                 listing : SUBSET Devices, rest : SUBSET Devices]

\* The damage of a bad change stays within the pool: what fails in a job or a
\* stage that is fail_fast was in its pool when the first failure was noticed.
FailuresAreBounded ==
    /\ \A k \in Slots : JobAt(k).fail_fast =>
        Cardinality(TargetsThat(k, "failed")) <= Width(JobAt(k), Cardinality(jobs[k].targets))
    /\ \A s \in Stages : plan.stages[s].fail_fast =>
        Cardinality({k \in SlotsOf(s) : JobFailed(k)})
            <= Width(plan.stages[s], Len(plan.stages[s].jobs))

\* After a stage that failed and ends the plan no device is operated by a later
\* stage, whatever the pools had pending and whoever edits the inventory.
StopsAfterFailure ==
    \A s, t \in Stages :
        s < t /\ StageFailed(s)
            /\ (plan.fail_fast \/ plan.rollback_completed_stages_on_failure) =>
            \A k \in SlotsOf(t) : TargetsThat(k, "skipped") = jobs[k].targets

\* Only what succeeded is compensated, and only for a failure in its stage or a
\* later one.
RollbackIsDue ==
    \A k \in Slots : \A d \in jobs[k].targets :
        jobs[k].undone[d] # Nothing =>
            /\ jobs[k].result[d] = "success"
            /\ \E s \in Stages :
                /\ StageFailed(s)
                /\ \/ s = k[1] /\ Compensates
                   \/ s > k[1] /\ plan.rollback_completed_stages_on_failure

Undone(s) ==
    \A k \in SlotsOf(s) : \A d \in TargetsThat(k, "success") : jobs[k].undone[d] # Nothing

\* The inventory has been left alone (RollbackReachesItsTarget is for when it is not).
Stable == edits = 0

\* A plan that ends has compensated what its flags ask for.
RollbackIsComplete ==
    Stable /\ phase = "done" =>
        \A s \in Stages : StageFailed(s) =>
            /\ plan.rollback_on_stage_failure => Undone(s)
            /\ plan.rollback_completed_stages_on_failure => \A t \in 1..s : Undone(t)

\* "compensate successful targets from earlier completed stages in reverse stage
\* order" (README.md:1354): a completed stage after the later ones.
RollbackIsReverse ==
    \A s, t \in Stages :
        (/\ Stable /\ s < t /\ ~ StageFailed(s)
         /\ \E k \in SlotsOf(s) : \E d \in jobs[k].targets : jobs[k].undone[d] # Nothing)
        => Undone(t)

\* An orchestration that reports success has changed every target of every stage.
OutcomeIsHonest ==
    phase = "done" /\ (\A s \in Stages : ~ StageFailed(s)) =>
        \A k \in Slots : jobs[k].at = "joined" /\ TargetsThat(k, "success") = jobs[k].targets

\* "trigger compensation rollback for other successful targets" (README.md:1351):
\* what is compensated is the target that succeeded, and no other device.
RollbackReachesItsTarget ==
    \A k \in Slots : \A d \in jobs[k].targets : jobs[k].undone[d] \in {Nothing, d}

\* "target_groups selects persisted rauto device groups" (README.md:1417): a job
\* is executed on the members somebody gave its group.
JobsSelectSavedGroups ==
    \A k \in Slots : jobs[k].at \notin {"pending", "broken"} =>
        jobs[k].targets \in saved[JobAt(k).group]

\* "Set rollback_completed_stages_on_failure=true when a later-stage failure should
\* also compensate successful targets from earlier completed stages"
\* (README.md:1352).
LaterFailuresRollBack ==
    phase = "error" /\ plan.rollback_completed_stages_on_failure =>
        \A s \in Stages : s < stage => Undone(s)

\* An orchestration ends, whatever stops in its pools.
PlanEnds == <>(phase \in Ended)

\* What has become of the targets of the jobs that have some.
Begun == {k \in DOMAIN jobs : jobs[k].at \notin {"pending", "broken"}}
FatesOf(job) ==
    [d \in job.targets |-> IF job.undone[d] # Nothing THEN "undone" ELSE job.result[d]]
Tasks == [k \in Begun |-> FatesOf(jobs[k])]

Policy == [ends |-> EndsPlan, compensates |-> Compensates,
           earlier |-> plan.rollback_completed_stages_on_failure]
Standing == IF phase = "done" THEN "done" ELSE IF phase \in Ended THEN "aborted" ELSE "running"

\* execute_plan, the pools and the compensation implement a saga: every step of them
\* selects, starts, ends, skips or undoes tasks the way the plan allows, or is not seen.
AsSaga == INSTANCE Saga WITH Targets <- Devices, policy <- Policy, slots <- DOMAIN jobs,
                             tasks <- Tasks, course <- Standing, disturbed <- ~ Stable

ImplementsSaga == AsSaga!Spec

-----------------------------------------------------------------------------
\* Values of the constants for TLC: "core" and "access" stay as they are, "pair" is
\* edited.
TwoOrThree ==
    {[g \in Groups |-> IF g \in {"core", "pair"} THEN {1, 2} ELSE {1, 2, 3}]}

AJob(strategy, ff, g) ==
    [strategy |-> strategy, max_parallel |-> 2, fail_fast |-> ff, group |-> g]

AStage(strategy, ff, list) ==
    [strategy |-> strategy, max_parallel |-> Default, fail_fast |-> ff, jobs |-> list]

APlan(ff, rs, rc, stages) ==
    [fail_fast |-> ff, rollback_on_stage_failure |-> rs,
     rollback_completed_stages_on_failure |-> rc, stages |-> stages]

\* A canary, two jobs at once, one job; with any flags.
CanaryPlans ==
    {APlan(ff, rs, rc,
        <<AStage("serial", FALSE, <<AJob("serial", TRUE, "core")>>),
          AStage("parallel", FALSE, <<AJob("parallel", jf, "access"), AJob("serial", TRUE, "core")>>),
          AStage("serial", FALSE, <<AJob("serial", TRUE, "core")>>)>>) :
        ff \in BOOLEAN, rs \in BOOLEAN, rc \in BOOLEAN, jf \in BOOLEAN}

\* Jobs in the pool of one stage, which stops after a failure, and a stage after it.
PoolPlans ==
    {APlan(TRUE, TRUE, FALSE,
        <<[strategy |-> st, max_parallel |-> 2, fail_fast |-> TRUE,
           jobs |-> <<AJob("serial", TRUE, "core"), AJob("parallel", FALSE, "core"),
                      AJob("serial", TRUE, "core")>>],
          AStage("parallel", FALSE, <<AJob("parallel", TRUE, "core")>>)>>) : st \in Strategies}

\* A canary and a stage after it, on a group that is edited.
ShortPlans ==
    {APlan(stop, stop, rc,
        <<AStage("serial", FALSE, <<AJob("serial", TRUE, "pair")>>),
          AStage("serial", TRUE, <<AJob("parallel", TRUE, "pair")>>)>>) :
        stop \in BOOLEAN, rc \in BOOLEAN}

AllPlans == CanaryPlans \cup PoolPlans \cup ShortPlans
=============================================================================
