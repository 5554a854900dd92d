------------------------ MODULE OrchestrationProofs ------------------------
(***************************************************************************)
(* Proofs about Orchestration for any plans, groups, devices, inventories  *)
(* and edits of them.                                                      *)
(***************************************************************************)
EXTENDS Orchestration, FiniteSetTheorems, TLAPS

-----------------------------------------------------------------------------
\* The parts of the inductive invariant.

Settled == {"joined", "skipped"}

\* Stages are worked off in order: what is before the current one has settled, what is
\* after it has not begun.
InOrder ==
    /\ phase \in {"stage", "compensate"} => stage \in Stages
    /\ phase = "done" => stage \notin Stages
    /\ \A k \in Slots :
        /\ k[1] < stage => jobs[k].at \in Settled
        /\ k[1] > stage => jobs[k] = NewJob
        /\ k[1] = stage =>
            /\ phase = "next" => jobs[k] = NewJob
            /\ phase = "compensate" => jobs[k].at \in Settled
            /\ phase = "stage" => jobs[k].at # "skipped"

\* What has been joined has a result.
JoinedAreOver ==
    \A k \in Slots : jobs[k].at = "running" =>
        \A d \in jobs[k].joined : jobs[k].result[d] \in {"success", "failed"}

\* The compensation is at a job that succeeded in part, of this stage or an earlier one.
UndoingIsDue ==
    phase = "compensate" =>
        /\ undo.stage \in 1..stage /\ undo.job \in JobsOf(undo.stage)
        /\ ~ plan.rollback_completed_stages_on_failure => undo.stage = stage
        /\ undo.rest \subseteq TargetsThat(Undoing, "success")
        /\ Compensates

Base == TypeOK /\ InOrder /\ JoinedAreOver /\ UndoingIsDue

\* failed is set when a stage has failed that ends the plan.
FailedIsTrue ==
    /\ failed => \E s \in Stages : s <= stage /\ StageFailed(s)
    /\ EndsPlan =>
        /\ phase = "next" /\ ~ failed => \A s \in Stages : s < stage => ~ StageFailed(s)
        /\ phase = "stage" => \A s \in Stages : s < stage => ~ StageFailed(s)
        /\ phase = "compensate" /\ ~ failed => \A s \in Stages : ~ StageFailed(s)

\* Whatever is skipped is skipped for a failure.
SkippedForFailure ==
    \A k \in Slots :
        /\ jobs[k].at = "skipped" => \E s \in Stages : StageFailed(s)
        /\ jobs[k].at \in {"running", "ended", "joined"} /\ TargetsThat(k, "skipped") # {} =>
            JobFailed(k)

\* While the inventory is left alone, a job has the targets that its selector lists.
TargetsAreListed ==
    Stable =>
        /\ saving = {}
        /\ \A k \in Slots : jobs[k].at \notin {"pending", "broken"} =>
            jobs[k].targets = Selected(k)

JobUndone(k) == \A d \in TargetsThat(k, "success") : jobs[k].undone[d] # Nothing

RolledBack(s) ==
    StageFailed(s) =>
        /\ plan.rollback_on_stage_failure => Undone(s)
        /\ plan.rollback_completed_stages_on_failure => \A t \in 1..s : Undone(t)

\* The stages before the current one are compensated as they should be; in the
\* current one, the jobs before the one that is being compensated are, and what
\* remains of it is in rest.
RollbackSoFar ==
    Stable =>
        /\ \A s \in Stages : s < stage => RolledBack(s)
        /\ phase = "compensate" =>
            /\ undo.resolved => undo.listing = jobs[Undoing].targets
            /\ undo.resolved =>
                \A d \in TargetsThat(Undoing, "success") \ undo.rest : jobs[Undoing].undone[d] # Nothing
            /\ \A k \in SlotsOf(undo.stage) : k[2] < undo.job => JobUndone(k)
            /\ \A t \in Stages : undo.stage < t /\ t <= stage => Undone(t)

\* The targets of a pool that fails fast, in work or failed, fit in it.
AtRisk(k) == Unjoined(k) \cup TargetsThat(k, "failed")
TargetsFit ==
    \A k \in Slots : JobAt(k).fail_fast =>
        Cardinality(AtRisk(k)) <= Width(JobAt(k), Cardinality(jobs[k].targets))

JobsAtRisk(s) ==
    {k \in SlotsOf(s) : jobs[k].at \in {"running", "broken", "ended"} \/ JobFailed(k)}
JobsFit ==
    \A s \in Stages : plan.stages[s].fail_fast =>
        Cardinality(JobsAtRisk(s)) <= Width(plan.stages[s], Len(plan.stages[s].jobs))

-----------------------------------------------------------------------------
\* Slots and plans.

LEMMA SlotFacts ==
    ASSUME NEW k \in Slots
    PROVE  /\ k[1] \in Stages /\ k[2] \in JobsOf(k[1])
           /\ k \in SlotsOf(k[1]) /\ k = <<k[1], k[2]>>
    BY DEF Slots, SlotsOf

LEMMA SlotsOfStage ==
    ASSUME NEW s \in Stages, NEW k \in SlotsOf(s)
    PROVE  k \in Slots /\ k[1] = s /\ k[2] \in JobsOf(s) /\ k = <<s, k[2]>>
    BY DEF Slots, SlotsOf

LEMMA SlotIs ==
    ASSUME NEW s \in Stages, NEW j \in JobsOf(s)
    PROVE  <<s, j>> \in Slots /\ <<s, j>> \in SlotsOf(s)
    BY DEF Slots, SlotsOf

LEMMA PlanFacts ==
    ASSUME plan \in Plans
    PROVE  /\ plan.stages \in Seq(Stage) /\ Len(plan.stages) \in Nat /\ Len(plan.stages) > 0
           /\ \A s \in Stages : /\ plan.stages[s] \in Stage
                                /\ plan.stages[s].jobs \in Seq(Job)
                                /\ Len(plan.stages[s].jobs) \in Nat
                                /\ Len(plan.stages[s].jobs) > 0
           /\ plan.fail_fast \in BOOLEAN /\ plan.rollback_on_stage_failure \in BOOLEAN
           /\ plan.rollback_completed_stages_on_failure \in BOOLEAN
<1>1. /\ plan.stages \in Seq(Stage) \ {<<>>} /\ plan.fail_fast \in BOOLEAN
      /\ plan.rollback_on_stage_failure \in BOOLEAN
      /\ plan.rollback_completed_stages_on_failure \in BOOLEAN
    BY OrchestrationAssumption
<1>2. ASSUME NEW s \in Stages PROVE plan.stages[s] \in Stage
    BY <1>1 DEF Stages
<1>3. ASSUME NEW s \in Stages PROVE plan.stages[s].jobs \in Seq(Job) \ {<<>>}
    BY <1>2 DEF Stage
<1> QED
    BY <1>1, <1>2, <1>3

LEMMA JobFacts ==
    ASSUME plan \in Plans, NEW k \in Slots
    PROVE  JobAt(k) \in Job /\ JobAt(k).group \in Groups
<1>1. k[1] \in Stages /\ k[2] \in JobsOf(k[1])
    BY SlotFacts
<1>2. plan.stages[k[1]].jobs[k[2]] \in Job
    BY <1>1, PlanFacts DEF JobsOf
<1> QED
    BY <1>2 DEF JobAt, Job

-----------------------------------------------------------------------------
\* Types of jobs.

Typed(j) == j \in JobState(j.targets) /\ j.targets \subseteq Devices

LEMMA NewJobTyped == Typed(NewJob) /\ Typed([NewJob EXCEPT !.at = "broken"])
    BY DEF Typed, NewJob, JobState

LEMMA RunningFacts ==
    ASSUME NEW j, Typed(j), j.at = "running"
    PROVE  /\ j.result \in [j.targets -> Results \ {"skipped"}] /\ j.joined \subseteq j.targets
           /\ j.undone \in [j.targets -> {Nothing}]
           /\ j = [at |-> "running", targets |-> j.targets, result |-> j.result,
                   joined |-> j.joined, undone |-> j.undone]
    BY DEF Typed, JobState

LEMMA RunningTyped ==
    ASSUME NEW T \in SUBSET Devices, NEW R \in [T -> Results \ {"skipped"}], NEW J \in SUBSET T,
           NEW U \in [T -> {Nothing}]
    PROVE  Typed([at |-> "running", targets |-> T, result |-> R, joined |-> J, undone |-> U])
    BY DEF Typed, JobState

LEMMA OverFacts ==
    ASSUME NEW j, Typed(j), j.at \in {"ended", "joined", "skipped"}
    PROVE  /\ j.result \in [j.targets -> {"success", "failed", "skipped"}]
           /\ j.joined \subseteq j.targets
           /\ j.undone \in [j.targets -> Devices \cup {Nothing}]
           /\ j = [at |-> j.at, targets |-> j.targets, result |-> j.result,
                   joined |-> j.joined, undone |-> j.undone]
    BY DEF Typed, JobState

LEMMA OverTyped ==
    ASSUME NEW T \in SUBSET Devices, NEW at \in {"ended", "joined", "skipped"},
           NEW R \in [T -> {"success", "failed", "skipped"}], NEW J \in SUBSET T,
           NEW U \in [T -> Devices \cup {Nothing}]
    PROVE  Typed([at |-> at, targets |-> T, result |-> R, joined |-> J, undone |-> U])
    BY DEF Typed, JobState

LEMMA IdleFacts ==
    ASSUME NEW j, Typed(j), j.at \in {"pending", "broken"}
    PROVE  j.targets = {} /\ j.joined = {} /\ (j.at = "pending" => j = NewJob)
<1>1. j \in [at : {"pending", "broken"}, targets : {{}}, result : [{} -> Results],
              joined : {{}}, undone : [{} -> Devices]]
    BY DEF Typed, JobState
<1>2. j.result = [d \in {} |-> "pending"] /\ j.undone = [d \in {} |-> Nothing]
    BY <1>1
<1>3. j = [at |-> j.at, targets |-> {}, result |-> [d \in {} |-> "pending"],
           joined |-> {}, undone |-> [d \in {} |-> Nothing]]
    BY <1>1, <1>2
<1> QED
    BY <1>1, <1>3 DEF NewJob

LEMMA SkippedTyped ==
    ASSUME TypeOK, NEW k \in Slots
    PROVE  Typed(SkippedJob(k))
<1>1. Selected(k) \in SUBSET Devices
    BY JobFacts DEF TypeOK, Selected
<1> QED
    BY <1>1, OverTyped DEF SkippedJob

JobsTyped == DOMAIN jobs = Slots /\ \A k \in Slots : Typed(jobs[k])

LEMMA TypeSplits ==
    TypeOK <=> /\ plan \in Plans
               /\ members \in [Groups -> SUBSET Devices] /\ missing \subseteq Groups
               /\ saving \in SUBSET (Groups \X Devices) /\ saved \in [Groups -> SUBSET SUBSET Devices]
               /\ edits \in 0..MaxEdits
               /\ stage \in 1..Len(plan.stages) + 1
               /\ phase \in Phases
               /\ failed \in BOOLEAN
               /\ JobsTyped
               /\ undo \in [stage : Nat, job : Nat, resolved : BOOLEAN,
                            listing : SUBSET Devices, rest : SUBSET Devices]
    BY DEF TypeOK, JobsTyped, Typed

-----------------------------------------------------------------------------
\* A step of the pool of jobs changes one job, whose new state says how.

NextOf(k, new) ==
    /\ Typed(new) /\ new.at \in {"running", "broken", "ended", "joined"}
    /\ jobs[k].at \in {"pending", "running", "ended"}
    /\ new.at = "running" => \A d \in new.joined : new.result[d] \in {"success", "failed"}
    /\ new.at = "broken" \/
        new.targets = IF jobs[k].at = "pending" THEN Selected(k) ELSE jobs[k].targets
    /\ \A d \in TargetsThat(k, "failed") : d \in new.targets /\ new.result[d] = "failed"
    /\ \A d \in new.targets : new.result[d] = "skipped" =>
        TargetsThat(k, "skipped") # {} \/ \E e \in new.targets : new.result[e] = "failed"
    /\ \A d \in new.targets : new.undone[d] # Nothing =>
        /\ d \in jobs[k].targets /\ new.undone[d] = jobs[k].undone[d]
        /\ new.result[d] = jobs[k].result[d]

LEMMA StartJobNext ==
    ASSUME TypeOK, NEW k \in Slots, StartJob(k)
    PROVE  \E new : jobs' = [jobs EXCEPT ![k] = new] /\ NextOf(k, new)
<1> DEFINE new == IF Unknown(k) THEN [NewJob EXCEPT !.at = "broken"]
                  ELSE [at |-> "running", targets |-> Selected(k),
                        result |-> [d \in Selected(k) |-> "pending"], joined |-> {},
                        undone |-> [d \in Selected(k) |-> Nothing]]
<1>1. jobs' = [jobs EXCEPT ![k] = new]
    BY DEF StartJob
<1>2. jobs[k].at = "pending" /\ Typed(jobs[k])
    BY TypeSplits DEF StartJob, JobsIn, JobsTyped
<1>3. TargetsThat(k, "failed") = {}
    BY <1>2, IdleFacts DEF TargetsThat
<1>4. CASE Unknown(k)
    <2>1. new.targets = {} /\ new.at = "broken" /\ Typed(new)
        BY <1>4, NewJobTyped DEF NewJob
    <2> QED
        BY <1>1, <1>2, <1>3, <2>1 DEF NextOf
<1>5. CASE ~ Unknown(k)
    <2>1. Selected(k) \in SUBSET Devices
        BY JobFacts DEF TypeOK, Selected
    <2>2. Typed(new)
        BY <1>5, <2>1, RunningTyped DEF Results
    <2>3. /\ new.at = "running" /\ new.targets = Selected(k) /\ new.joined = {}
          /\ \A d \in new.targets : new.result[d] = "pending" /\ new.undone[d] = Nothing
        BY <1>5
    <2> HIDE DEF new
    <2> QED
        BY <1>1, <1>2, <1>3, <2>2, <2>3 DEF NextOf
<1> QED
    BY <1>4, <1>5

LEMMA RunningNext ==
    ASSUME TypeOK, JoinedAreOver, NEW k \in Slots, NEW d,
           StartTarget(k, d) \/ EndTarget(k, d) \/ JoinTarget(k, d)
    PROVE  \E new : jobs' = [jobs EXCEPT ![k] = new] /\ NextOf(k, new)
<1> DEFINE j == jobs[k]
<1>1. j.at = "running" /\ Typed(j)
    BY TypeSplits DEF StartTarget, EndTarget, JoinTarget, JobsIn, JobsTyped
<1>2. /\ j.result \in [j.targets -> Results \ {"skipped"}] /\ j.joined \subseteq j.targets
      /\ j.undone \in [j.targets -> {Nothing}] /\ j.targets \in SUBSET Devices
      /\ j = [at |-> "running", targets |-> j.targets, result |-> j.result,
              joined |-> j.joined, undone |-> j.undone]
      /\ \A e \in j.joined : j.result[e] \in {"success", "failed"}
    BY <1>1, RunningFacts DEF Typed, JoinedAreOver
<1>3. ASSUME NEW result \in {"running", "success", "failed"}, d \in j.targets,
             j.result[d] \in {"pending", "running"}, jobs' = [jobs EXCEPT ![k].result[d] = result]
      PROVE  \E new : jobs' = [jobs EXCEPT ![k] = new] /\ NextOf(k, new)
    <2> DEFINE new == [j EXCEPT !.result = [j.result EXCEPT ![d] = result]]
    <2>1. jobs' = [jobs EXCEPT ![k] = new]
        BY <1>3
    <2>2. new.result \in [j.targets -> Results \ {"skipped"}]
        BY <1>2, <1>3 DEF Results
    <2>3. /\ new.at = "running" /\ new.targets = j.targets /\ new.joined = j.joined
          /\ new.undone = j.undone
          /\ new = [at |-> "running", targets |-> j.targets, result |-> new.result,
                    joined |-> j.joined, undone |-> j.undone]
        BY <1>2
    <2>4. Typed(new)
        BY <1>2, <2>2, <2>3, RunningTyped
    <2>5. /\ d \notin j.joined
          /\ \A e \in j.targets : new.result[e] = IF e = d THEN result ELSE j.result[e]
        BY <1>2, <1>3
    <2> HIDE DEF new
    <2>6. \A e \in j.joined : new.result[e] \in {"success", "failed"}
        BY <1>2, <2>5
    <2>7. \A e \in TargetsThat(k, "failed") : e \in new.targets /\ new.result[e] = "failed"
        BY <1>3, <2>3, <2>5 DEF TargetsThat
    <2>8. \A e \in new.targets : new.undone[e] = Nothing
        BY <1>2, <2>3
    <2> QED
        BY <1>1, <2>1, <2>2, <2>3, <2>4, <2>6, <2>7, <2>8 DEF NextOf
<1>4. CASE StartTarget(k, d)
    BY <1>3, <1>4 DEF StartTarget, TargetsThat
<1>5. CASE EndTarget(k, d)
    BY <1>3, <1>5 DEF EndTarget, TargetsThat
<1>6. CASE JoinTarget(k, d)
    <2> DEFINE new == [j EXCEPT !.joined = j.joined \cup {d}]
    <2>1. jobs' = [jobs EXCEPT ![k] = new]
        BY <1>6 DEF JoinTarget
    <2>2. d \in j.targets /\ j.result[d] \in {"success", "failed"}
        BY <1>6 DEF JoinTarget, TargetsThat
    <2>3. /\ new.at = "running" /\ new.targets = j.targets /\ new.result = j.result
          /\ new.joined = j.joined \cup {d} /\ new.undone = j.undone
          /\ new = [at |-> "running", targets |-> j.targets, result |-> j.result,
                    joined |-> j.joined \cup {d}, undone |-> j.undone]
        BY <1>2
    <2> HIDE DEF new
    <2>4. Typed(new)
        BY <1>2, <2>2, <2>3, RunningTyped
    <2> QED
        BY <1>1, <1>2, <2>1, <2>2, <2>3, <2>4 DEF NextOf, TargetsThat
<1> QED
    BY <1>4, <1>5, <1>6

LEMMA EndJobNext ==
    ASSUME TypeOK, JoinedAreOver, NEW k \in Slots, EndJob(k)
    PROVE  \E new : jobs' = [jobs EXCEPT ![k] = new] /\ NextOf(k, new)
<1> DEFINE j == jobs[k]
           result == [d \in j.targets |-> IF j.result[d] = "pending" THEN "skipped" ELSE j.result[d]]
           new == [j EXCEPT !.at = "ended", !.result = result]
<1>1. j.at = "running" /\ Typed(j)
    BY TypeSplits DEF EndJob, JobsIn, JobsTyped
<1>2. /\ j.result \in [j.targets -> Results \ {"skipped"}] /\ j.joined \subseteq j.targets
      /\ j.undone \in [j.targets -> {Nothing}] /\ j.targets \in SUBSET Devices
      /\ j = [at |-> "running", targets |-> j.targets, result |-> j.result,
              joined |-> j.joined, undone |-> j.undone]
      /\ \A e \in j.joined : j.result[e] \in {"success", "failed"}
    BY <1>1, RunningFacts DEF Typed, JoinedAreOver
<1>3. jobs' = [jobs EXCEPT ![k] = new]
    BY DEF EndJob
<1>4. \A d \in j.targets : j.result[d] # "running"
    BY <1>2 DEF EndJob, Unjoined
<1>5. result \in [j.targets -> {"success", "failed", "skipped"}]
    BY <1>2, <1>4 DEF Results
<1> HIDE DEF result
<1>6. /\ new.at = "ended" /\ new.targets = j.targets /\ new.result = result
      /\ new = [at |-> "ended", targets |-> j.targets, result |-> result,
                joined |-> j.joined, undone |-> j.undone]
    <2> DEFINE over == [j EXCEPT !.at = "ended"]
    <2>1. over = [at |-> "ended", targets |-> j.targets, result |-> j.result,
                  joined |-> j.joined, undone |-> j.undone]
        BY <1>2
    <2>2. new = [over EXCEPT !.result = result]
        BY <1>2
    <2> HIDE DEF over, new
    <2> QED
        BY <2>1, <2>2
<1> HIDE DEF new
<1>7. Typed(new)
    BY <1>2, <1>5, <1>6, OverTyped
<1>8. \A d \in TargetsThat(k, "failed") : d \in new.targets /\ new.result[d] = "failed"
    BY <1>6 DEF TargetsThat, result
<1>9. ASSUME NEW d \in new.targets, new.result[d] = "skipped"
      PROVE  \E e \in new.targets : new.result[e] = "failed"
    <2>1. d \in TargetsThat(k, "pending")
        BY <1>2, <1>6, <1>9 DEF TargetsThat, result
    <2>2. \E e \in j.joined : j.result[e] = "failed"
        BY <2>1 DEF EndJob, JobStops
    <2> QED
        BY <1>2, <1>6, <2>2 DEF result
<1>10. \A d \in new.targets : new.undone[d] = Nothing
    <2>1. new.undone = j.undone
        BY <1>6
    <2> QED
        BY <1>2, <1>6, <2>1
<1> QED
    BY <1>1, <1>3, <1>6, <1>7, <1>8, <1>9, <1>10 DEF NextOf

LEMMA JoinJobNext ==
    ASSUME TypeOK, NEW k \in Slots, JoinJob(k)
    PROVE  \/ phase' = "error" /\ UNCHANGED jobs
           \/ UNCHANGED phase /\ \E new : jobs' = [jobs EXCEPT ![k] = new] /\ NextOf(k, new)
<1> DEFINE j == jobs[k]
           new == [j EXCEPT !.at = "joined"]
<1> SUFFICES ASSUME k \in JobsIn("ended"), jobs' = [jobs EXCEPT ![k].at = "joined"]
             PROVE  jobs' = [jobs EXCEPT ![k] = new] /\ NextOf(k, new)
    BY DEF JoinJob
<1>1. jobs' = [jobs EXCEPT ![k] = new]
    OBVIOUS
<1>2. j.at = "ended" /\ Typed(j)
    BY TypeSplits DEF JobsIn, JobsTyped
<1>3. /\ j.result \in [j.targets -> {"success", "failed", "skipped"}]
      /\ j.joined \in SUBSET j.targets /\ j.targets \in SUBSET Devices
      /\ j.undone \in [j.targets -> Devices \cup {Nothing}]
      /\ j = [at |-> j.at, targets |-> j.targets, result |-> j.result,
              joined |-> j.joined, undone |-> j.undone]
    BY <1>2, OverFacts DEF Typed
<1>4. /\ new.at = "joined" /\ new.targets = j.targets /\ new.result = j.result
      /\ new.undone = j.undone
      /\ new = [at |-> "joined", targets |-> j.targets, result |-> j.result,
                joined |-> j.joined, undone |-> j.undone]
    BY <1>3
<1> HIDE DEF new
<1>5. Typed(new)
    BY <1>3, <1>4, OverTyped
<1> QED
    BY <1>1, <1>2, <1>4, <1>5 DEF NextOf, TargetsThat

\* What the pool of a stage does to the rest.
LEMMA PoolStep ==
    ASSUME TypeOK, JoinedAreOver, NEW k \in Slots, Pool(k)
    PROVE  /\ UNCHANGED <<plan, inventory, stage, failed, undo>>
           /\ phase = "stage" /\ k[1] = stage
           /\ \/ phase' = "error" /\ UNCHANGED jobs
              \/ phase' = "stage" /\ \E new : jobs' = [jobs EXCEPT ![k] = new] /\ NextOf(k, new)
<1>1. /\ UNCHANGED <<plan, inventory, stage, failed, undo>> /\ phase = "stage"
      /\ k \in SlotsOf(stage)
    BY DEF Pool, StartJob, JoinJob, EndJob, StartTarget, EndTarget, JoinTarget, JobsIn
<1>2. k[1] = stage
    BY <1>1 DEF SlotsOf
<1>3. CASE JoinJob(k)
    BY <1>1, <1>2, <1>3, JoinJobNext
<1>4. CASE StartJob(k)
    BY <1>1, <1>2, <1>4, StartJobNext DEF StartJob
<1>5. CASE EndJob(k)
    BY <1>1, <1>2, <1>5, EndJobNext DEF EndJob
<1>6. ASSUME NEW d \in jobs[k].targets, StartTarget(k, d) \/ EndTarget(k, d) \/ JoinTarget(k, d)
      PROVE  phase' = "stage" /\ \E new : jobs' = [jobs EXCEPT ![k] = new] /\ NextOf(k, new)
    BY <1>1, <1>6, RunningNext DEF StartTarget, EndTarget, JoinTarget
<1> QED
    BY <1>1, <1>2, <1>3, <1>4, <1>5, <1>6 DEF Pool

-----------------------------------------------------------------------------
\* The types, and the order of the stages.

LEMMA PlanStays ==
    ASSUME UNCHANGED plan
    PROVE  /\ Stages' = Stages /\ Slots' = Slots
           /\ \A s : JobsOf(s)' = JobsOf(s) /\ SlotsOf(s)' = SlotsOf(s)
           /\ \A k : JobAt(k)' = JobAt(k)
           /\ EndsPlan' = EndsPlan /\ Compensates' = Compensates
    BY DEF Stages, Slots, JobsOf, SlotsOf, JobAt, EndsPlan, Compensates

\* Phases and jobs that no step of an orchestration has changed.
LEMMA BaseInit == Init => Base
<1> SUFFICES ASSUME Init PROVE Base
    OBVIOUS
<1>1. Len(plan.stages) \in Nat /\ Len(plan.stages) > 0
    BY PlanFacts DEF Init
<1>2. JobsTyped
    BY NewJobTyped DEF Init, JobsTyped
<1>3. members \in [Groups -> SUBSET Devices]
    BY OrchestrationAssumption DEF Init
<1>4. missing \subseteq Groups
    BY OrchestrationAssumption DEF Init, Used
<1>5. saved \in [Groups -> SUBSET SUBSET Devices]
    BY <1>3 DEF Init
<1>6. undo \in [stage : Nat, job : Nat, resolved : BOOLEAN,
                listing : SUBSET Devices, rest : SUBSET Devices]
    BY DEF Init, NoUndo, UndoOf
<1>7. TypeOK
    <2>1. saving \in SUBSET (Groups \X Devices)
        BY DEF Init
    <2>2. edits \in 0..MaxEdits /\ stage \in 1..Len(plan.stages) + 1
        BY <1>1, OrchestrationAssumption DEF Init
    <2> QED
        BY <2>1, <2>2, <1>1, <1>2, <1>3, <1>4, <1>5, <1>6, OrchestrationAssumption DEF Init, Phases, TypeOK, JobsTyped, Typed
<1>8. InOrder
    BY <1>1, SlotFacts DEF Init, InOrder, Stages
<1> QED
    BY <1>7, <1>8 DEF Base, JoinedAreOver, UndoingIsDue, Init, NewJob

LEMMA BasePool ==
    ASSUME Base, NEW k \in Slots, Pool(k)
    PROVE  Base'
<1>1. /\ UNCHANGED <<plan, inventory, stage, failed, undo>> /\ phase = "stage" /\ k[1] = stage
      /\ \/ phase' = "error" /\ UNCHANGED jobs
         \/ phase' = "stage" /\ \E new : jobs' = [jobs EXCEPT ![k] = new] /\ NextOf(k, new)
    BY PoolStep DEF Base
<1>2. Slots' = Slots /\ Stages' = Stages
    BY <1>1, PlanStays
<1>3. CASE phase' = "error" /\ UNCHANGED jobs
    <2>1. TypeOK'
        BY <1>1, <1>2, <1>3, TypeSplits DEF Base, TypeOK, inventory, Phases
    <2> QED
        BY <1>1, <1>2, <1>3, <2>1 DEF Base, InOrder, JoinedAreOver, UndoingIsDue
<1>4. ASSUME phase' = "stage", NEW new, jobs' = [jobs EXCEPT ![k] = new], NextOf(k, new)
      PROVE  Base'
    <2>1. DOMAIN jobs = Slots /\ \A l \in Slots : jobs'[l] = IF l = k THEN new ELSE jobs[l]
        BY <1>4 DEF Base, TypeOK
    <2>2. JobsTyped'
        BY <1>2, <1>4, <2>1, TypeSplits DEF JobsTyped, NextOf, Base
    <2>3. TypeOK'
        BY <1>1, <1>4, <2>2 DEF Base, inventory, TypeOK, JobsTyped, Typed
    <2>4. InOrder'
        <3>1. new.at # "skipped" /\ stage \in Int
            BY <1>4 DEF NextOf, Base, TypeOK
        <3> QED
            BY <1>1, <1>2, <1>4, <2>1, <3>1 DEF Base, InOrder
    <2>5. JoinedAreOver'
        BY <1>2, <1>4, <2>1 DEF Base, JoinedAreOver, NextOf
    <2> QED
        BY <1>4, <2>3, <2>4, <2>5 DEF Base, UndoingIsDue
<1> QED
    BY <1>1, <1>3, <1>4

LEMMA SkippedFacts ==
    ASSUME NEW k
    PROVE  SkippedJob(k).at = "skipped" /\ SkippedJob(k).targets = Selected(k)
           /\ \A d \in Selected(k) : SkippedJob(k).result[d] = "skipped"
    BY DEF SkippedJob

LEMMA BaseSkip ==
    ASSUME Base, SkipStage
    PROVE  Base'
<1>1. /\ UNCHANGED <<plan, inventory, failed, undo>> /\ phase = "next" /\ stage \in Stages
      /\ Slots' = Slots /\ Stages' = Stages
    BY PlanStays DEF SkipStage
<1>2. stage \in Nat /\ Len(plan.stages) \in Nat /\ stage + 1 \in 1..Len(plan.stages) + 1
    BY <1>1, PlanFacts DEF Base, TypeOK, Stages
<1>3. CASE phase' = "error" /\ UNCHANGED <<jobs, stage>>
    <2>1. TypeOK'
        BY <1>1, <1>3, TypeSplits DEF Base, TypeOK, inventory, Phases
    <2> QED
        BY <1>1, <1>3, <2>1 DEF Base, InOrder, JoinedAreOver, UndoingIsDue
<1>4. CASE /\ jobs' = [k \in Slots |-> IF k[1] = stage THEN SkippedJob(k) ELSE jobs[k]]
           /\ stage' = stage + 1 /\ UNCHANGED phase
    <2>1. JobsTyped'
        BY <1>1, <1>4, SkippedTyped, TypeSplits DEF JobsTyped, Base
    <2>2. TypeOK'
        BY <1>1, <1>2, <1>4, <2>1 DEF Base, inventory, TypeOK, JobsTyped, Typed
    <2>3. ASSUME NEW k \in Slots
          PROVE  /\ k[1] < stage' => jobs'[k].at \in Settled
                 /\ k[1] >= stage' => jobs'[k] = NewJob
        <3>1. k[1] \in Nat
            BY SlotFacts, <1>2 DEF Stages
        <3> QED
            BY <1>1, <1>2, <1>4, <3>1, SkippedFacts DEF Base, InOrder, Settled
    <2>4. InOrder'
        BY <1>1, <1>2, <1>4, <2>3, SlotFacts DEF InOrder, Stages
    <2>5. JoinedAreOver'
        BY <1>1, <1>4, SkippedFacts DEF Base, JoinedAreOver
    <2> QED
        BY <1>1, <1>4, <2>2, <2>4, <2>5 DEF Base, UndoingIsDue
<1> QED
    BY <1>3, <1>4 DEF SkipStage

LEMMA UndoOfTyped ==
    ASSUME NEW s \in Nat, NEW j \in Nat
    PROVE  UndoOf(s, j) \in [stage : Nat, job : Nat, resolved : BOOLEAN,
                             listing : SUBSET Devices, rest : SUBSET Devices]
    BY DEF UndoOf

LEMMA BaseEndStage ==
    ASSUME Base, EndStage
    PROVE  Base'
<1>1. /\ UNCHANGED <<plan, inventory>> /\ phase = "stage" /\ stage \in Stages
      /\ Slots' = Slots /\ Stages' = Stages /\ \A s : JobsOf(s)' = JobsOf(s)
      /\ Compensates' = Compensates
    BY PlanStays DEF EndStage, Base, InOrder
<1>2. stage \in Nat /\ Len(plan.stages) \in Nat /\ stage + 1 \in 1..Len(plan.stages) + 1
    BY <1>1, PlanFacts DEF Base, TypeOK, Stages
<1>3. CASE phase' = "error" /\ UNCHANGED <<jobs, failed, stage, undo>>
    <2>1. TypeOK'
        BY <1>1, <1>3, TypeSplits DEF Base, TypeOK, inventory, Phases
    <2> QED
        BY <1>1, <1>3, <2>1 DEF Base, InOrder, JoinedAreOver, UndoingIsDue
<1>4. ASSUME jobs' = [k \in Slots |-> IF k \in JobsIn("pending") THEN SkippedJob(k) ELSE jobs[k]],
             failed' \in BOOLEAN,
             \/ /\ phase' = "compensate" /\ UNCHANGED stage /\ Compensates
                /\ undo' = UndoOf(stage, 1)
             \/ phase' = "next" /\ stage' = stage + 1 /\ UNCHANGED undo
      PROVE  Base'
    <2>1. JobsTyped'
        BY <1>1, <1>4, SkippedTyped, TypeSplits DEF JobsTyped, Base
    <2>2. undo' \in [stage : Nat, job : Nat, resolved : BOOLEAN,
                     listing : SUBSET Devices, rest : SUBSET Devices]
        <3>1. UndoOf(stage, 1) \in [stage : Nat, job : Nat, resolved : BOOLEAN,
                                   listing : SUBSET Devices, rest : SUBSET Devices]
            BY <1>2, UndoOfTyped
        <3> QED
            BY <1>4, <3>1, TypeSplits DEF Base
    <2>3. stage' \in 1..Len(plan'.stages) + 1 /\ phase' \in Phases
        BY <1>1, <1>2, <1>4, TypeSplits DEF Base, Phases
    <2>4. TypeOK'
        BY <1>1, <1>4, <2>1, <2>2, <2>3 DEF Base, inventory, TypeOK, JobsTyped, Typed
    <2>5. ASSUME NEW k \in Slots
          PROVE  /\ k[1] <= stage => jobs'[k].at \in Settled
                 /\ k[1] > stage => jobs'[k] = NewJob
        <3>1. k[1] \in Nat /\ k[1] \in Stages /\ k \in SlotsOf(k[1])
            BY SlotFacts, <1>2 DEF Stages
        <3>2. CASE k[1] # stage
            <4>1. k \notin JobsIn("pending")
                BY <3>2, <1>1, SlotsOfStage DEF JobsIn
            <4> QED
                BY <1>1, <1>2, <1>4, <3>1, <3>2, <4>1 DEF Base, InOrder
        <3>3. CASE k[1] = stage
            <4>1. jobs[k].at \in {"pending", "running", "broken", "ended", "joined"}
                <5>1. Typed(jobs[k]) /\ jobs[k].at # "skipped"
                    BY <1>1, <3>3, TypeSplits DEF Base, InOrder, JobsTyped
                <5> QED
                    BY <5>1 DEF Typed, JobState
            <4>2. jobs[k].at \notin {"running", "broken", "ended"}
                BY <3>1, <3>3 DEF EndStage, UnjoinedJobs, JobsIn
            <4> QED
                BY <1>4, <3>1, <3>3, <4>1, <4>2, <1>2, SkippedFacts DEF JobsIn, Settled
        <3> QED
            BY <3>2, <3>3
    <2>6. \A k \in Slots : k[1] \in Nat
        BY SlotFacts, <1>2 DEF Stages
    <2>7. InOrder'
        BY <1>1, <1>2, <1>4, <2>5, <2>6 DEF InOrder, Stages, Settled
    <2>8. JoinedAreOver'
        BY <1>1, <1>4, SkippedFacts DEF Base, JoinedAreOver
    <2>9. UndoingIsDue'
        <3> SUFFICES ASSUME phase' = "compensate" PROVE UndoingIsDue'
            BY DEF UndoingIsDue
        <3>1. /\ stage' = stage /\ undo'.stage = stage /\ undo'.job = 1 /\ undo'.rest = {}
              /\ Compensates
            BY <1>4 DEF UndoOf
        <3>2. undo'.stage \in 1..stage' /\ undo'.job \in JobsOf(undo'.stage)
            BY <1>1, <1>2, <3>1, PlanFacts DEF JobsOf, Base, TypeOK, Stages
        <3> QED
            BY <1>1, <3>1, <3>2 DEF UndoingIsDue
    <2> QED
        BY <2>4, <2>7, <2>8, <2>9 DEF Base
<1>5. StageFailed(stage) \in BOOLEAN /\ EndsPlan \in BOOLEAN
    BY DEF StageFailed, EndsPlan
<1> QED
    BY <1>3, <1>4, <1>5 DEF EndStage

\* Steps that only change the phase.
LEMMA BasePhase ==
    ASSUME Base, StartStage \/ Finish \/ Interrupt
    PROVE  Base'
<1>1. /\ UNCHANGED <<plan, inventory, stage, failed, jobs, undo>>
      /\ Slots' = Slots /\ Stages' = Stages
    BY PlanStays DEF StartStage, Finish, Interrupt
<1>2. CASE StartStage
    <2>1. phase = "next" /\ stage \in Stages /\ phase' \in {"stage", "error"}
        BY <1>2 DEF StartStage
    <2>2. TypeOK'
        BY <1>1, <2>1 DEF Base, TypeOK, inventory, Phases
    <2>3. InOrder'
        BY <1>1, <2>1 DEF Base, InOrder, NewJob
    <2> QED
        BY <1>1, <2>1, <2>2, <2>3 DEF Base, JoinedAreOver, UndoingIsDue
<1>3. CASE Finish
    BY <1>1, <1>3 DEF Finish, Base, TypeOK, inventory, Phases, InOrder, JoinedAreOver, UndoingIsDue
<1>4. CASE Interrupt
    BY <1>1, <1>4 DEF Interrupt, Base, TypeOK, inventory, Phases, InOrder, JoinedAreOver, UndoingIsDue
<1> QED
    BY <1>2, <1>3, <1>4

LEMMA UndoingFacts ==
    ASSUME Base, phase = "compensate"
    PROVE  /\ stage \in Stages /\ stage \in Nat /\ undo.stage \in Stages /\ undo.stage \in 1..stage
           /\ Undoing \in Slots /\ Undoing[1] = undo.stage /\ Undoing[2] = undo.job
           /\ jobs[Undoing].at \in Settled /\ undo.job \in Nat
<1>1. stage \in Stages /\ stage \in Nat /\ undo.stage \in 1..stage /\ undo.job \in JobsOf(undo.stage)
    BY DEF Base, InOrder, UndoingIsDue, TypeOK
<1>2. undo.stage \in Stages
    BY <1>1, PlanFacts DEF Stages, Base, TypeOK
<1>3. Undoing \in Slots /\ Undoing[1] = undo.stage /\ Undoing[2] = undo.job
    BY <1>1, <1>2, SlotIs DEF Undoing
<1>4. jobs[Undoing].at \in Settled
    <2>1. Undoing[1] < stage \/ Undoing[1] = stage
        BY <1>1, <1>3
    <2> QED
        BY <1>3, <2>1 DEF Base, InOrder
<1> QED
    BY <1>1, <1>2, <1>3, <1>4 DEF Base, TypeOK

LEMMA BaseResolve ==
    ASSUME Base, ResolveUndo
    PROVE  Base'
<1>1. /\ UNCHANGED <<plan, inventory, stage, failed, jobs>> /\ phase = "compensate"
      /\ Slots' = Slots /\ Stages' = Stages /\ \A s : JobsOf(s)' = JobsOf(s)
      /\ Compensates' = Compensates
    BY PlanStays DEF ResolveUndo
<1>2. CASE phase' = "error" /\ UNCHANGED undo
    BY <1>1, <1>2 DEF Base, TypeOK, inventory, Phases, InOrder, JoinedAreOver, UndoingIsDue
<1>3. ASSUME UNCHANGED phase,
             undo' = [stage |-> undo.stage, job |-> undo.job, resolved |-> TRUE,
                      listing |-> Selected(Undoing),
                      rest |-> {d \in TargetsThat(Undoing, "success") :
                                  jobs[Undoing].undone[d] = Nothing}]
      PROVE  Base'
    <2>1. Undoing \in Slots /\ Selected(Undoing) \in SUBSET Devices
        BY <1>1, UndoingFacts, JobFacts DEF Selected, Base, TypeOK
    <2> DEFINE rest == {d \in TargetsThat(Undoing, "success") : jobs[Undoing].undone[d] = Nothing}
    <2>2. rest \in SUBSET Devices /\ rest \subseteq TargetsThat(Undoing, "success")
        BY <2>1 DEF TargetsThat, Base, TypeOK
    <2>3. undo' = [stage |-> undo.stage, job |-> undo.job, resolved |-> TRUE,
                   listing |-> Selected(Undoing), rest |-> rest]
        BY <1>3
    <2> HIDE DEF rest
    <2>4. TypeOK'
        BY <1>1, <1>3, <2>1, <2>2, <2>3 DEF Base, TypeOK, inventory
    <2>5. TargetsThat(Undoing, "success")' = TargetsThat(Undoing, "success")
        BY <1>1, <2>3 DEF TargetsThat, Undoing
    <2>6. UndoingIsDue'
        BY <1>1, <1>3, <2>2, <2>3, <2>5 DEF Base, UndoingIsDue
    <2> QED
        BY <1>1, <1>3, <2>4, <2>6 DEF Base, InOrder, JoinedAreOver
<1> QED
    BY <1>1, <1>2, <1>3 DEF ResolveUndo

\* The compensation of the target d is noted to operate e, the target at its position if
\* there is one, and nothing else changes in the jobs.
CompensatesAt(d, e) ==
    /\ \/ /\ e \in undo.listing
          /\ Rank(undo.listing, e) = Rank(jobs[Undoing].targets, d)
       \/ /\ e = jobs[Undoing].undone[d]
          /\ {f \in undo.listing : Rank(undo.listing, f) = Rank(jobs[Undoing].targets, d)} = {}
    /\ DOMAIN jobs' = Slots
    /\ \A k \in Slots \ {Undoing} : jobs'[k] = jobs[k]
    /\ jobs'[Undoing] =
        [at |-> jobs[Undoing].at, targets |-> jobs[Undoing].targets,
         result |-> jobs[Undoing].result, joined |-> jobs[Undoing].joined,
         undone |-> [jobs[Undoing].undone EXCEPT ![d] = e]]

LEMMA UndoTargetStep ==
    ASSUME Base, NEW d, UndoTarget(d)
    PROVE  /\ UNCHANGED <<plan, inventory, stage, phase, failed>> /\ phase = "compensate"
           /\ undo' = [stage |-> undo.stage, job |-> undo.job, resolved |-> TRUE,
                       listing |-> undo.listing, rest |-> undo.rest \ {d}]
           /\ d \in undo.rest /\ d \in TargetsThat(Undoing, "success")
           /\ \E e \in Devices \cup {Nothing} : CompensatesAt(d, e)
<1> DEFINE j == jobs[Undoing]
           same == {f \in undo.listing : Rank(undo.listing, f) = Rank(j.targets, d)}
<1>1. /\ UNCHANGED <<plan, inventory, stage, phase, failed>> /\ phase = "compensate"
      /\ d \in undo.rest /\ d \in TargetsThat(Undoing, "success") /\ undo.resolved
    BY DEF UndoTarget, Base, UndoingIsDue
<1>2. undo' = [stage |-> undo.stage, job |-> undo.job, resolved |-> TRUE,
               listing |-> undo.listing, rest |-> undo.rest \ {d}]
    <2>1. undo = [stage |-> undo.stage, job |-> undo.job, resolved |-> TRUE,
                  listing |-> undo.listing, rest |-> undo.rest]
        BY <1>1 DEF Base, TypeOK
    <2> QED
        BY <2>1 DEF UndoTarget
<1>3. Undoing \in Slots /\ j.at \in Settled
    BY <1>1, UndoingFacts
<1>4. /\ j.undone \in [j.targets -> Devices \cup {Nothing}] /\ d \in j.targets
      /\ j = [at |-> j.at, targets |-> j.targets, result |-> j.result,
              joined |-> j.joined, undone |-> j.undone]
    BY <1>1, <1>3, TypeSplits, OverFacts DEF TargetsThat, Base, JobsTyped, Settled
<1>5. DOMAIN jobs = Slots
    BY DEF Base, TypeOK
<1>6. CASE same = {}
    <2>1. UNCHANGED jobs
        BY <1>6 DEF UndoTarget
    <2>2. [j.undone EXCEPT ![d] = j.undone[d]] = j.undone
        BY <1>4
    <2>3. /\ DOMAIN jobs' = Slots /\ \A k \in Slots \ {Undoing} : jobs'[k] = jobs[k]
          /\ jobs'[Undoing] =
                [at |-> j.at, targets |-> j.targets, result |-> j.result,
                 joined |-> j.joined, undone |-> [j.undone EXCEPT ![d] = j.undone[d]]]
        BY <2>1, <2>2, <1>4, <1>5
    <2>5. j.undone[d] \in Devices \cup {Nothing}
        BY <1>4
    <2>6. CompensatesAt(d, j.undone[d])
        BY <1>6, <2>3 DEF CompensatesAt
    <2> QED
        BY <1>1, <1>2, <2>5, <2>6
<1>7. CASE same # {}
    <2>1. PICK e \in same : jobs' = [jobs EXCEPT ![Undoing].undone[d] = e]
        BY <1>7 DEF UndoTarget
    <2>2. e \in Devices /\ e \in undo.listing
        BY <2>1 DEF Base, TypeOK
    <2>3. jobs' = [jobs EXCEPT ![Undoing] = [j EXCEPT !.undone = [j.undone EXCEPT ![d] = e]]]
        BY <2>1
    <2>4. [j EXCEPT !.undone = [j.undone EXCEPT ![d] = e]] =
            [at |-> j.at, targets |-> j.targets, result |-> j.result,
             joined |-> j.joined, undone |-> [j.undone EXCEPT ![d] = e]]
        BY <1>4
    <2>5. /\ DOMAIN jobs' = Slots /\ \A k \in Slots \ {Undoing} : jobs'[k] = jobs[k]
          /\ jobs'[Undoing] = [j EXCEPT !.undone = [j.undone EXCEPT ![d] = e]]
        BY <2>3, <1>3, <1>5
    <2>6. Rank(undo.listing, e) = Rank(j.targets, d)
        BY <2>1
    <2>7. CompensatesAt(d, e)
        BY <2>2, <2>4, <2>5, <2>6 DEF CompensatesAt
    <2> QED
        BY <1>1, <1>2, <2>2, <2>7
<1> QED
    BY <1>6, <1>7

LEMMA BaseUndoTarget ==
    ASSUME Base, NEW d, UndoTarget(d)
    PROVE  Base'
<1> DEFINE j == jobs[Undoing]
<1>0. PICK e \in Devices \cup {Nothing} : CompensatesAt(d, e)
    BY UndoTargetStep
<1>1. /\ DOMAIN jobs' = Slots /\ \A k \in Slots \ {Undoing} : jobs'[k] = jobs[k]
      /\ jobs'[Undoing] =
            [at |-> j.at, targets |-> j.targets, result |-> j.result, joined |-> j.joined,
             undone |-> [j.undone EXCEPT ![d] = e]]
    BY <1>0 DEF CompensatesAt
<1>2. /\ UNCHANGED <<plan, inventory, stage, phase, failed>> /\ phase = "compensate"
      /\ undo' = [stage |-> undo.stage, job |-> undo.job, resolved |-> TRUE,
                  listing |-> undo.listing, rest |-> undo.rest \ {d}]
    BY UndoTargetStep
<1>3. /\ Slots' = Slots /\ Stages' = Stages /\ \A s : JobsOf(s)' = JobsOf(s)
      /\ Compensates' = Compensates
    BY <1>2, PlanStays
<1>4. Undoing \in Slots /\ j.at \in Settled /\ Undoing' = Undoing
    BY <1>2, UndoingFacts DEF Undoing
<1> DEFINE new == [at |-> j.at, targets |-> j.targets, result |-> j.result, joined |-> j.joined,
                   undone |-> [j.undone EXCEPT ![d] = e]]
<1>5. Typed(new)
    <2>1. /\ j.undone \in [j.targets -> Devices \cup {Nothing}]
          /\ j.result \in [j.targets -> {"success", "failed", "skipped"}]
          /\ j.joined \in SUBSET j.targets /\ j.targets \in SUBSET Devices
        BY <1>4, TypeSplits, OverFacts DEF Base, JobsTyped, Settled, Typed
    <2>2. [j.undone EXCEPT ![d] = e] \in [j.targets -> Devices \cup {Nothing}]
        BY <2>1
    <2> QED
        BY <1>4, <2>1, <2>2, OverTyped DEF Settled
<1>6. /\ DOMAIN jobs' = Slots
      /\ \A k \in Slots : jobs'[k] = IF k = Undoing THEN new ELSE jobs[k]
    BY <1>1, <1>4
<1>7. /\ \A k \in Slots : /\ jobs'[k].at = jobs[k].at /\ jobs'[k].targets = jobs[k].targets
                          /\ jobs'[k].result = jobs[k].result /\ jobs'[k].joined = jobs[k].joined
                          /\ Typed(jobs'[k])
    BY <1>5, <1>6, TypeSplits DEF Base, JobsTyped
<1> HIDE DEF new
<1>8. TypeOK'
    <2>1. undo' \in [stage : Nat, job : Nat, resolved : BOOLEAN,
                     listing : SUBSET Devices, rest : SUBSET Devices]
        BY <1>2 DEF Base, TypeOK
    <2> QED
        BY <1>2, <1>3, <1>6, <1>7, <2>1 DEF Base, TypeOK, inventory, Typed
<1>9. InOrder'
    <2>1. \A k \in Slots : jobs[k] = NewJob => k # Undoing
        BY <1>4 DEF Settled, NewJob
    <2>2. \A k \in Slots : jobs[k] = NewJob => jobs'[k] = NewJob
        BY <1>6, <2>1
    <2> QED
        BY <1>2, <1>3, <1>7, <2>2 DEF Base, InOrder
<1>10. JoinedAreOver'
    BY <1>3, <1>7 DEF Base, JoinedAreOver
<1>11. UndoingIsDue'
    <2>1. TargetsThat(Undoing, "success")' = TargetsThat(Undoing, "success")
        BY <1>4, <1>7 DEF TargetsThat
    <2> QED
        BY <1>2, <1>3, <1>4, <2>1 DEF Base, UndoingIsDue
<1> QED
    BY <1>8, <1>9, <1>10, <1>11 DEF Base

\* Where the compensation goes on: at the next job, in the stage before, or not at all.
LEMMA NextUndoFacts ==
    ASSUME Base, phase = "compensate"
    PROVE  \/ /\ NextUndo = UndoOf(undo.stage, undo.job + 1)
              /\ undo.job + 1 \in JobsOf(undo.stage)
           \/ /\ NextUndo = UndoOf(undo.stage - 1, 1) /\ undo.stage - 1 \in Stages
              /\ plan.rollback_completed_stages_on_failure
              /\ undo.job = Len(plan.stages[undo.stage].jobs)
           \/ /\ NextUndo = NoUndo
              /\ plan.rollback_completed_stages_on_failure => undo.stage = 1
              /\ undo.job = Len(plan.stages[undo.stage].jobs)
<1>1. /\ undo.stage \in Stages /\ undo.stage \in Nat /\ undo.job \in JobsOf(undo.stage)
      /\ undo.job \in Nat
    BY UndoingFacts DEF Base, UndoingIsDue, TypeOK
<1>2. Len(plan.stages[undo.stage].jobs) \in Nat /\ Len(plan.stages) \in Nat
    BY <1>1, PlanFacts DEF Base, TypeOK
<1>3. CASE undo.job < Len(plan.stages[undo.stage].jobs)
    BY <1>1, <1>2, <1>3 DEF NextUndo, JobsOf
<1>4. CASE ~ undo.job < Len(plan.stages[undo.stage].jobs)
    <2>1. undo.job = Len(plan.stages[undo.stage].jobs)
        BY <1>1, <1>2, <1>4 DEF JobsOf
    <2>2. CASE plan.rollback_completed_stages_on_failure /\ undo.stage > 1
        BY <1>1, <1>2, <1>4, <2>1, <2>2 DEF NextUndo, Stages
    <2>3. CASE ~ (plan.rollback_completed_stages_on_failure /\ undo.stage > 1)
        BY <1>1, <1>2, <1>4, <2>1, <2>3 DEF NextUndo, Stages
    <2> QED
        BY <2>2, <2>3
<1> QED
    BY <1>3, <1>4

LEMMA UndoOfIsNone ==
    ASSUME NEW s \in Nat \ {0}, NEW j
    PROVE  UndoOf(s, j) # NoUndo
<1>1. UndoOf(s, j).stage = s /\ NoUndo.stage = 0
    BY DEF UndoOf, NoUndo
<1> QED
    BY <1>1

LEMMA BaseEndUndo ==
    ASSUME Base, EndUndo
    PROVE  Base'
<1>1. /\ UNCHANGED <<plan, inventory, failed, jobs>> /\ phase = "compensate"
      /\ Slots' = Slots /\ Stages' = Stages /\ \A s : JobsOf(s)' = JobsOf(s)
      /\ Compensates' = Compensates
    BY PlanStays DEF EndUndo
<1>2. /\ stage \in Stages /\ stage \in Nat /\ undo.stage \in Stages /\ undo.stage \in 1..stage
      /\ undo.job \in Nat /\ Len(plan.stages) \in Nat
      /\ stage + 1 \in 1..Len(plan.stages) + 1 /\ Compensates
      /\ ~ plan.rollback_completed_stages_on_failure => undo.stage = stage
    BY <1>1, UndoingFacts, PlanFacts DEF Base, TypeOK, UndoingIsDue, Stages
<1>3. ASSUME NEW s \in Stages, NEW j \in JobsOf(s), s <= undo.stage, undo' = UndoOf(s, j),
             ~ plan.rollback_completed_stages_on_failure => s = undo.stage,
             UNCHANGED <<stage, phase>>
      PROVE  Base'
    <2>1. s \in Nat /\ j \in Nat /\ s \in 1..stage
        BY <1>2, <1>3, PlanFacts DEF Stages, JobsOf, Base, TypeOK
    <2>2. TypeOK'
        BY <1>1, <1>3, <2>1, UndoOfTyped DEF Base, TypeOK, inventory
    <2>3. undo'.stage = s /\ undo'.job = j /\ undo'.rest = {}
        BY <1>3 DEF UndoOf
    <2>4. UndoingIsDue'
        BY <1>1, <1>2, <1>3, <2>1, <2>3 DEF UndoingIsDue
    <2> QED
        BY <1>1, <1>3, <2>2, <2>4 DEF Base, InOrder, JoinedAreOver
<1>4. CASE NextUndo = NoUndo
    <2>1. undo' = NoUndo /\ phase' = "next" /\ stage' = stage + 1
        BY <1>4 DEF EndUndo
    <2>2. TypeOK'
        BY <1>1, <1>2, <2>1, UndoOfTyped DEF Base, TypeOK, inventory, NoUndo, Phases
    <2>3. \A k \in Slots : k[1] \in Nat
        BY SlotFacts, <1>2 DEF Stages
    <2>4. InOrder'
        BY <1>1, <1>2, <2>1, <2>3 DEF Base, InOrder, Stages
    <2> QED
        BY <1>1, <2>1, <2>2, <2>4 DEF Base, JoinedAreOver, UndoingIsDue
<1>5. CASE NextUndo # NoUndo
    <2>1. undo' = NextUndo /\ UNCHANGED <<stage, phase>>
        BY <1>5 DEF EndUndo
    <2>2. CASE NextUndo = UndoOf(undo.stage, undo.job + 1) /\ undo.job + 1 \in JobsOf(undo.stage)
        BY <1>2, <1>3, <2>1, <2>2
    <2>3. CASE /\ NextUndo = UndoOf(undo.stage - 1, 1) /\ undo.stage - 1 \in Stages
               /\ plan.rollback_completed_stages_on_failure
        <3>1. 1 \in JobsOf(undo.stage - 1)
            BY <2>3, PlanFacts DEF JobsOf, Base, TypeOK
        <3>2. undo.stage - 1 <= undo.stage
            BY <1>2
        <3> QED
            BY <1>3, <2>1, <2>3, <3>1, <3>2
    <2> QED
        BY <1>1, <1>5, <2>2, <2>3, NextUndoFacts
<1> QED
    BY <1>4, <1>5

LEMMA BaseEdit ==
    ASSUME Base, NEW g \in Used, Edit(g)
    PROVE  Base'
<1>1. /\ UNCHANGED <<plan, stage, phase, failed, jobs, undo>> /\ g \in Groups
      /\ Slots' = Slots /\ Stages' = Stages /\ \A s : JobsOf(s)' = JobsOf(s)
      /\ Compensates' = Compensates
    BY PlanStays, OrchestrationAssumption DEF Edit, Used
<1>2. /\ members' \in [Groups -> SUBSET Devices] /\ missing' \subseteq Groups
      /\ saving' \in SUBSET (Groups \X Devices) /\ saved' \in [Groups -> SUBSET SUBSET Devices]
      /\ edits' \in 0..MaxEdits
    <2>1. CASE Save(g)
        <3>1. edits' \in 0..MaxEdits
            BY <2>1, OrchestrationAssumption DEF Save, Base, TypeOK
        <3> QED
            BY <1>1, <2>1, <3>1 DEF Save, Base, TypeOK
    <2>2. CASE InsertMember(g)
        BY <1>1, <2>2 DEF InsertMember, Base, TypeOK
    <2>3. CASE DeleteGroup(g)
        <3>1. edits' \in 0..MaxEdits
            BY <2>3, OrchestrationAssumption DEF DeleteGroup, Base, TypeOK
        <3> QED
            BY <1>1, <2>3, <3>1 DEF DeleteGroup, Base, TypeOK
    <2> QED
        BY <2>1, <2>2, <2>3 DEF Edit
<1>3. TypeOK'
    BY <1>1, <1>2 DEF Base, TypeOK
<1>4. TargetsThat(Undoing, "success")' = TargetsThat(Undoing, "success")
    BY <1>1 DEF TargetsThat, Undoing
<1> QED
    BY <1>1, <1>3, <1>4 DEF Base, InOrder, JoinedAreOver, UndoingIsDue

LEMMA BaseStep ==
    ASSUME Base, [Next]_vars
    PROVE  Base'
<1>1. CASE UNCHANGED vars
    <2>1. UNCHANGED <<plan, inventory, stage, phase, failed, jobs, undo>> /\ Slots' = Slots
          /\ Stages' = Stages /\ \A s : JobsOf(s)' = JobsOf(s) /\ Compensates' = Compensates
        BY <1>1, PlanStays DEF vars
    <2>2. TargetsThat(Undoing, "success")' = TargetsThat(Undoing, "success")
        BY <2>1 DEF TargetsThat, Undoing
    <2> QED
        BY <2>1, <2>2 DEF inventory, Base, TypeOK, InOrder, JoinedAreOver, UndoingIsDue
<1>2. CASE Step
    BY <1>2, BasePool, BaseSkip, BaseEndStage, BasePhase, BaseResolve, BaseEndUndo, BaseUndoTarget
    DEF Step
<1> QED
    BY <1>1, <1>2, BasePhase, BaseEdit DEF Next

\* An orchestration is in a state of its types: jobs have results for their targets,
\* those of jobs that are over are final, and only those are compensated.
THEOREM TypeCorrect == Spec => []TypeOK
<1>1. Base => TypeOK
    BY DEF Base
<1> QED
    BY BaseInit, BaseStep, <1>1, PTL DEF Spec

-----------------------------------------------------------------------------
\* What a step does to the jobs, and to the course of the plan.

\* A target is compensated, at the connection that has its position in the listing.
Compensated(k, d) ==
    /\ phase = "compensate" /\ undo.resolved
    /\ k = Undoing /\ d \in TargetsThat(k, "success")
    /\ jobs'[k].undone[d] \in undo.listing
    /\ Rank(undo.listing, jobs'[k].undone[d]) = Rank(jobs[k].targets, d)

\* A job keeps its targets and results, is skipped, or is in work in the pool.
Change(k) ==
    \/ /\ jobs'[k].at = jobs[k].at
       /\ jobs'[k].targets = jobs[k].targets /\ jobs'[k].result = jobs[k].result
       /\ jobs'[k].joined = jobs[k].joined
       /\ \A d \in jobs[k].targets : Compensated(k, d) \/ jobs'[k].undone[d] = jobs[k].undone[d]
    \/ /\ jobs[k] = NewJob /\ jobs'[k] = SkippedJob(k) /\ k[1] = stage
       /\ UNCHANGED members
       /\ (phase = "next" /\ failed) \/ (phase = "stage" /\ StageFailed(stage))
    \/ /\ k[1] = stage /\ phase = "stage" /\ phase' = "stage"
       /\ UNCHANGED <<members, stage, failed>>
       /\ Pool(k) /\ NextOf(k, jobs'[k])

Course ==
    \/ UNCHANGED <<stage, phase, failed>>
    \/ phase' \in Ended /\ UNCHANGED <<stage, failed>>
    \/ /\ phase = "next" /\ failed /\ phase' = "next" /\ stage' = stage + 1
       /\ UNCHANGED failed
    \/ phase = "next" /\ ~ failed /\ phase' = "stage" /\ UNCHANGED <<stage, failed>>
    \/ /\ phase = "stage" /\ (failed' <=> StageFailed(stage) /\ EndsPlan)
       /\ \/ phase' = "compensate" /\ StageFailed(stage) /\ UNCHANGED stage
          \/ phase' = "next" /\ stage' = stage + 1
    \/ phase = "compensate" /\ phase' = "next" /\ stage' = stage + 1 /\ UNCHANGED failed

LEMMA JobsStay ==
    ASSUME UNCHANGED jobs
    PROVE  \A k : Change(k)
    BY DEF Change

LEMMA SkipStageJobs ==
    ASSUME Base, SkipStage
    PROVE  \A k \in Slots : Change(k)
<1>1. CASE UNCHANGED jobs
    BY <1>1, JobsStay
<1>2. CASE jobs' = [k \in Slots |-> IF k[1] = stage THEN SkippedJob(k) ELSE jobs[k]]
    <2> SUFFICES ASSUME NEW k \in Slots PROVE Change(k)
        OBVIOUS
    <2>1. CASE k[1] # stage
        BY <1>2, <2>1 DEF Change
    <2>2. CASE k[1] = stage
        BY <1>2, <2>2 DEF SkipStage, Base, InOrder, Change, inventory
    <2> QED
        BY <2>1, <2>2
<1> QED
    BY <1>1, <1>2 DEF SkipStage

LEMMA EndStageJobs ==
    ASSUME Base, EndStage
    PROVE  \A k \in Slots : Change(k)
<1>1. CASE UNCHANGED jobs
    BY <1>1, JobsStay
<1>2. CASE jobs' = [k \in Slots |-> IF k \in JobsIn("pending") THEN SkippedJob(k) ELSE jobs[k]]
    <2>1. ASSUME NEW k \in Slots, k \notin JobsIn("pending") PROVE Change(k)
        BY <1>2, <2>1 DEF Change
    <2>2. ASSUME NEW k \in Slots, k \in JobsIn("pending") PROVE Change(k)
        <3>1. jobs[k] = NewJob
            <4>1. jobs[k].at = "pending" /\ Typed(jobs[k])
                BY <2>2, TypeSplits DEF JobsIn, Base, JobsTyped
            <4> QED
                BY <4>1, IdleFacts
        <3>2. stage \in Stages /\ phase = "stage" /\ UNCHANGED members
            BY DEF EndStage, Base, InOrder, inventory
        <3>3. k[1] = stage
            BY <2>2, <3>2, SlotsOfStage DEF JobsIn
        <3>4. StageFailed(stage)
            <4>1. PICK l \in JobsIn("joined") : JobFailed(l)
                BY <2>2 DEF EndStage, StageStops
            <4>2. l \in SlotsOf(stage)
                BY <4>1 DEF JobsIn
            <4>3. l[2] \in JobsOf(stage) /\ l = <<stage, l[2]>>
                BY <3>2, <4>2, SlotsOfStage
            <4> QED
                BY <4>1, <4>3 DEF StageFailed
        <3>5. jobs'[k] = SkippedJob(k)
            BY <1>2, <2>2
        <3> QED
            BY <3>1, <3>2, <3>3, <3>4, <3>5 DEF Change
    <2> QED
        BY <2>1, <2>2
<1> QED
    BY <1>1, <1>2 DEF EndStage

LEMMA PoolJobs ==
    ASSUME Base, NEW l \in Slots, Pool(l)
    PROVE  /\ \A k \in Slots : Change(k)
           /\ Course
<1>1. /\ UNCHANGED <<plan, inventory, stage, failed, undo>>
      /\ phase = "stage" /\ l[1] = stage
      /\ \/ phase' = "error" /\ UNCHANGED jobs
         \/ phase' = "stage" /\ \E new : jobs' = [jobs EXCEPT ![l] = new] /\ NextOf(l, new)
    BY PoolStep DEF Base
<1>2. CASE phase' = "error" /\ UNCHANGED jobs
    BY <1>1, <1>2, JobsStay DEF Course, Ended
<1>3. ASSUME phase' = "stage", NEW new, jobs' = [jobs EXCEPT ![l] = new], NextOf(l, new)
      PROVE  \A k \in Slots : Change(k)
    <2>1. jobs'[l] = new /\ \A k \in Slots : k # l => jobs'[k] = jobs[k]
        BY <1>3 DEF Base, TypeOK
    <2> QED
        BY <1>1, <1>3, <2>1 DEF Change, inventory
<1> QED
    BY <1>1, <1>2, <1>3 DEF Course

LEMMA UndoTargetJobs ==
    ASSUME Base, NEW d, UndoTarget(d)
    PROVE  \A k \in Slots : Change(k)
<1> DEFINE j == jobs[Undoing]
<1>0. PICK e \in Devices \cup {Nothing} : CompensatesAt(d, e)
    BY UndoTargetStep
<1>1. /\ DOMAIN jobs' = Slots /\ \A k \in Slots \ {Undoing} : jobs'[k] = jobs[k]
      /\ jobs'[Undoing] =
            [at |-> j.at, targets |-> j.targets, result |-> j.result, joined |-> j.joined,
             undone |-> [j.undone EXCEPT ![d] = e]]
    BY <1>0 DEF CompensatesAt
<1>2. \/ /\ e \in undo.listing
         /\ Rank(undo.listing, e) = Rank(j.targets, d)
      \/ /\ e = j.undone[d]
         /\ {f \in undo.listing : Rank(undo.listing, f) = Rank(j.targets, d)} = {}
    BY <1>0 DEF CompensatesAt
<1>3. phase = "compensate" /\ undo.resolved /\ d \in TargetsThat(Undoing, "success")
    BY UndoTargetStep DEF UndoTarget
<1>4. j.undone \in [j.targets -> Devices \cup {Nothing}]
    <2>1. Undoing \in Slots /\ j.at \in Settled
        BY <1>3, UndoingFacts
    <2> QED
        BY <2>1, TypeSplits, OverFacts DEF Base, JobsTyped, Settled
<1>5. Change(Undoing)
    <2>1. /\ jobs'[Undoing].at = j.at /\ jobs'[Undoing].targets = j.targets
          /\ jobs'[Undoing].result = j.result /\ jobs'[Undoing].joined = j.joined
          /\ jobs'[Undoing].undone = [j.undone EXCEPT ![d] = e]
        BY <1>1
    <2>2. ASSUME NEW f \in j.targets
          PROVE  Compensated(Undoing, f) \/ jobs'[Undoing].undone[f] = j.undone[f]
        <3>1. CASE f # d
            BY <1>4, <2>1, <2>2, <3>1
        <3>2. CASE f = d
            <4>1. jobs'[Undoing].undone[f] = e
                BY <1>4, <2>1, <2>2, <3>2
            <4> QED
                BY <1>3, <1>2, <3>2, <4>1 DEF Compensated
        <3> QED
            BY <3>1, <3>2
    <2> QED
        BY <2>1, <2>2 DEF Change
<1>6. ASSUME NEW k \in Slots \ {Undoing} PROVE Change(k)
    BY <1>1 DEF Change
<1> QED
    BY <1>5, <1>6

LEMMA JobStep ==
    ASSUME Base, [Next]_vars
    PROVE  /\ UNCHANGED plan
           /\ \A k \in Slots : Change(k)
           /\ Course
<1>1. CASE UNCHANGED vars
    BY <1>1, JobsStay DEF vars, Course
<1>2. CASE SkipStage
    BY <1>2, SkipStageJobs DEF SkipStage, Course, Ended
<1>3. CASE StartStage \/ Finish \/ Interrupt \/ ResolveUndo \/ EndUndo
    BY <1>3, JobsStay DEF StartStage, Finish, Interrupt, ResolveUndo, EndUndo, Course, Ended
<1>4. CASE EndStage
    BY <1>4, EndStageJobs DEF EndStage, Course, Ended
<1>5. ASSUME NEW l \in Slots, Pool(l) PROVE UNCHANGED plan /\ (\A k \in Slots : Change(k)) /\ Course
    BY <1>5, PoolJobs, PoolStep DEF Base
<1>6. ASSUME NEW d, UndoTarget(d) PROVE UNCHANGED plan /\ (\A k \in Slots : Change(k)) /\ Course
    BY <1>6, UndoTargetJobs DEF UndoTarget, Course
<1>7. ASSUME NEW g, Edit(g) PROVE UNCHANGED plan /\ (\A k \in Slots : Change(k)) /\ Course
    BY <1>7, JobsStay DEF Edit, Course
<1> QED
    BY <1>1, <1>2, <1>3, <1>4, <1>5, <1>6, <1>7 DEF Next, Step

-----------------------------------------------------------------------------
\* Failures.

LEMMA NewJobFacts ==
    ASSUME NEW k, jobs[k] = NewJob
    PROVE  jobs[k].targets = {} /\ (\A r : TargetsThat(k, r) = {}) /\ ~ JobFailed(k)
    BY DEF NewJob, TargetsThat, JobFailed

LEMMA SkippedJobFacts ==
    ASSUME NEW k, jobs'[k] = SkippedJob(k)
    PROVE  TargetsThat(k, "skipped")' = jobs'[k].targets /\ ~ JobFailed(k)'
    BY SkippedFacts DEF TargetsThat, JobFailed

LEMMA SameFacts ==
    ASSUME NEW k, jobs'[k].targets = jobs[k].targets, jobs'[k].result = jobs[k].result
    PROVE  /\ \A r : TargetsThat(k, r)' = TargetsThat(k, r)
           /\ JobFailed(k)' = JobFailed(k)
    BY DEF TargetsThat, JobFailed

\* A failure stays; it comes about in the pool of the current stage.
LEMMA JobFailures ==
    ASSUME Base, NEW k \in Slots, Change(k)
    PROVE  /\ JobFailed(k) => JobFailed(k)'
           /\ JobFailed(k)' /\ ~ JobFailed(k) =>
                /\ k[1] = stage /\ phase = "stage" /\ phase' = "stage"
                /\ UNCHANGED <<stage, failed>>
<1>1. CASE jobs'[k].targets = jobs[k].targets /\ jobs'[k].result = jobs[k].result
    BY <1>1, SameFacts
<1>2. CASE jobs[k] = NewJob /\ jobs'[k] = SkippedJob(k)
    BY <1>2, NewJobFacts, SkippedJobFacts
<1>3. CASE /\ k[1] = stage /\ phase = "stage" /\ phase' = "stage" /\ UNCHANGED <<stage, failed>>
           /\ NextOf(k, jobs'[k])
    <2>1. ASSUME JobFailed(k) PROVE JobFailed(k)'
        <3>1. PICK d \in TargetsThat(k, "failed") : TRUE
            BY <2>1 DEF JobFailed
        <3>2. d \in jobs'[k].targets /\ jobs'[k].result[d] = "failed"
            BY <1>3 DEF NextOf
        <3> QED
            BY <3>2 DEF JobFailed, TargetsThat
    <2> QED
        BY <1>3, <2>1
<1> QED
    BY <1>1, <1>2, <1>3 DEF Change

LEMMA StageFailures ==
    ASSUME Base, [Next]_vars, NEW s \in Stages
    PROVE  /\ StageFailed(s) => StageFailed(s)'
           /\ StageFailed(s)' /\ ~ StageFailed(s) =>
                /\ s = stage /\ phase = "stage" /\ phase' = "stage"
                /\ UNCHANGED <<stage, failed>>
<1>1. UNCHANGED plan /\ JobsOf(s)' = JobsOf(s)
    BY JobStep, PlanStays
<1>2. ASSUME NEW j \in JobsOf(s)
      PROVE  /\ JobFailed(<<s, j>>) => JobFailed(<<s, j>>)'
             /\ JobFailed(<<s, j>>)' /\ ~ JobFailed(<<s, j>>) =>
                /\ s = stage /\ phase = "stage" /\ phase' = "stage"
                /\ UNCHANGED <<stage, failed>>
    <2>1. <<s, j>> \in Slots
        BY SlotIs
    <2>2. Change(<<s, j>>)
        BY <2>1, JobStep
    <2>3. <<s, j>>[1] = s
        OBVIOUS
    <2> QED
        BY <2>1, <2>2, <2>3, JobFailures
<1> QED
    BY <1>1, <1>2 DEF StageFailed

LEMMA FailedIsTrueStep ==
    ASSUME Base, FailedIsTrue, [Next]_vars
    PROVE  FailedIsTrue'
<1>1. Stages' = Stages /\ EndsPlan' = EndsPlan /\ Course /\ stage \in Nat
    BY JobStep, PlanStays DEF Base, TypeOK
<1>2. \A s \in Stages : s \in Int
    BY PlanFacts DEF Stages, Base, TypeOK
<1>3. ASSUME failed' PROVE \E s \in Stages : s <= stage' /\ StageFailed(s)'
    <2>1. CASE failed
        <3>1. PICK s \in Stages : s <= stage /\ StageFailed(s)
            BY <2>1 DEF FailedIsTrue
        <3>2. stage <= stage'
            BY <1>1 DEF Course
        <3>3. stage' \in Int
            BY <1>1 DEF Course
        <3> QED
            BY <1>1, <1>2, <3>1, <3>2, <3>3, StageFailures
    <2>2. CASE ~ failed
        <3>1. phase = "stage" /\ StageFailed(stage) /\ (stage' = stage \/ stage' = stage + 1)
            BY <1>1, <1>3, <2>2, Zenon DEF Course
        <3>2. stage \in Stages
            BY <3>1 DEF Base, InOrder
        <3>3. stage <= stage'
            BY <1>1, <3>1
        <3> QED
            BY <3>1, <3>2, <3>3, StageFailures
    <2> QED
        BY <2>1, <2>2
<1>4. ASSUME EndsPlan, phase' = "next", ~ failed', NEW s \in Stages, s < stage'
      PROVE  ~ StageFailed(s)'
    <2>1. \/ phase = "next" /\ ~ failed /\ stage' = stage
          \/ phase = "stage" /\ stage' = stage + 1 /\ ~ StageFailed(stage)
          \/ phase = "compensate" /\ ~ failed
        <3>1. phase' # "stage" /\ phase' # "compensate" /\ phase' \notin Ended
            BY <1>4 DEF Ended
        <3> QED
            BY <1>1, <1>4, <3>1, Zenon DEF Course
    <2>2. s < stage \/ s = stage \/ phase = "compensate"
        BY <1>1, <1>2, <1>4, <2>1
    <2>3. ~ StageFailed(s)
        BY <1>4, <2>1, <2>2 DEF FailedIsTrue
    <2> QED
        BY <1>4, <2>3, StageFailures
<1>5. ASSUME EndsPlan, phase' = "stage", NEW s \in Stages, s < stage'
      PROVE  ~ StageFailed(s)'
    <2>1. stage' = stage /\ ~ StageFailed(s)
        BY <1>1, <1>2, <1>5 DEF Course, Ended, FailedIsTrue
    <2> QED
        BY <1>1, <1>2, <1>5, <2>1, StageFailures
<1>6. ASSUME EndsPlan, phase' = "compensate", ~ failed', NEW s \in Stages
      PROVE  ~ StageFailed(s)'
    <2>1. phase = "compensate" /\ ~ failed
        <3>1. phase' # "stage" /\ phase' # "next" /\ phase' \notin Ended
            BY <1>6 DEF Ended
        <3>2. ~ (phase = "stage" /\ StageFailed(stage) /\ (failed' <=> StageFailed(stage) /\ EndsPlan))
            BY <1>6
        <3> QED
            BY <1>1, <1>6, <3>1, <3>2 DEF Course
    <2>2. ~ StageFailed(s)
        BY <1>6, <2>1 DEF FailedIsTrue
    <2> QED
        BY <1>6, <2>2, StageFailures
<1> QED
    BY <1>1, <1>3, <1>4, <1>5, <1>6 DEF FailedIsTrue

LEMMA StopsStep ==
    ASSUME Base, FailedIsTrue, StopsAfterFailure, [Next]_vars
    PROVE  StopsAfterFailure'
<1>1. UNCHANGED plan /\ Stages' = Stages /\ \A s : SlotsOf(s)' = SlotsOf(s)
    BY JobStep, PlanStays
<1>2. \A s \in Stages : s \in Int
    BY PlanFacts DEF Stages, Base, TypeOK
<1> SUFFICES ASSUME NEW s \in Stages, NEW t \in Stages, s < t, StageFailed(s)', EndsPlan,
                    NEW k \in SlotsOf(t)
             PROVE  TargetsThat(k, "skipped")' = jobs'[k].targets
    BY <1>1 DEF StopsAfterFailure, EndsPlan
<1>3. k \in Slots /\ k[1] = t /\ Change(k) /\ stage \in Int
    BY SlotsOfStage, JobStep DEF Base, TypeOK
<1>4. CASE jobs'[k].targets = jobs[k].targets /\ jobs'[k].result = jobs[k].result
    <2>1. CASE StageFailed(s)
        BY <1>4, <2>1, SameFacts DEF StopsAfterFailure, EndsPlan
    <2>2. CASE ~ StageFailed(s)
        <3>1. t > stage
            BY <2>2, <1>2, StageFailures
        <3>2. jobs[k] = NewJob
            BY <1>3, <3>1 DEF Base, InOrder
        <3> QED
            BY <1>4, <3>2, NewJobFacts, SameFacts
    <2> QED
        BY <2>1, <2>2
<1>5. CASE jobs'[k] = SkippedJob(k)
    BY <1>5, SkippedJobFacts
<1>6. CASE k[1] = stage /\ phase = "stage"
    <2>1. ~ StageFailed(s) /\ s # stage
        BY <1>2, <1>3, <1>6 DEF FailedIsTrue
    <2> QED
        BY <2>1, StageFailures
<1> QED
    BY <1>3, <1>4, <1>5, <1>6 DEF Change

LEMMA SkippedStep ==
    ASSUME Base, FailedIsTrue, SkippedForFailure, [Next]_vars
    PROVE  SkippedForFailure'
<1>1. Slots' = Slots /\ Stages' = Stages
    BY JobStep, PlanStays
<1> SUFFICES ASSUME NEW k \in Slots
             PROVE  /\ jobs'[k].at = "skipped" => \E s \in Stages : StageFailed(s)'
                    /\ jobs'[k].at \in {"running", "ended", "joined"}
                            /\ TargetsThat(k, "skipped")' # {} => JobFailed(k)'
    BY <1>1 DEF SkippedForFailure
<1>2. Change(k)
    BY JobStep
<1>3. CASE /\ jobs'[k].at = jobs[k].at
           /\ jobs'[k].targets = jobs[k].targets /\ jobs'[k].result = jobs[k].result
    BY <1>3, SameFacts, StageFailures DEF SkippedForFailure
<1>4. CASE /\ jobs'[k] = SkippedJob(k)
           /\ (phase = "next" /\ failed) \/ (phase = "stage" /\ StageFailed(stage))
    <2>1. \E s \in Stages : StageFailed(s)
        BY <1>4 DEF FailedIsTrue, Base, InOrder
    <2>2. jobs'[k].at = "skipped"
        BY <1>4, SkippedFacts
    <2> QED
        BY <2>1, <2>2, StageFailures
<1>5. CASE NextOf(k, jobs'[k])
    <2>1. jobs'[k].at # "skipped"
        BY <1>5 DEF NextOf
    <2>2. ASSUME TargetsThat(k, "skipped")' # {} PROVE JobFailed(k)'
        <3>1. CASE TargetsThat(k, "skipped") # {}
            <4>1. jobs[k].at # "pending"
                <5> SUFFICES ASSUME jobs[k].at = "pending" PROVE FALSE
                    OBVIOUS
                <5>1. jobs[k].targets = {}
                    BY IdleFacts, TypeSplits DEF Base, JobsTyped
                <5> QED
                    BY <3>1, <5>1 DEF TargetsThat
            <4>2. JobFailed(k)
                BY <1>5, <3>1, <4>1 DEF NextOf, SkippedForFailure
            <4> QED
                BY <1>2, <4>2, JobFailures
        <3>2. CASE \E e \in jobs'[k].targets : jobs'[k].result[e] = "failed"
            BY <3>2 DEF JobFailed, TargetsThat
        <3> QED
            BY <1>5, <2>2, <3>1, <3>2 DEF NextOf, TargetsThat
    <2> QED
        BY <2>1, <2>2
<1> QED
    BY <1>2, <1>3, <1>4, <1>5 DEF Change

\* What the theorems about failures rest on.
Failures == Base /\ FailedIsTrue /\ StopsAfterFailure /\ SkippedForFailure

LEMMA FailuresInductive == Spec => []Failures
<1>1. Init => Failures
    <2> SUFFICES ASSUME Init PROVE Failures
        OBVIOUS
    <2>1. Base
        BY BaseInit
    <2>2. ~ failed /\ \A k \in Slots : jobs[k] = NewJob
        BY DEF Init
    <2>3. \A s \in Stages : ~ StageFailed(s)
        BY <2>2, SlotIs, NewJobFacts DEF StageFailed
    <2>4. SkippedForFailure
        BY <2>2 DEF NewJob, SkippedForFailure
    <2> QED
        BY <2>1, <2>2, <2>3, <2>4 DEF Failures, FailedIsTrue, StopsAfterFailure
<1>2. Failures /\ [Next]_vars => Failures'
    BY BaseStep, FailedIsTrueStep, StopsStep, SkippedStep DEF Failures
<1> QED
    BY <1>1, <1>2, PTL DEF Spec

\* After a failure that ends the plan, no target of a later stage is operated: for
\* any pools of stages and jobs, any order of their tasks and any edit of the groups.
THEOREM StopsAfterFailureHolds == Spec => []StopsAfterFailure
<1>1. Failures => StopsAfterFailure
    BY DEF Failures
<1> QED
    BY FailuresInductive, <1>1, PTL

\* A plan that ends without a failed stage has changed every target of every job:
\* whatever is skipped is skipped for a failure that is reported.
THEOREM OutcomeHolds == Spec => []OutcomeIsHonest
<1>1. Failures => OutcomeIsHonest
    <2> SUFFICES ASSUME Failures, phase = "done", \A s \in Stages : ~ StageFailed(s),
                        NEW k \in Slots
                 PROVE  jobs[k].at = "joined" /\ TargetsThat(k, "success") = jobs[k].targets
        BY DEF OutcomeIsHonest
    <2>1. TypeOK /\ k[1] \in Stages /\ k[2] \in JobsOf(k[1]) /\ k = <<k[1], k[2]>>
        BY SlotFacts DEF Failures, Base
    <2>2. k[1] < stage
        <3>1. stage \notin Stages /\ stage \in 1..Len(plan.stages) + 1
            BY DEF Failures, Base, InOrder, TypeOK
        <3> QED
            BY <2>1, <3>1, PlanFacts DEF Stages, TypeOK
    <2>3. jobs[k].at \in Settled
        BY <2>2 DEF Failures, Base, InOrder
    <2>4. jobs[k].at = "joined" /\ (TargetsThat(k, "skipped") = {} \/ JobFailed(k))
        BY <2>3 DEF Failures, SkippedForFailure, Settled
    <2>5. ~ JobFailed(k)
        BY <2>1 DEF StageFailed
    <2>6. jobs[k].result \in [jobs[k].targets -> {"success", "failed", "skipped"}]
        BY <2>1, <2>3, TypeSplits, OverFacts DEF JobsTyped, Settled
    <2> QED
        BY <2>4, <2>5, <2>6 DEF TargetsThat, JobFailed
<1> QED
    BY FailuresInductive, <1>1, PTL

-----------------------------------------------------------------------------
\* The compensation, while the inventory is left alone.

\* A step that the inventory survives unedited leaves it as it is.
LEMMA StableStep ==
    ASSUME Base, TargetsAreListed, [Next]_vars, Stable'
    PROVE  Stable /\ UNCHANGED <<members, saving>>
<1>1. CASE UNCHANGED inventory
    BY <1>1 DEF inventory, Stable
<1>2. ASSUME NEW g, Edit(g) PROVE Stable /\ UNCHANGED <<members, saving>>
    <2>1. edits \in Nat
        BY OrchestrationAssumption DEF Base, TypeOK
    <2>2. InsertMember(g)
        BY <1>2, <2>1 DEF Edit, Save, DeleteGroup, Stable
    <2>3. Stable
        BY <2>2 DEF InsertMember, Stable
    <2> QED
        BY <2>2, <2>3 DEF InsertMember, TargetsAreListed
<1>3. ASSUME Step PROVE UNCHANGED inventory
    BY <1>3, PoolStep DEF Step, SkipStage, StartStage, EndStage, Finish, ResolveUndo, EndUndo,
                          UndoTarget, Base
<1> QED
    BY <1>1, <1>2, <1>3 DEF Next, vars, Interrupt

LEMMA TargetsAreListedStep ==
    ASSUME Base, TargetsAreListed, [Next]_vars
    PROVE  TargetsAreListed'
<1> SUFFICES ASSUME Stable' PROVE TargetsAreListed'
    BY DEF TargetsAreListed
<1>1. Stable /\ UNCHANGED <<members, saving>>
    BY StableStep
<1>2. UNCHANGED plan /\ Slots' = Slots /\ \A k : JobAt(k)' = JobAt(k)
    BY JobStep, PlanStays
<1>3. \A k : Selected(k)' = Selected(k)
    BY <1>1, <1>2 DEF Selected
<1>4. ASSUME NEW k \in Slots, jobs'[k].at \notin {"pending", "broken"}
      PROVE  jobs'[k].targets = Selected(k)
    <2>1. Change(k)
        BY JobStep
    <2>2. CASE jobs'[k].at = jobs[k].at /\ jobs'[k].targets = jobs[k].targets
        BY <1>1, <1>4, <2>2 DEF TargetsAreListed
    <2>3. CASE jobs'[k] = SkippedJob(k)
        BY <2>3, SkippedFacts
    <2>4. CASE NextOf(k, jobs'[k])
        BY <1>1, <1>4, <2>4 DEF NextOf, TargetsAreListed
    <2> QED
        BY <2>1, <2>2, <2>3, <2>4 DEF Change
<1> QED
    BY <1>1, <1>2, <1>3, <1>4 DEF TargetsAreListed

\* What has been compensated up to stage n stays compensated, and so do stages.
UndoneStays(n) ==
    \A k \in Slots : k[1] <= n /\ JobUndone(k) => JobUndone(k)'

LEMMA UndoneIs ==
    ASSUME NEW s
    PROVE  Undone(s) <=> \A k \in SlotsOf(s) : JobUndone(k)
    BY DEF Undone, JobUndone

LEMMA StagesStay ==
    ASSUME Base, UNCHANGED plan, NEW n \in Nat, UndoneStays(n), NEW s \in Stages, s <= n, Undone(s)
    PROVE  Undone(s)'
<1>1. SlotsOf(s)' = SlotsOf(s)
    BY PlanStays
<1>2. ASSUME NEW k \in SlotsOf(s) PROVE JobUndone(k)'
    BY <1>2, SlotsOfStage, UndoneIs DEF UndoneStays
<1>3. ASSUME NEW k \in SlotsOf(s), NEW d \in TargetsThat(k, "success")'
      PROVE  jobs'[k].undone[d] # Nothing
    BY <1>2, <1>3 DEF JobUndone
<1> QED
    BY <1>1, <1>3 DEF Undone

LEMMA RolledBackStays ==
    ASSUME Base, UNCHANGED plan, NEW n \in Nat, UndoneStays(n), NEW s \in Stages, s <= n,
           StageFailed(s)' => StageFailed(s), RolledBack(s)
    PROVE  RolledBack(s)'
<1> SUFFICES ASSUME StageFailed(s)'
             PROVE  /\ plan.rollback_on_stage_failure => Undone(s)'
                    /\ plan.rollback_completed_stages_on_failure =>
                        \A t \in 1..s : Undone(t)'
    BY DEF RolledBack
<1>1. /\ plan.rollback_on_stage_failure => Undone(s)
      /\ plan.rollback_completed_stages_on_failure => \A t \in 1..s : Undone(t)
    BY DEF RolledBack
<1>2. \A t \in 1..s : t \in Stages /\ t <= n
    BY PlanFacts DEF Stages, Base, TypeOK
<1> QED
    BY <1>1, <1>2, StagesStay

LEMMA RollbackQuiet ==
    ASSUME Base, RollbackSoFar, TargetsAreListed, [Next]_vars,
           UNCHANGED <<jobs, stage, undo>>, phase' = phase \/ phase' # "compensate"
    PROVE  RollbackSoFar'
<1> SUFFICES ASSUME Stable' PROVE RollbackSoFar'
    BY DEF RollbackSoFar
<1>1. Stable /\ UNCHANGED plan /\ Stages' = Stages /\ \A s : SlotsOf(s)' = SlotsOf(s)
    BY StableStep, JobStep, PlanStays
<1>2. \A s : JobsOf(s)' = JobsOf(s)
    BY <1>1, PlanStays
<1>3. \A k : /\ \A r : TargetsThat(k, r)' = TargetsThat(k, r)
             /\ JobFailed(k)' = JobFailed(k) /\ JobUndone(k)' = JobUndone(k)
    BY DEF TargetsThat, JobFailed, JobUndone
<1>4. \A s : StageFailed(s)' = StageFailed(s) /\ Undone(s)' = Undone(s)
    BY <1>1, <1>2, <1>3 DEF StageFailed, Undone
<1>5. \A s : RolledBack(s)' = RolledBack(s)
    BY <1>1, <1>4 DEF RolledBack
<1>6. Undoing' = Undoing
    BY DEF Undoing
<1> QED
    BY <1>1, <1>3, <1>4, <1>5, <1>6 DEF RollbackSoFar

\* The pool and the skips only concern the current stage.
LEMMA EarlierStay ==
    ASSUME Base, UNCHANGED plan, \A k \in Slots : k[1] < stage => jobs'[k] = jobs[k],
           [Next]_vars, NEW s \in Stages, s < stage, RolledBack(s)
    PROVE  RolledBack(s)'
<1>1. stage - 1 \in Nat /\ s <= stage - 1 /\ stage \in Nat
    BY PlanFacts DEF Stages, Base, TypeOK
<1>2. \A k \in Slots : k[1] \in Int
    BY SlotFacts, PlanFacts DEF Stages, Base, TypeOK
<1>3. UndoneStays(stage - 1)
    <2>1. ASSUME NEW k \in Slots, k[1] <= stage - 1, JobUndone(k) PROVE JobUndone(k)'
        <3>1. jobs'[k] = jobs[k]
            BY <1>1, <1>2, <2>1
        <3> QED
            BY <2>1, <3>1 DEF JobUndone, TargetsThat
    <2> QED
        BY <2>1 DEF UndoneStays
<1>4. StageFailed(s)' => StageFailed(s)
    BY <1>1, StageFailures
<1> QED
    BY <1>1, <1>3, <1>4, RolledBackStays

LEMMA RollbackPool ==
    ASSUME Base, RollbackSoFar, TargetsAreListed, [Next]_vars, NEW l \in Slots, Pool(l)
    PROVE  RollbackSoFar'
<1>1. /\ UNCHANGED <<plan, inventory, stage, undo>> /\ phase' # "compensate" /\ l[1] = stage
      /\ \/ UNCHANGED jobs
         \/ \E new : jobs' = [jobs EXCEPT ![l] = new]
    BY PoolStep DEF Base
<1>2. \A k \in Slots : k # l => jobs'[k] = jobs[k]
    BY <1>1 DEF Base, TypeOK
<1>3. \A k \in Slots : k[1] < stage => jobs'[k] = jobs[k]
    BY <1>1, <1>2 DEF Base, TypeOK
<1>4. Stages' = Stages /\ (Stable' => Stable)
    BY <1>1, PlanStays, StableStep
<1> QED
    BY <1>1, <1>3, <1>4, EarlierStay DEF RollbackSoFar

LEMMA RollbackSkip ==
    ASSUME Base, RollbackSoFar, TargetsAreListed, [Next]_vars, SkipStage
    PROVE  RollbackSoFar'
<1>1. CASE UNCHANGED <<jobs, stage, undo>>
    BY <1>1, RollbackQuiet DEF SkipStage
<1>2. CASE /\ jobs' = [k \in Slots |-> IF k[1] = stage THEN SkippedJob(k) ELSE jobs[k]]
           /\ stage' = stage + 1
    <2>1. UNCHANGED plan /\ phase' = "next" /\ stage \in Stages /\ (Stable' => Stable)
        BY <1>2, StableStep DEF SkipStage
    <2>2. \A s \in Stages : s \in Int
        BY PlanFacts DEF Stages, Base, TypeOK
    <2>3. Stages' = Stages /\ stage \in Nat
        BY <2>1, PlanStays DEF Base, TypeOK
    <2>4. \A k \in Slots : k[1] < stage => jobs'[k] = jobs[k]
        BY <1>2, <2>3
    <2>5. ASSUME NEW s \in Stages, s = stage PROVE ~ StageFailed(s)'
        <3>1. JobsOf(s)' = JobsOf(s)
            BY <2>1, PlanStays
        <3>2. ASSUME NEW j \in JobsOf(s) PROVE ~ JobFailed(<<s, j>>)'
            <4>1. <<s, j>> \in Slots /\ <<s, j>>[1] = stage
                BY <2>5, SlotIs
            <4>2. jobs'[<<s, j>>] = SkippedJob(<<s, j>>)
                BY <1>2, <4>1
            <4> QED
                BY <4>2, SkippedJobFacts
        <3> QED
            BY <3>1, <3>2 DEF StageFailed
    <2>6. ASSUME NEW s \in Stages, s < stage', Stable' PROVE RolledBack(s)'
        <3>1. s < stage \/ s = stage
            BY <1>2, <2>2, <2>3, <2>6
        <3>2. CASE s < stage
            BY <2>1, <2>4, <2>6, <3>2, EarlierStay DEF RollbackSoFar
        <3>3. CASE s = stage
            BY <2>5, <3>3 DEF RolledBack
        <3> QED
            BY <3>1, <3>2, <3>3
    <2> QED
        BY <2>1, <2>3, <2>6 DEF RollbackSoFar
<1> QED
    BY <1>1, <1>2 DEF SkipStage

LEMMA RollbackEndStage ==
    ASSUME Base, RollbackSoFar, TargetsAreListed, [Next]_vars, EndStage
    PROVE  RollbackSoFar'
<1>1. CASE UNCHANGED jobs /\ UNCHANGED stage /\ UNCHANGED undo /\ phase' = "error"
    BY <1>1, RollbackQuiet
<1>2. ASSUME jobs' = [k \in Slots |-> IF k \in JobsIn("pending") THEN SkippedJob(k) ELSE jobs[k]],
             \/ phase' = "compensate" /\ undo' = UndoOf(stage, 1) /\ UNCHANGED stage
             \/ phase' = "next" /\ stage' = stage + 1 /\ ~ (StageFailed(stage) /\ Compensates)
      PROVE  RollbackSoFar'
    <2>1. UNCHANGED plan /\ stage \in Stages /\ phase = "stage" /\ (Stable' => Stable)
        BY StableStep DEF EndStage, Base, InOrder
    <2>2. \A s \in Stages : s \in Int
        BY PlanFacts DEF Stages, Base, TypeOK
    <2>3. Stages' = Stages /\ stage \in Nat /\ \A s : SlotsOf(s)' = SlotsOf(s)
        BY <2>1, PlanStays DEF Base, TypeOK
    <2>4. \A k \in Slots : k[1] < stage => jobs'[k] = jobs[k]
        <3>1. ASSUME NEW k \in Slots, k[1] < stage PROVE k \notin JobsIn("pending")
            BY <2>1, <2>3, <3>1, SlotsOfStage DEF JobsIn
        <3> QED
            BY <1>2, <3>1
    <2>5. ASSUME NEW s \in Stages, s < stage, Stable' PROVE RolledBack(s)'
        BY <2>1, <2>4, <2>5, EarlierStay DEF RollbackSoFar
    <2>6. CASE phase' = "compensate" /\ undo' = UndoOf(stage, 1) /\ UNCHANGED stage
        <3>1. undo'.stage = stage /\ undo'.job = 1 /\ ~ undo'.resolved
            BY <2>6 DEF UndoOf
        <3>2. ASSUME NEW k \in SlotsOf(stage) PROVE ~ k[2] < 1
            BY <2>1, <3>2, SlotsOfStage, PlanFacts DEF JobsOf, Base, TypeOK
        <3>3. \A t \in Stages : ~ (stage < t /\ t <= stage)
            BY <2>2, <2>3
        <3>4. SlotsOf(undo.stage)' = SlotsOf(stage)
            BY <2>3, <3>1
        <3> QED
            BY <2>1, <2>3, <2>5, <2>6, <3>1, <3>2, <3>3, <3>4 DEF RollbackSoFar
    <2>7. CASE phase' = "next" /\ stage' = stage + 1 /\ ~ (StageFailed(stage) /\ Compensates)
        <3>1. ASSUME NEW s \in Stages, s = stage PROVE RolledBack(s)'
            <4>1. StageFailed(s)' => StageFailed(s)
                BY <2>3, <2>7, <3>1, StageFailures
            <4> QED
                BY <2>1, <2>7, <3>1, <4>1 DEF RolledBack, Compensates
        <3>2. \A s \in Stages : s < stage' => s < stage \/ s = stage
            BY <2>2, <2>3, <2>7
        <3> QED
            BY <2>1, <2>3, <2>5, <2>7, <3>1, <3>2 DEF RollbackSoFar
    <2> QED
        BY <1>2, <2>6, <2>7
<1> QED
    BY <1>1, <1>2 DEF EndStage

LEMMA RollbackResolve ==
    ASSUME Base, RollbackSoFar, TargetsAreListed, [Next]_vars, ResolveUndo
    PROVE  RollbackSoFar'
<1>1. CASE UNCHANGED undo
    BY <1>1, RollbackQuiet DEF ResolveUndo
<1>2. ASSUME UNCHANGED phase,
             undo' = [stage |-> undo.stage, job |-> undo.job, resolved |-> TRUE,
                      listing |-> Selected(Undoing),
                      rest |-> {d \in TargetsThat(Undoing, "success") :
                                  jobs[Undoing].undone[d] = Nothing}]
      PROVE  RollbackSoFar'
    <2> SUFFICES ASSUME Stable' PROVE RollbackSoFar'
        BY DEF RollbackSoFar
    <2>1. /\ UNCHANGED <<plan, stage, jobs>> /\ phase = "compensate" /\ Stable
          /\ Stages' = Stages /\ (\A s : SlotsOf(s)' = SlotsOf(s)) /\ (\A s : JobsOf(s)' = JobsOf(s))
        BY StableStep, PlanStays DEF ResolveUndo
    <2>2. /\ undo'.stage = undo.stage /\ undo'.job = undo.job /\ Undoing' = Undoing
          /\ undo'.listing = Selected(Undoing)
          /\ undo'.rest = {d \in TargetsThat(Undoing, "success") : jobs[Undoing].undone[d] = Nothing}
        BY <1>2 DEF Undoing
    <2>3. \A k : /\ \A r : TargetsThat(k, r)' = TargetsThat(k, r)
                 /\ JobFailed(k)' = JobFailed(k) /\ JobUndone(k)' = JobUndone(k)
        BY <2>1 DEF TargetsThat, JobFailed, JobUndone
    <2>4. \A s : StageFailed(s)' = StageFailed(s) /\ Undone(s)' = Undone(s)
        BY <2>1, <2>3 DEF StageFailed, Undone
    <2>5. \A s : RolledBack(s)' = RolledBack(s)
        BY <2>1, <2>4 DEF RolledBack
    <2>6. Undoing \in Slots /\ jobs[Undoing].at \in Settled
        BY <2>1, UndoingFacts
    <2>7. Selected(Undoing) = jobs[Undoing].targets
        BY <2>1, <2>6 DEF TargetsAreListed, Settled
    <2>8. \A d \in TargetsThat(Undoing, "success") \ undo'.rest : jobs[Undoing].undone[d] # Nothing
        BY <2>2
    <2>9. TargetsThat(Undoing, "success")' = TargetsThat(Undoing, "success")
        BY <2>1, <2>2 DEF TargetsThat
    <2> QED
        BY <1>2, <2>1, <2>2, <2>3, <2>4, <2>5, <2>7, <2>8, <2>9 DEF RollbackSoFar
<1> QED
    BY <1>1, <1>2 DEF ResolveUndo

\* While the listing is the one the job had, the target is at its own position.
LEMMA UndoneNow ==
    ASSUME Base, RollbackSoFar, Stable, NEW d, UndoTarget(d)
    PROVE  /\ jobs'[Undoing].undone[d] # Nothing
           /\ jobs'[Undoing].undone = [jobs[Undoing].undone EXCEPT ![d] = jobs'[Undoing].undone[d]]
           /\ DOMAIN jobs[Undoing].undone = jobs[Undoing].targets
<1> DEFINE j == jobs[Undoing]
<1>0. PICK e \in Devices \cup {Nothing} : CompensatesAt(d, e)
    BY UndoTargetStep
<1>1. /\ \/ e \in undo.listing
         \/ {f \in undo.listing : Rank(undo.listing, f) = Rank(j.targets, d)} = {}
      /\ jobs'[Undoing] =
            [at |-> j.at, targets |-> j.targets, result |-> j.result, joined |-> j.joined,
             undone |-> [j.undone EXCEPT ![d] = e]]
    BY <1>0 DEF CompensatesAt
<1>2. phase = "compensate" /\ undo.resolved /\ d \in j.targets
    BY UndoTargetStep DEF UndoTarget, TargetsThat
<1>3. undo.listing = j.targets
    BY <1>2 DEF RollbackSoFar
<1>4. e \in undo.listing
    BY <1>1, <1>2, <1>3
<1>5. e \in Devices
    BY <1>4 DEF Base, TypeOK
<1>6. j.undone \in [j.targets -> Devices \cup {Nothing}]
    <2>1. Undoing \in Slots /\ j.at \in Settled
        BY <1>2, UndoingFacts
    <2> QED
        BY <2>1, TypeSplits, OverFacts DEF Base, JobsTyped, Settled
<1> QED
    BY <1>1, <1>2, <1>5, <1>6, MarkerAssumption

LEMMA RollbackUndoTarget ==
    ASSUME Base, RollbackSoFar, TargetsAreListed, [Next]_vars, NEW d, UndoTarget(d)
    PROVE  RollbackSoFar'
<1> SUFFICES ASSUME Stable' PROVE RollbackSoFar'
    BY DEF RollbackSoFar
<1> DEFINE j == jobs[Undoing]
<1>1. /\ UNCHANGED <<plan, stage, phase>> /\ phase = "compensate" /\ Stable
      /\ Stages' = Stages /\ (\A s : SlotsOf(s)' = SlotsOf(s)) /\ stage \in Nat
    BY StableStep, UndoTargetStep, PlanStays DEF Base, TypeOK
<1>2. /\ undo'.stage = undo.stage /\ undo'.job = undo.job /\ undo'.resolved
      /\ undo'.listing = undo.listing /\ undo'.rest = undo.rest \ {d}
      /\ Undoing' = Undoing /\ undo.resolved
    BY UndoTargetStep DEF Undoing, UndoTarget
<1>3. /\ \A k \in Slots \ {Undoing} : jobs'[k] = jobs[k]
      /\ jobs'[Undoing].targets = j.targets /\ jobs'[Undoing].result = j.result
    <2>1. PICK e \in Devices \cup {Nothing} : CompensatesAt(d, e)
        BY UndoTargetStep
    <2> QED
        BY <2>1 DEF CompensatesAt
<1>4. /\ Undoing \in Slots /\ Undoing[1] = undo.stage /\ Undoing[2] = undo.job
    BY <1>1, UndoingFacts
<1>5. \A f \in j.targets : j.undone[f] # Nothing \/ f = d => jobs'[Undoing].undone[f] # Nothing
    BY <1>1, UndoneNow
<1>6. \A k \in Slots : \A r : TargetsThat(k, r)' = TargetsThat(k, r)
    BY <1>3 DEF TargetsThat
<1>7. \A k \in Slots : JobUndone(k) => JobUndone(k)'
    <2>1. ASSUME NEW k \in Slots, JobUndone(k), NEW f \in TargetsThat(k, "success")
          PROVE  jobs'[k].undone[f] # Nothing
        BY <1>3, <1>5, <2>1 DEF JobUndone, TargetsThat
    <2> QED
        BY <1>6, <2>1 DEF JobUndone
<1>8. ASSUME NEW s \in Stages, s < stage PROVE RolledBack(s)'
    <2>1. UndoneStays(stage)
        BY <1>7 DEF UndoneStays
    <2>2. (StageFailed(s)' => StageFailed(s)) /\ s <= stage
        BY <1>1, <1>8, StageFailures, PlanFacts DEF Stages, Base, TypeOK
    <2>3. RolledBack(s)
        BY <1>1, <1>8 DEF RollbackSoFar
    <2> QED
        BY <1>1, <2>1, <2>2, <2>3, RolledBackStays
<1>9. ASSUME NEW t \in Stages, undo.stage < t, t <= stage PROVE Undone(t)'
    <2>1. UndoneStays(stage)
        BY <1>7 DEF UndoneStays
    <2> QED
        BY <1>1, <1>9, <2>1, StagesStay DEF RollbackSoFar
<1>10. ASSUME NEW k \in SlotsOf(undo.stage), k[2] < undo.job PROVE JobUndone(k)'
    <2>1. k \in Slots
        BY <1>1, <1>10, UndoingFacts, SlotsOfStage
    <2> QED
        BY <1>1, <1>7, <1>10, <2>1 DEF RollbackSoFar
<1>11. undo'.listing = jobs'[Undoing].targets
    BY <1>1, <1>2, <1>3 DEF RollbackSoFar
<1>12. \A f \in TargetsThat(Undoing, "success") \ undo'.rest : jobs'[Undoing].undone[f] # Nothing
    <2>1. ASSUME NEW f \in TargetsThat(Undoing, "success"), f \notin undo'.rest
          PROVE  jobs'[Undoing].undone[f] # Nothing
        <3>1. f \in j.targets
            BY <2>1 DEF TargetsThat
        <3>2. f = d \/ j.undone[f] # Nothing
            BY <1>1, <1>2, <2>1 DEF RollbackSoFar
        <3> QED
            BY <1>5, <3>1, <3>2
    <2> QED
        BY <2>1
<1>13. TargetsThat(Undoing, "success")' = TargetsThat(Undoing, "success")
    BY <1>2, <1>3 DEF TargetsThat
<1> QED
    BY <1>1, <1>2, <1>8, <1>9, <1>10, <1>11, <1>12, <1>13 DEF RollbackSoFar

LEMMA RollbackEndUndo ==
    ASSUME Base, RollbackSoFar, TargetsAreListed, [Next]_vars, EndUndo
    PROVE  RollbackSoFar'
<1> SUFFICES ASSUME Stable' PROVE RollbackSoFar'
    BY DEF RollbackSoFar
<1>1. /\ UNCHANGED <<plan, jobs>> /\ phase = "compensate" /\ Stable /\ undo.resolved /\ undo.rest = {}
      /\ Stages' = Stages /\ (\A s : SlotsOf(s)' = SlotsOf(s)) /\ (\A s : JobsOf(s)' = JobsOf(s))
    BY StableStep, PlanStays DEF EndUndo
<1>2. /\ stage \in Stages /\ stage \in Nat /\ undo.stage \in Stages /\ undo.stage \in 1..stage
      /\ undo.job \in Nat /\ Undoing = <<undo.stage, undo.job>>
      /\ ~ plan.rollback_completed_stages_on_failure => undo.stage = stage
    BY <1>1, UndoingFacts DEF Undoing, Base, UndoingIsDue
<1>3. \A k : /\ \A r : TargetsThat(k, r)' = TargetsThat(k, r)
             /\ JobFailed(k)' = JobFailed(k) /\ JobUndone(k)' = JobUndone(k)
    BY <1>1 DEF TargetsThat, JobFailed, JobUndone
<1>4. \A s : StageFailed(s)' = StageFailed(s) /\ Undone(s)' = Undone(s)
    BY <1>1, <1>3 DEF StageFailed, Undone
<1>5. \A s : RolledBack(s)' = RolledBack(s)
    BY <1>1, <1>4 DEF RolledBack
<1>6. JobUndone(Undoing)
    BY <1>1 DEF RollbackSoFar, JobUndone
<1>7. ASSUME NEW k \in SlotsOf(undo.stage), k[2] < undo.job + 1 PROVE JobUndone(k)
    <2>1. k = <<undo.stage, k[2]>> /\ k[2] \in Nat
        BY <1>2, <1>7, SlotsOfStage, PlanFacts DEF JobsOf, Base, TypeOK
    <2>2. k[2] < undo.job \/ k[2] = undo.job
        BY <1>2, <1>7, <2>1
    <2>3. CASE k[2] < undo.job
        BY <1>1, <1>7, <2>3 DEF RollbackSoFar
    <2>4. CASE k[2] = undo.job
        BY <1>2, <1>6, <2>1, <2>4
    <2> QED
        BY <2>2, <2>3, <2>4
<1>8. \A s \in Stages : s \in Int
    BY PlanFacts DEF Stages, Base, TypeOK
<1>9. CASE NextUndo = UndoOf(undo.stage, undo.job + 1)
    <2>1. NextUndo # NoUndo
        BY <1>2, <1>9, UndoOfIsNone
    <2>2. UNCHANGED <<stage, phase>> /\ undo' = UndoOf(undo.stage, undo.job + 1)
        BY <1>9, <2>1 DEF EndUndo
    <2>3. undo'.stage = undo.stage /\ undo'.job = undo.job + 1 /\ ~ undo'.resolved
        BY <2>2 DEF UndoOf
    <2>4. SlotsOf(undo.stage)' = SlotsOf(undo.stage)
        BY <1>1, <2>3
    <2> QED
        BY <1>1, <1>3, <1>4, <1>5, <1>7, <2>2, <2>3, <2>4 DEF RollbackSoFar
<1>10. ASSUME undo.job = Len(plan.stages[undo.stage].jobs) PROVE Undone(undo.stage)
    <2>1. ASSUME NEW k \in SlotsOf(undo.stage) PROVE JobUndone(k)
        <3>1. k[2] < undo.job + 1
            BY <1>2, <1>10, <2>1, SlotsOfStage, PlanFacts DEF JobsOf, Base, TypeOK
        <3> QED
            BY <1>7, <3>1
    <2> QED
        BY <2>1, UndoneIs
<1>11. ASSUME undo.job = Len(plan.stages[undo.stage].jobs), NEW t \in Stages, undo.stage <= t, t <= stage
       PROVE  Undone(t)
    <2>1. t = undo.stage \/ undo.stage < t
        BY <1>2, <1>8, <1>11
    <2> QED
        BY <1>1, <1>10, <1>11, <2>1 DEF RollbackSoFar
<1>12. CASE /\ NextUndo = UndoOf(undo.stage - 1, 1) /\ undo.stage - 1 \in Stages
            /\ undo.job = Len(plan.stages[undo.stage].jobs)
    <2>1. undo.stage - 1 \in Nat \ {0}
        BY <1>12, PlanFacts DEF Stages, Base, TypeOK
    <2>2. NextUndo # NoUndo
        BY <1>12, <2>1, UndoOfIsNone
    <2>3. UNCHANGED <<stage, phase>> /\ undo' = UndoOf(undo.stage - 1, 1)
        BY <1>12, <2>2 DEF EndUndo
    <2>4. undo'.stage = undo.stage - 1 /\ undo'.job = 1 /\ ~ undo'.resolved
        BY <2>3 DEF UndoOf
    <2>5. ASSUME NEW k \in SlotsOf(undo.stage - 1) PROVE ~ k[2] < 1
        BY <1>12, <2>5, SlotsOfStage, PlanFacts DEF JobsOf, Base, TypeOK
    <2>6. SlotsOf(undo.stage)' = SlotsOf(undo.stage - 1)
        BY <1>1, <2>4
    <2>7. \A t \in Stages : undo.stage - 1 < t => undo.stage <= t
        BY <1>2, <1>8
    <2> QED
        BY <1>1, <1>4, <1>5, <1>11, <1>12, <2>3, <2>4, <2>5, <2>6, <2>7 DEF RollbackSoFar
<1>13. CASE /\ NextUndo = NoUndo /\ undo.job = Len(plan.stages[undo.stage].jobs)
            /\ plan.rollback_completed_stages_on_failure => undo.stage = 1
    <2>1. phase' = "next" /\ stage' = stage + 1
        BY <1>13 DEF EndUndo
    <2>2. RolledBack(stage)
        <3>1. plan.rollback_on_stage_failure => Undone(stage)
            BY <1>2, <1>11, <1>13
        <3>2. ASSUME plan.rollback_completed_stages_on_failure, NEW t \in 1..stage
              PROVE  Undone(t)
            <4>1. t \in Stages /\ undo.stage <= t /\ t <= stage
                BY <1>2, <1>13, <3>2, PlanFacts DEF Stages, Base, TypeOK
            <4> QED
                BY <1>11, <1>13, <4>1
        <3> QED
            BY <3>1, <3>2 DEF RolledBack
    <2>3. \A s \in Stages : s < stage' => s < stage \/ s = stage
        BY <1>2, <1>8, <2>1
    <2> QED
        BY <1>1, <1>5, <2>1, <2>2, <2>3 DEF RollbackSoFar
<1> QED
    BY <1>1, <1>9, <1>12, <1>13, NextUndoFacts

\* What the theorems about completeness rest on.
Compensation == Base /\ TargetsAreListed /\ RollbackSoFar

LEMMA CompensationInductive == Spec => []Compensation
<1>1. Init => Compensation
    <2> SUFFICES ASSUME Init PROVE Compensation
        OBVIOUS
    <2>1. Base /\ phase = "next" /\ \A s \in Stages : ~ s < stage
        BY BaseInit, PlanFacts DEF Init, Stages
    <2>2. TargetsAreListed
        BY DEF Init, TargetsAreListed, NewJob
    <2> QED
        BY <2>1, <2>2 DEF Compensation, RollbackSoFar
<1>2. Compensation /\ [Next]_vars => Compensation'
    <2> SUFFICES ASSUME Base, TargetsAreListed, RollbackSoFar, [Next]_vars PROVE Compensation'
        BY DEF Compensation
    <2>1. Base' /\ TargetsAreListed'
        BY BaseStep, TargetsAreListedStep
    <2>2. ASSUME UNCHANGED vars PROVE RollbackSoFar'
        BY <2>2, RollbackQuiet DEF vars
    <2>3. ASSUME StartStage \/ Finish \/ Interrupt \/ \E g : Edit(g) PROVE RollbackSoFar'
        BY <2>3, RollbackQuiet DEF StartStage, Finish, Interrupt, Edit
    <2>4. ASSUME Step PROVE RollbackSoFar'
        BY <2>3, <2>4, RollbackSkip, RollbackEndStage, RollbackPool, RollbackResolve,
           RollbackEndUndo, RollbackUndoTarget DEF Step
    <2> QED
        BY <2>1, <2>2, <2>3, <2>4 DEF Next, Compensation
<1> QED
    BY <1>1, <1>2, PTL DEF Spec

\* A plan that ends has compensated, job by job and stage by stage, every target its
\* flags ask for, as long as nobody edits a group it uses.
THEOREM RollbackHolds == Spec => []RollbackIsComplete
<1>1. Compensation => RollbackIsComplete
    <2> SUFFICES ASSUME Compensation, Stable, phase = "done", NEW s \in Stages
                 PROVE  RolledBack(s)
        BY DEF RollbackIsComplete, RolledBack
    <2>1. s < stage
        <3>1. stage \notin Stages /\ stage \in 1..Len(plan.stages) + 1
            BY DEF Compensation, Base, InOrder, TypeOK
        <3> QED
            BY <3>1, PlanFacts DEF Stages, Compensation, Base, TypeOK
    <2> QED
        BY <2>1 DEF Compensation, RollbackSoFar
<1> QED
    BY CompensationInductive, <1>1, PTL

-----------------------------------------------------------------------------
\* What is compensated.

LEMMA ChangeOfUndone ==
    ASSUME Base, NEW k \in Slots, Change(k), NEW d \in jobs'[k].targets,
           jobs'[k].undone[d] # Nothing
    PROVE  /\ d \in jobs[k].targets /\ jobs'[k].result[d] = jobs[k].result[d]
           /\ jobs'[k].undone[d] = jobs[k].undone[d] \/ Compensated(k, d)
<1>1. jobs'[k] # SkippedJob(k)
    BY DEF SkippedJob
<1> QED
    BY <1>1 DEF Change, NextOf

UndoingForFailure == phase = "compensate" => StageFailed(stage)

LEMMA DueStep ==
    ASSUME Base, UndoingForFailure, RollbackIsDue, [Next]_vars
    PROVE  UndoingForFailure' /\ RollbackIsDue'
<1>1. Slots' = Slots /\ Stages' = Stages /\ Compensates' = Compensates /\ UNCHANGED plan
    BY JobStep, PlanStays
<1>2. UndoingForFailure'
    <2> SUFFICES ASSUME phase' = "compensate" PROVE StageFailed(stage)'
        BY DEF UndoingForFailure
    <2>1. UNCHANGED stage /\ phase \in {"stage", "compensate"} /\ StageFailed(stage)
        BY JobStep DEF Course, Ended, UndoingForFailure
    <2>2. \A s \in Stages : s = stage => StageFailed(s)'
        BY <2>1, StageFailures
    <2>3. stage \in Stages
        BY <2>1 DEF Base, InOrder
    <2>4. ASSUME NEW s \in Stages, s = stage PROVE StageFailed(stage)'
        BY <2>1, <2>2, <2>4 DEF StageFailed
    <2> QED
        BY <2>3, <2>4
<1>3. ASSUME NEW k \in Slots, NEW d \in jobs'[k].targets, jobs'[k].undone[d] # Nothing
      PROVE  /\ jobs'[k].result[d] = "success"
             /\ \E s \in Stages :
                /\ StageFailed(s)'
                /\ \/ s = k[1] /\ Compensates
                   \/ s > k[1] /\ plan.rollback_completed_stages_on_failure
    <2>1. /\ d \in jobs[k].targets /\ jobs'[k].result[d] = jobs[k].result[d]
          /\ jobs'[k].undone[d] = jobs[k].undone[d] \/ Compensated(k, d)
        BY <1>3, JobStep, ChangeOfUndone
    <2>2. CASE jobs'[k].undone[d] = jobs[k].undone[d]
        BY <1>3, <2>1, <2>2, StageFailures DEF RollbackIsDue
    <2>3. CASE Compensated(k, d)
        <3>1. /\ phase = "compensate" /\ k[1] = undo.stage /\ jobs[k].result[d] = "success"
              /\ stage \in Stages /\ stage \in Nat /\ undo.stage \in 1..stage
            BY <2>3, UndoingFacts DEF Compensated, TargetsThat
        <3>2. StageFailed(stage) /\ Compensates
              /\ (~ plan.rollback_completed_stages_on_failure => undo.stage = stage)
            BY <3>1 DEF UndoingForFailure, Base, UndoingIsDue
        <3>3. undo.stage = stage \/ stage > undo.stage
            BY <3>1
        <3> QED
            BY <2>1, <3>1, <3>2, <3>3, StageFailures
    <2> QED
        BY <2>1, <2>2, <2>3
<1> QED
    BY <1>1, <1>2, <1>3 DEF RollbackIsDue

\* Two targets with the same number of targets up to them are the same.
LEMMA RankIsPosition ==
    ASSUME NEW S \in SUBSET Devices, NEW d \in S, NEW e \in S, Rank(S, d) = Rank(S, e)
    PROVE  d = e
<1>1. IsFiniteSet(S) /\ S \subseteq Nat
    BY OrchestrationAssumption, FS_Subset
<1>2. ASSUME NEW x \in S, NEW y \in S, x < y, Rank(S, x) = Rank(S, y) PROVE FALSE
    <2> DEFINE X == {z \in S : z <= x}
               Y == {z \in S : z <= y}
    <2>1. X \in SUBSET Y /\ Y \in SUBSET S /\ y \in Y /\ y \notin X
        <3>1. x \in Int /\ y \in Int /\ \A z \in S : z \in Int
            BY <1>1
        <3>2. \A z \in S : z <= x => z <= y
            BY <1>2, <3>1
        <3>3. y <= y /\ ~ (y <= x)
            BY <1>2, <3>1
        <3> QED
            BY <3>2, <3>3
    <2>2. Cardinality(X) = Cardinality(Y)
        BY <1>2 DEF Rank
    <2> HIDE DEF X, Y
    <2>3. IsFiniteSet(Y)
        BY <1>1, <2>1, FS_Subset
    <2> QED
        BY <2>1, <2>2, <2>3, FS_Subset
<1>3. d < e \/ e < d \/ d = e
    BY <1>1
<1> QED
    BY <1>2, <1>3

LEMMA ReachesStep ==
    ASSUME Base, TargetsAreListed, RollbackSoFar, Stable => RollbackReachesItsTarget, [Next]_vars,
           Stable'
    PROVE  RollbackReachesItsTarget'
<1>1. Slots' = Slots /\ Stable
    BY JobStep, PlanStays, StableStep
<1>2. ASSUME NEW k \in Slots, NEW d \in jobs'[k].targets, jobs'[k].undone[d] # Nothing
      PROVE  jobs'[k].undone[d] = d
    <2>1. d \in jobs[k].targets /\ (jobs'[k].undone[d] = jobs[k].undone[d] \/ Compensated(k, d))
        BY <1>2, JobStep, ChangeOfUndone
    <2>2. CASE jobs'[k].undone[d] = jobs[k].undone[d]
        BY <1>1, <1>2, <2>1, <2>2 DEF RollbackReachesItsTarget
    <2>3. CASE Compensated(k, d)
        <3>1. undo.listing = jobs[k].targets /\ jobs[k].targets \in SUBSET Devices
            BY <1>1, <2>3 DEF RollbackSoFar, Compensated, Base, TypeOK
        <3> QED
            BY <2>1, <2>3, <3>1, RankIsPosition DEF Compensated
    <2> QED
        BY <2>1, <2>2, <2>3
<1> QED
    BY <1>1, <1>2 DEF RollbackReachesItsTarget

\* Compensation as far as it is justified by a failure.
Due == Base /\ UndoingForFailure /\ RollbackIsDue

\* Only what succeeded is compensated, and only for a failure in its stage, or in a
\* later one if the plan says so: no retry, skip or edit undoes anything else.
THEOREM DueHolds == Spec => []RollbackIsDue
<1>1. Init => Due
    <2> SUFFICES ASSUME Init PROVE Due
        OBVIOUS
    <2>1. Base /\ phase = "next" /\ \A k \in Slots : jobs[k].targets = {}
        BY BaseInit DEF Init, NewJob
    <2> QED
        BY <2>1 DEF Due, UndoingForFailure, RollbackIsDue
<1>2. Due /\ [Next]_vars => Due'
    BY BaseStep, DueStep DEF Due
<1>3. Due => RollbackIsDue
    BY DEF Due
<1> QED
    BY <1>1, <1>2, <1>3, PTL DEF Spec

\* Without an edit, a compensation reaches the target that had succeeded.
StableRollbackReaches == Stable => RollbackReachesItsTarget

\* As long as nobody edits a group it uses, the connection that is compensated for a
\* target is the target: the position in the listing is its own.
THEOREM StableReachesHolds == Spec => []StableRollbackReaches
<1>1. Init => StableRollbackReaches
    BY DEF Init, NewJob, StableRollbackReaches, RollbackReachesItsTarget
<1>2. Compensation /\ StableRollbackReaches /\ [Next]_vars => StableRollbackReaches'
    BY ReachesStep DEF Compensation, StableRollbackReaches
<1> QED
    BY <1>1, <1>2, CompensationInductive, PTL DEF Spec

-----------------------------------------------------------------------------
\* The pools bound the damage.

LEMMA WidthIsNat ==
    ASSUME plan \in Plans
    PROVE  /\ \A k \in Slots : \A n \in Nat : Width(JobAt(k), n) \in Nat
           /\ \A s \in Stages : \A n \in Nat : Width(plan.stages[s], n) \in Nat
<1>1. ASSUME NEW u, u.max_parallel \in Limits, NEW n \in Nat PROVE Width(u, n) \in Nat
    BY <1>1 DEF Width, Limits
<1>2. ASSUME NEW k \in Slots PROVE JobAt(k).max_parallel \in Limits
    BY JobFacts DEF Job
<1>3. ASSUME NEW s \in Stages PROVE plan.stages[s].max_parallel \in Limits
    BY PlanFacts DEF Stage
<1> QED
    BY <1>1, <1>2, <1>3

LEMMA TargetsAreFinite ==
    ASSUME TypeOK, NEW k \in Slots
    PROVE  /\ IsFiniteSet(jobs[k].targets) /\ Cardinality(jobs[k].targets) \in Nat
           /\ Unjoined(k) \subseteq jobs[k].targets /\ AtRisk(k) \subseteq jobs[k].targets
           /\ IsFiniteSet(Unjoined(k)) /\ IsFiniteSet(AtRisk(k))
           /\ Cardinality(Unjoined(k)) \in Nat /\ Cardinality(AtRisk(k)) \in Nat
<1>1. IsFiniteSet(jobs[k].targets)
    BY OrchestrationAssumption, FS_Subset DEF TypeOK
<1>2. Unjoined(k) \subseteq jobs[k].targets /\ AtRisk(k) \subseteq jobs[k].targets
    BY DEF Unjoined, AtRisk, TargetsThat
<1> QED
    BY <1>1, <1>2, FS_Subset, FS_CardinalityType

\* Nothing is started in a pool that fails fast once a failure has been joined, so
\* what failed is still in the pool then.
LEMMA AtRiskStep ==
    ASSUME Base, NEW k \in Slots, Pool(k), JobAt(k).fail_fast, DOMAIN jobs' = Slots,
           Cardinality(AtRisk(k)) <= Width(JobAt(k), Cardinality(jobs[k].targets)),
           Typed(jobs'[k])
    PROVE  Cardinality(AtRisk(k)') <= Width(JobAt(k), Cardinality(jobs'[k].targets))
<1> DEFINE j == jobs[k]
           new == jobs'[k]
<1>1. /\ TypeOK /\ DOMAIN jobs = Slots
      /\ \A n \in Nat : Width(JobAt(k), n) \in Nat
      /\ IsFiniteSet(AtRisk(k)) /\ IsFiniteSet(Unjoined(k))
      /\ Cardinality(Unjoined(k)) \in Nat /\ Cardinality(AtRisk(k)) \in Nat
      /\ Cardinality(j.targets) \in Nat
    BY WidthIsNat, TargetsAreFinite DEF Base, TypeOK
<1>2. ASSUME new.targets = j.targets, AtRisk(k)' \subseteq AtRisk(k)
      PROVE  Cardinality(AtRisk(k)') <= Width(JobAt(k), Cardinality(new.targets))
    <2>1. Cardinality(AtRisk(k)') \in Nat /\ Cardinality(AtRisk(k)') <= Cardinality(AtRisk(k))
        BY <1>1, <1>2, FS_Subset, FS_CardinalityType
    <2> QED
        BY <1>1, <1>2, <2>1
<1>3. CASE StartJob(k)
    <2>1. AtRisk(k)' = {} /\ new.targets \in SUBSET Devices
        <3>1. jobs' = [jobs EXCEPT ![k] =
                IF Unknown(k) THEN [NewJob EXCEPT !.at = "broken"]
                ELSE [at |-> "running", targets |-> Selected(k),
                      result |-> [d \in Selected(k) |-> "pending"], joined |-> {},
                      undone |-> [d \in Selected(k) |-> Nothing]]]
            BY <1>3 DEF StartJob
        <3>2. \A d \in new.targets : new.result[d] = "pending"
            BY <1>1, <3>1 DEF NewJob
        <3> QED
            BY <3>2 DEF AtRisk, Unjoined, TargetsThat, Typed
    <2>2. Cardinality(new.targets) \in Nat
        BY <2>1, OrchestrationAssumption, FS_Subset, FS_CardinalityType
    <2>3. Cardinality(AtRisk(k)') = 0
        BY <2>1, FS_EmptySet
    <2> QED
        BY <1>1, <2>2, <2>3
<1>4. CASE JoinJob(k)
    <2>1. new.targets = j.targets /\ new.result = j.result /\ new.joined = j.joined
        <3>1. CASE UNCHANGED jobs
            BY <3>1
        <3>2. CASE k \in JobsIn("ended") /\ jobs' = [jobs EXCEPT ![k] = [j EXCEPT !.at = "joined"]]
            <4>1. j = [at |-> j.at, targets |-> j.targets, result |-> j.result,
                       joined |-> j.joined, undone |-> j.undone]
                BY <1>1, <3>2, TypeSplits, OverFacts DEF JobsTyped, JobsIn
            <4>2. [j EXCEPT !.at = "joined"] =
                    [at |-> "joined", targets |-> j.targets, result |-> j.result,
                     joined |-> j.joined, undone |-> j.undone]
                BY <4>1
            <4> QED
                BY <1>1, <3>2, <4>2
        <3> QED
            BY <1>4, <3>1, <3>2 DEF JoinJob
    <2>2. AtRisk(k)' = AtRisk(k)
        BY <2>1 DEF AtRisk, Unjoined, TargetsThat
    <2> QED
        BY <1>2, <2>1, <2>2
<1>5. ASSUME k \in JobsIn("running")
      PROVE  /\ j = [at |-> "running", targets |-> j.targets, result |-> j.result,
                     joined |-> j.joined, undone |-> j.undone]
             /\ j.result \in [j.targets -> Results]
    BY <1>1, <1>5, TypeSplits, RunningFacts DEF JobsTyped, JobsIn
<1>6. CASE EndJob(k)
    <2> DEFINE result == [d \in j.targets |-> IF j.result[d] = "pending" THEN "skipped" ELSE j.result[d]]
               over == [j EXCEPT !.at = "ended"]
    <2>1. jobs' = [jobs EXCEPT ![k] = [over EXCEPT !.result = result]]
        BY <1>6 DEF EndJob
    <2> HIDE DEF result
    <2>2. over = [at |-> "ended", targets |-> j.targets, result |-> j.result,
                  joined |-> j.joined, undone |-> j.undone]
        BY <1>5, <1>6 DEF EndJob
    <2> HIDE DEF over
    <2>3. new.targets = j.targets /\ new.result = result /\ new.joined = j.joined
        BY <1>1, <2>1, <2>2
    <2>4. AtRisk(k)' \subseteq AtRisk(k)
        BY <2>3 DEF AtRisk, Unjoined, TargetsThat, result
    <2> QED
        BY <1>2, <2>3, <2>4
<1>7. ASSUME NEW d, NEW r \in {"running", "success", "failed"}, k \in JobsIn("running"), d \in j.targets, jobs' = [jobs EXCEPT ![k].result[d] = r]
      PROVE  /\ new.targets = j.targets /\ new.joined = j.joined
             /\ \A e \in j.targets : (e = d => new.result[e] = r) /\ (e # d => new.result[e] = j.result[e])
    <2> DEFINE result == [j.result EXCEPT ![d] = r]
    <2>1. jobs' = [jobs EXCEPT ![k] = [j EXCEPT !.result = result]]
        BY <1>7
    <2>2. \A e \in j.targets : (e = d => result[e] = r) /\ (e # d => result[e] = j.result[e])
        BY <1>5, <1>7
    <2> HIDE DEF result
    <2>3. [j EXCEPT !.result = result] =
            [at |-> "running", targets |-> j.targets, result |-> result,
             joined |-> j.joined, undone |-> j.undone]
        BY <1>5, <1>7
    <2>4. new = [at |-> "running", targets |-> j.targets, result |-> result,
                 joined |-> j.joined, undone |-> j.undone]
        BY <1>1, <2>1, <2>3
    <2>5. new.targets = j.targets /\ new.joined = j.joined /\ new.result = result
        BY <2>4
    <2> QED
        BY <2>2, <2>5
<1>8. ASSUME NEW d, StartTarget(k, d)
      PROVE  Cardinality(AtRisk(k)') <= Width(JobAt(k), Cardinality(new.targets))
    <2>1. /\ new.targets = j.targets /\ new.joined = j.joined
          /\ \A e \in j.targets : (e = d => new.result[e] = "running") /\ (e # d => new.result[e] = j.result[e])
        <3>1. /\ k \in JobsIn("running") /\ d \in j.targets
              /\ jobs' = [jobs EXCEPT ![k].result[d] = "running"]
            BY <1>8 DEF StartTarget, TargetsThat
        <3> QED
            BY <1>7, <3>1
    <2>2. /\ Cardinality(Unjoined(k)) < Width(JobAt(k), Cardinality(j.targets))
          /\ \A e \in j.joined : j.result[e] # "failed"
        BY <1>8 DEF StartTarget, RoomForTargets, JobStops
    <2>3. AtRisk(k)' \subseteq Unjoined(k) \cup {d}
        BY <2>1, <2>2 DEF AtRisk, Unjoined, TargetsThat
    <2>4. /\ IsFiniteSet(Unjoined(k) \cup {d})
          /\ Cardinality(Unjoined(k) \cup {d}) <= Cardinality(Unjoined(k)) + 1
          /\ Cardinality(Unjoined(k) \cup {d}) \in Nat
        <3>1. /\ IsFiniteSet(Unjoined(k) \cup {d})
              /\ \/ Cardinality(Unjoined(k) \cup {d}) = Cardinality(Unjoined(k))
                 \/ Cardinality(Unjoined(k) \cup {d}) = Cardinality(Unjoined(k)) + 1
            BY <1>1, FS_AddElement
        <3> QED
            BY <1>1, <3>1
    <2>5. /\ Cardinality(AtRisk(k)') <= Cardinality(Unjoined(k) \cup {d})
          /\ Cardinality(AtRisk(k)') \in Nat
        BY <2>3, <2>4, FS_Subset, FS_CardinalityType
    <2> QED
        BY <1>1, <2>1, <2>2, <2>4, <2>5
<1>9. ASSUME NEW d, EndTarget(k, d)
      PROVE  Cardinality(AtRisk(k)') <= Width(JobAt(k), Cardinality(new.targets))
    <2>1. \/ jobs' = [jobs EXCEPT ![k].result[d] = "success"]
          \/ jobs' = [jobs EXCEPT ![k].result[d] = "failed"]
        BY <1>9 DEF EndTarget
    <2>2. d \in j.targets /\ j.result[d] = "running" /\ k \in JobsIn("running")
        BY <1>9 DEF EndTarget, TargetsThat
    <2>3. /\ new.targets = j.targets /\ new.joined = j.joined
          /\ \A e \in j.targets : e # d => new.result[e] = j.result[e]
        <3>1. CASE jobs' = [jobs EXCEPT ![k].result[d] = "success"]
            BY <1>7, <2>2, <3>1
        <3>2. CASE jobs' = [jobs EXCEPT ![k].result[d] = "failed"]
            BY <1>7, <2>2, <3>2
        <3> QED
            BY <2>1, <3>1, <3>2
    <2>4. d \notin j.joined
        BY <1>5, <2>2, SlotFacts DEF Base, JoinedAreOver, JobsIn
    <2>5. AtRisk(k)' \subseteq AtRisk(k)
        BY <2>2, <2>3, <2>4 DEF AtRisk, Unjoined, TargetsThat
    <2> QED
        BY <1>2, <2>3, <2>5
<1>10. ASSUME NEW d, JoinTarget(k, d)
       PROVE  Cardinality(AtRisk(k)') <= Width(JobAt(k), Cardinality(new.targets))
    <2>1. jobs' = [jobs EXCEPT ![k] = [j EXCEPT !.joined = j.joined \cup {d}]] /\ k \in JobsIn("running")
        BY <1>10 DEF JoinTarget
    <2>2. [j EXCEPT !.joined = j.joined \cup {d}] =
            [at |-> "running", targets |-> j.targets, result |-> j.result,
             joined |-> j.joined \cup {d}, undone |-> j.undone]
        BY <1>5, <2>1
    <2>3. new.targets = j.targets /\ new.result = j.result /\ new.joined = j.joined \cup {d}
        BY <1>1, <2>1, <2>2
    <2>4. AtRisk(k)' \subseteq AtRisk(k)
        BY <2>3 DEF AtRisk, Unjoined, TargetsThat
    <2> QED
        BY <1>2, <2>3, <2>4
<1> QED
    BY <1>3, <1>4, <1>6, <1>8, <1>9, <1>10 DEF Pool

LEMMA TargetsFitStep ==
    ASSUME Base, TargetsFit, [Next]_vars
    PROVE  TargetsFit'
<1>1. Slots' = Slots /\ (\A k : JobAt(k)' = JobAt(k)) /\ Base'
    BY JobStep, PlanStays, BaseStep
<1>2. ASSUME NEW k \in Slots, JobAt(k).fail_fast
      PROVE  Cardinality(AtRisk(k)') <= Width(JobAt(k), Cardinality(jobs'[k].targets))
    <2>1. Change(k)
        BY JobStep
    <2>2. CASE /\ jobs'[k].targets = jobs[k].targets /\ jobs'[k].result = jobs[k].result
               /\ jobs'[k].joined = jobs[k].joined
        <3>1. AtRisk(k)' = AtRisk(k)
            BY <2>2 DEF AtRisk, Unjoined, TargetsThat
        <3> QED
            BY <1>2, <2>2, <3>1 DEF TargetsFit
    <2>3. CASE jobs'[k] = SkippedJob(k)
        <3>1. AtRisk(k)' = {}
            BY <2>3, SkippedFacts DEF AtRisk, Unjoined, TargetsThat
        <3>2. jobs'[k].targets \in SUBSET Devices
            BY <1>1 DEF Base, TypeOK
        <3>3. Cardinality(jobs'[k].targets) \in Nat
            BY <3>2, OrchestrationAssumption, FS_Subset, FS_CardinalityType
        <3>4. Cardinality(AtRisk(k)') = 0 /\ Width(JobAt(k), Cardinality(jobs'[k].targets)) \in Nat
            BY <3>1, <3>3, FS_EmptySet, WidthIsNat DEF Base, TypeOK
        <3> QED
            BY <3>4
    <2>4. CASE Pool(k) /\ NextOf(k, jobs'[k])
        <3>1. Typed(jobs'[k]) /\ DOMAIN jobs' = Slots
            BY <1>1, <2>4 DEF NextOf, Base, TypeOK
        <3> QED
            BY <1>2, <2>4, <3>1, AtRiskStep DEF TargetsFit
    <2> QED
        BY <2>1, <2>2, <2>3, <2>4 DEF Change
<1> QED
    BY <1>1, <1>2 DEF TargetsFit, Width

LEMMA JobsAreFinite ==
    ASSUME plan \in Plans, NEW s \in Stages
    PROVE  IsFiniteSet(SlotsOf(s)) /\ Len(plan.stages[s].jobs) \in Nat
<1>1. Len(plan.stages[s].jobs) \in Nat
    BY PlanFacts
<1>2. IsFiniteSet(JobsOf(s))
    BY <1>1, FS_Interval DEF JobsOf
<1>3. IsFiniteSet({s})
    BY FS_Singleton
<1> QED
    BY <1>1, <1>2, <1>3, FS_Product DEF SlotsOf

\* Jobs that are started find room: those before them that failed are not joined yet.
LEMMA StartJobAtRisk ==
    ASSUME Base, NEW l \in Slots, StartJob(l), plan.stages[stage].fail_fast,
           UNCHANGED plan, \A k \in Slots : k # l => jobs'[k] = jobs[k],
           NEW k \in SlotsOf(stage), k \in Slots,
           jobs'[k].at \in {"running", "broken", "ended"} \/ JobFailed(k)'
    PROVE  k \in UnjoinedJobs \cup {l}
<1> SUFFICES ASSUME k # l PROVE k \in UnjoinedJobs
    OBVIOUS
<1>1. jobs'[k] = jobs[k] /\ (JobFailed(k)' => JobFailed(k))
    BY DEF JobFailed, TargetsThat
<1>2. jobs[k].at # "skipped"
    BY SlotFacts DEF StartJob, Base, InOrder, SlotsOf
<1>3. JobFailed(k) => jobs[k].at # "pending"
    BY IdleFacts, TypeSplits DEF Base, JobsTyped, JobFailed, TargetsThat
<1>4. JobFailed(k) => jobs[k].at # "joined"
    BY DEF StartJob, RoomForJobs, StageStops, JobsIn
<1>5. jobs[k].at \in {"pending", "running", "broken", "ended", "joined", "skipped"}
    BY TypeSplits DEF Base, JobsTyped, Typed, JobState
<1> QED
    BY <1>1, <1>2, <1>3, <1>4, <1>5 DEF UnjoinedJobs, JobsIn

LEMMA JobsFitStep ==
    ASSUME Base, JobsFit, [Next]_vars
    PROVE  JobsFit'
<1>1. /\ UNCHANGED plan /\ Slots' = Slots /\ Stages' = Stages /\ TypeOK
      /\ \A s : SlotsOf(s)' = SlotsOf(s)
    BY JobStep, PlanStays DEF Base
<1>2. ASSUME NEW s \in Stages, plan.stages[s].fail_fast
      PROVE  Cardinality(JobsAtRisk(s)') <= Width(plan.stages[s], Len(plan.stages[s].jobs))
    <2>1. /\ IsFiniteSet(JobsAtRisk(s)) /\ Cardinality(JobsAtRisk(s)) \in Nat
          /\ IsFiniteSet(JobsAtRisk(s)') /\ Cardinality(JobsAtRisk(s)') \in Nat
          /\ Width(plan.stages[s], Len(plan.stages[s].jobs)) \in Nat
        <3>1. JobsAtRisk(s) \subseteq SlotsOf(s) /\ JobsAtRisk(s)' \subseteq SlotsOf(s)
            BY <1>1 DEF JobsAtRisk
        <3> QED
            BY <1>1, <3>1, JobsAreFinite, WidthIsNat, FS_Subset, FS_CardinalityType DEF TypeOK
    <2>2. CASE \E l \in SlotsOf(s) : StartJob(l)
        <3>1. PICK l \in SlotsOf(s) : StartJob(l)
            BY <2>2
        <3>2. l \in Slots /\ l[1] = s /\ l[1] = stage
            BY <3>1, SlotsOfStage DEF StartJob, JobsIn, SlotsOf
        <3>3. \A k \in Slots : k # l => jobs'[k] = jobs[k]
            BY <3>1, <1>1 DEF StartJob, TypeOK
        <3>4. JobsAtRisk(s)' \subseteq UnjoinedJobs \cup {l}
            <4>1. ASSUME NEW k \in SlotsOf(s),
                         jobs'[k].at \in {"running", "broken", "ended"} \/ JobFailed(k)'
                  PROVE  k \in UnjoinedJobs \cup {l}
                <5>1. k \in Slots /\ k \in SlotsOf(stage) /\ plan.stages[stage].fail_fast
                    BY <1>2, <3>2, <4>1, SlotsOfStage
                <5> QED
                    BY <1>1, <3>1, <3>2, <3>3, <4>1, <5>1, StartJobAtRisk
            <4> QED
                BY <1>1, <4>1 DEF JobsAtRisk
        <3>5. UnjoinedJobs \subseteq SlotsOf(s) /\ IsFiniteSet(SlotsOf(s))
            BY <1>1, <3>2, JobsAreFinite DEF UnjoinedJobs, JobsIn, TypeOK
        <3>6. IsFiniteSet(UnjoinedJobs) /\ Cardinality(UnjoinedJobs) \in Nat
            BY <3>5, FS_Subset, FS_CardinalityType
        <3>7. /\ IsFiniteSet(UnjoinedJobs \cup {l})
              /\ \/ Cardinality(UnjoinedJobs \cup {l}) = Cardinality(UnjoinedJobs)
                 \/ Cardinality(UnjoinedJobs \cup {l}) = Cardinality(UnjoinedJobs) + 1
            BY <3>6, FS_AddElement
        <3>8. Cardinality(JobsAtRisk(s)') <= Cardinality(UnjoinedJobs \cup {l})
            BY <3>4, <3>7, FS_Subset
        <3>9. Cardinality(UnjoinedJobs) < Width(plan.stages[s], Len(plan.stages[s].jobs))
            BY <3>1, <3>2 DEF StartJob, RoomForJobs
        <3> QED
            BY <2>1, <3>6, <3>7, <3>8, <3>9
    <2>3. CASE ~ \E l \in SlotsOf(s) : StartJob(l)
        <3>1. ASSUME NEW k \in SlotsOf(s), k \notin JobsAtRisk(s)
              PROVE  k \notin JobsAtRisk(s)'
            <4>1. k \in Slots /\ Change(k) /\ jobs[k].at \notin {"running", "broken", "ended"}
                  /\ ~ JobFailed(k)
                BY <3>1, SlotsOfStage, JobStep DEF JobsAtRisk
            <4>2. CASE jobs'[k].at = jobs[k].at /\ jobs'[k].targets = jobs[k].targets
                       /\ jobs'[k].result = jobs[k].result
                BY <4>1, <4>2, SameFacts DEF JobsAtRisk
            <4>3. CASE jobs'[k] = SkippedJob(k)
                BY <4>3, SkippedFacts, SkippedJobFacts DEF JobsAtRisk
            <4>4. CASE Pool(k)
                BY <2>3, <3>1, <4>1, <4>4 DEF Pool, EndJob, JoinJob, StartTarget, EndTarget, JoinTarget, JobsIn
            <4> QED
                BY <4>1, <4>2, <4>3, <4>4 DEF Change
        <3>2. JobsAtRisk(s)' \subseteq JobsAtRisk(s)
            BY <1>1, <3>1 DEF JobsAtRisk
        <3>3. Cardinality(JobsAtRisk(s)') <= Cardinality(JobsAtRisk(s))
            BY <2>1, <3>2, FS_Subset
        <3> QED
            BY <1>2, <2>1, <3>3 DEF JobsFit
    <2> QED
        BY <2>2, <2>3
<1> QED
    BY <1>1, <1>2 DEF JobsFit, Width

\* What is at risk in the pools, beside the course of the plan.
Bounded == Base /\ TargetsFit /\ JobsFit

\* In a job or stage that fails fast no more can fail than its pool takes at once,
\* whatever its width and the order in which its tasks end.
THEOREM FailuresBounded == Spec => []FailuresAreBounded
<1>1. Init => Bounded
    <2> SUFFICES ASSUME Init PROVE Bounded
        OBVIOUS
    <2>1. Base /\ \A k \in Slots : jobs[k] = NewJob
        BY BaseInit DEF Init
    <2>2. TargetsFit
        <3>1. ASSUME NEW k \in Slots
              PROVE  Cardinality(AtRisk(k)) <= Width(JobAt(k), Cardinality(jobs[k].targets))
            <4>1. AtRisk(k) = {}
                BY <2>1, NewJobFacts DEF AtRisk, Unjoined
            <4>2. Cardinality(AtRisk(k)) = 0
                BY <4>1, FS_EmptySet
            <4>3. Width(JobAt(k), Cardinality(jobs[k].targets)) \in Nat
                BY <2>1, WidthIsNat, TargetsAreFinite DEF Base, TypeOK
            <4> QED
                BY <4>2, <4>3
        <3> QED
            BY <3>1 DEF TargetsFit
    <2>3. JobsFit
        <3>1. ASSUME NEW s \in Stages
              PROVE  Cardinality(JobsAtRisk(s)) <= Width(plan.stages[s], Len(plan.stages[s].jobs))
            <4>1. JobsAtRisk(s) = {}
                BY <2>1, SlotsOfStage, NewJobFacts DEF JobsAtRisk, NewJob
            <4>2. Cardinality(JobsAtRisk(s)) = 0
                BY <4>1, FS_EmptySet
            <4>3. Width(plan.stages[s], Len(plan.stages[s].jobs)) \in Nat
                BY <2>1, WidthIsNat, JobsAreFinite DEF Base, TypeOK
            <4> QED
                BY <4>2, <4>3
        <3> QED
            BY <3>1 DEF JobsFit
    <2> QED
        BY <2>1, <2>2, <2>3 DEF Bounded
<1>2. Bounded /\ [Next]_vars => Bounded'
    BY BaseStep, TargetsFitStep, JobsFitStep DEF Bounded
<1>3. Bounded => FailuresAreBounded
    <2> SUFFICES ASSUME Bounded PROVE FailuresAreBounded
        OBVIOUS
    <2>1. plan \in Plans /\ TypeOK
        BY DEF Bounded, Base, TypeOK
    <2>2. ASSUME NEW k \in Slots, JobAt(k).fail_fast
          PROVE  Cardinality(TargetsThat(k, "failed")) <= Width(JobAt(k), Cardinality(jobs[k].targets))
        <3>1. TargetsThat(k, "failed") \subseteq AtRisk(k)
            BY DEF AtRisk
        <3>2. /\ Cardinality(TargetsThat(k, "failed")) \in Nat
              /\ Cardinality(TargetsThat(k, "failed")) <= Cardinality(AtRisk(k))
            BY <2>1, <3>1, TargetsAreFinite, FS_Subset, FS_CardinalityType
        <3>3. /\ Cardinality(AtRisk(k)) \in Nat
              /\ Width(JobAt(k), Cardinality(jobs[k].targets)) \in Nat
            BY <2>1, TargetsAreFinite, WidthIsNat
        <3> QED
            BY <2>2, <3>2, <3>3 DEF Bounded, TargetsFit
    <2>3. ASSUME NEW s \in Stages, plan.stages[s].fail_fast
          PROVE  Cardinality({k \in SlotsOf(s) : JobFailed(k)})
                    <= Width(plan.stages[s], Len(plan.stages[s].jobs))
        <3> DEFINE F == {k \in SlotsOf(s) : JobFailed(k)}
        <3>1. F \subseteq JobsAtRisk(s) /\ JobsAtRisk(s) \subseteq SlotsOf(s)
            BY DEF JobsAtRisk
        <3> HIDE DEF F
        <3>2. IsFiniteSet(JobsAtRisk(s)) /\ Cardinality(JobsAtRisk(s)) \in Nat
            BY <2>1, <3>1, JobsAreFinite, FS_Subset, FS_CardinalityType
        <3>3. Cardinality(F) \in Nat /\ Cardinality(F) <= Cardinality(JobsAtRisk(s))
            BY <3>1, <3>2, FS_Subset, FS_CardinalityType
        <3>4. Width(plan.stages[s], Len(plan.stages[s].jobs)) \in Nat
            BY <2>1, WidthIsNat, JobsAreFinite
        <3> QED
            BY <2>3, <3>2, <3>3, <3>4 DEF Bounded, JobsFit, F
    <2> QED
        BY <2>2, <2>3 DEF FailuresAreBounded
<1> QED
    BY <1>1, <1>2, <1>3, PTL DEF Spec

-----------------------------------------------------------------------------
(***************************************************************************)
(* Refinement: Orchestration implements Saga.  The invariants it needs are *)
(* the order of the stages, what a failure has led to, and what has been   *)
(* compensated so far.                                                     *)
(***************************************************************************)

\* The flag is set only by a plan that its failures end.
FailedEnds == failed => EndsPlan

\* What is known of a state when a step of it is mapped to a step of the saga.
Known == Failures /\ Compensation /\ Due /\ FailedEnds

LEMMA KnownHolds == Spec => []Known
<1>1. Init => FailedEnds
    BY DEF Init, FailedEnds
<1>2. Failures /\ FailedEnds /\ [Next]_vars => FailedEnds'
    <2> SUFFICES ASSUME Failures, FailedEnds, [Next]_vars, failed' PROVE EndsPlan'
        BY DEF FailedEnds
    <2>1. EndsPlan' = EndsPlan /\ Course
        BY JobStep, PlanStays DEF Failures
    <2> QED
        BY <2>1 DEF Course, FailedEnds
<1>3. Init => Due
    <2> SUFFICES ASSUME Init PROVE Due
        OBVIOUS
    <2>1. Base /\ phase = "next" /\ \A k \in Slots : jobs[k].targets = {}
        BY BaseInit DEF Init, NewJob
    <2> QED
        BY <2>1 DEF Due, UndoingForFailure, RollbackIsDue
<1>4. Due /\ [Next]_vars => Due'
    BY BaseStep, DueStep DEF Due
<1> QED
    BY <1>1, <1>2, <1>3, <1>4, FailuresInductive, CompensationInductive, PTL DEF Spec, Known

-----------------------------------------------------------------------------
\* The state of the saga.

LEMMA TasksAre ==
    ASSUME Base
    PROVE  /\ DOMAIN jobs = Slots /\ Begun \subseteq Slots
           /\ AsSaga!Chosen = Begun /\ DOMAIN Tasks = Begun
           /\ \A k \in Begun :
                /\ Tasks[k] = FatesOf(jobs[k]) /\ DOMAIN Tasks[k] = jobs[k].targets
                /\ \A d \in jobs[k].targets :
                    Tasks[k][d] = IF jobs[k].undone[d] # Nothing THEN "undone" ELSE jobs[k].result[d]
    BY DEF Base, TypeOK, AsSaga!Chosen, Begun, Tasks, FatesOf

\* The saga sees a target that is undone as undone, and others as their result.
LEMMA HasIs ==
    ASSUME Base, RollbackIsDue, NEW k \in Begun
    PROVE  /\ \A fate \in {"pending", "running", "failed"} :
                AsSaga!Has(k, fate) <=> TargetsThat(k, fate) # {}
           /\ JobUndone(k) => ~ AsSaga!Has(k, "success")
<1>1. /\ k \in Slots /\ DOMAIN Tasks[k] = jobs[k].targets
      /\ \A d \in jobs[k].targets :
            Tasks[k][d] = IF jobs[k].undone[d] # Nothing THEN "undone" ELSE jobs[k].result[d]
    BY TasksAre
<1>2. \A d \in jobs[k].targets : jobs[k].undone[d] # Nothing => jobs[k].result[d] = "success"
    BY <1>1 DEF RollbackIsDue
<1>3. ASSUME NEW fate \in {"pending", "running", "failed"}, NEW d \in jobs[k].targets
      PROVE  Tasks[k][d] = fate <=> jobs[k].result[d] = fate
    <2>1. fate # "undone" /\ fate # "success"
        BY <1>3
    <2> QED
        BY <1>1, <1>2, <2>1
<1>4. ASSUME JobUndone(k), NEW d \in jobs[k].targets PROVE Tasks[k][d] # "success"
    BY <1>1, <1>4 DEF JobUndone, TargetsThat
<1> QED
    BY <1>1, <1>3, <1>4 DEF AsSaga!Has, TargetsThat

LEMMA FailedIs ==
    ASSUME Base, RollbackIsDue, NEW k \in Slots
    PROVE  AsSaga!Failed(k) <=> JobFailed(k)
<1>1. CASE k \in Begun
    BY <1>1, HasIs, TasksAre DEF AsSaga!Failed, JobFailed
<1>2. CASE k \notin Begun
    <2>1. jobs[k].at \in {"pending", "broken"} /\ Typed(jobs[k])
        BY <1>2, TypeSplits, TasksAre DEF Begun, Base, JobsTyped
    <2>2. jobs[k].targets = {}
        BY <2>1, IdleFacts
    <2> QED
        BY <1>2, <2>2, TasksAre DEF AsSaga!Failed, JobFailed, TargetsThat
<1> QED
    BY <1>1, <1>2

LEMMA SettledIs ==
    ASSUME Base, RollbackIsDue, NEW k \in Slots, jobs[k].at \in Settled
    PROVE  AsSaga!Settled(k)
<1>1. k \in Begun /\ Typed(jobs[k])
    BY TypeSplits, TasksAre DEF Begun, Base, JobsTyped, Settled
<1>2. jobs[k].result \in [jobs[k].targets -> {"success", "failed", "skipped"}]
    BY <1>1, OverFacts DEF Settled
<1>3. TargetsThat(k, "pending") = {} /\ TargetsThat(k, "running") = {}
    BY <1>2 DEF TargetsThat
<1> QED
    BY <1>1, <1>3, HasIs, TasksAre DEF AsSaga!Settled

LEMMA ReachedNow ==
    ASSUME Base, RollbackIsDue
    PROVE  AsSaga!Reached(stage)
<1>1. ASSUME NEW k \in Slots, k[1] < stage PROVE AsSaga!Settled(k)
    BY <1>1, SettledIs DEF Base, InOrder
<1>2. ASSUME NEW k \in Slots, k[1] > stage PROVE k \notin AsSaga!Chosen
    <2>1. jobs[k].at = "pending"
        BY <1>2 DEF Base, InOrder, NewJob
    <2> QED
        BY <2>1, TasksAre DEF Begun
<1> QED
    BY <1>1, <1>2, TasksAre DEF AsSaga!Reached

\* What has been compensated so far is what the failures so far demand.
LEMMA RepairedBy ==
    ASSUME Base, RollbackIsDue, Stable, NEW f \in Begun, NEW k \in Begun,
           JobFailed(f), RolledBack(f[1]), AsSaga!Demands(f[1], k[1])
    PROVE  ~ AsSaga!Has(k, "success")
<1>1. /\ f \in Slots /\ f[1] \in Stages /\ f[2] \in JobsOf(f[1]) /\ f = <<f[1], f[2]>>
      /\ k \in Slots /\ k[1] \in Stages /\ k \in SlotsOf(k[1])
    BY TasksAre, SlotFacts
<1>2. StageFailed(f[1])
    BY <1>1 DEF StageFailed
<1>3. f[1] \in Nat /\ k[1] \in Nat /\ k[1] >= 1
    BY <1>1, PlanFacts DEF Stages, Base, TypeOK
<1>4. CASE f[1] = k[1] /\ Compensates
    <2>1. k[1] \in 1..f[1]
        BY <1>3, <1>4
    <2>2. Undone(k[1])
        BY <1>2, <1>4, <2>1 DEF RolledBack, Compensates
    <2> QED
        BY <1>1, <2>2, UndoneIs, HasIs
<1>5. CASE f[1] > k[1] /\ plan.rollback_completed_stages_on_failure
    <2>1. k[1] \in 1..f[1]
        BY <1>3, <1>5
    <2>2. Undone(k[1])
        BY <1>2, <1>5, <2>1 DEF RolledBack
    <2> QED
        BY <1>1, <2>2, UndoneIs, HasIs
<1> QED
    BY <1>4, <1>5 DEF AsSaga!Demands, Policy

LEMMA CurrentNow ==
    ASSUME Known
    PROVE  AsSaga!Current(stage)
<1>1. Base /\ RollbackIsDue
    BY DEF Known, Due
<1>2. ASSUME Stable, NEW f \in Begun, NEW k \in Begun, f[1] < stage, AsSaga!Failed(f),
             AsSaga!Demands(f[1], k[1])
      PROVE  ~ AsSaga!Has(k, "success")
    <2>1. f \in Slots /\ f[1] \in Stages
        BY <1>1, TasksAre, SlotFacts
    <2>2. JobFailed(f)
        BY <1>1, <1>2, <2>1, FailedIs
    <2>3. RolledBack(f[1])
        BY <1>2, <2>1 DEF Known, Compensation, RollbackSoFar
    <2> QED
        BY <1>1, <1>2, <2>2, <2>3, RepairedBy
<1>3. Stable => AsSaga!Repaired(stage)
    BY <1>1, <1>2, TasksAre DEF AsSaga!Repaired
<1> QED
    BY <1>1, <1>3, ReachedNow DEF AsSaga!Current

LEMMA AliveNow ==
    ASSUME Known, phase = "stage"
    PROVE  AsSaga!Alive(stage)
<1>1. Base /\ RollbackIsDue
    BY DEF Known, Due
<1>2. ASSUME EndsPlan, NEW k \in Begun, k[1] < stage PROVE ~ AsSaga!Failed(k)
    <2>1. k \in Slots /\ k[1] \in Stages /\ k[2] \in JobsOf(k[1]) /\ k = <<k[1], k[2]>>
        BY <1>1, TasksAre, SlotFacts
    <2>2. ~ StageFailed(k[1])
        BY <1>2, <2>1 DEF Known, Failures, FailedIsTrue
    <2>3. ~ JobFailed(k)
        BY <2>1, <2>2 DEF StageFailed
    <2> QED
        BY <1>1, <2>1, <2>3, FailedIs
<1> QED
    BY <1>1, <1>2, TasksAre DEF AsSaga!Alive, Policy

-----------------------------------------------------------------------------
\* Steps the saga does not see, and steps that end it.

LEMMA Unseen ==
    ASSUME UNCHANGED <<plan, jobs>>, Stable' = Stable, Standing' = Standing
    PROVE  UNCHANGED AsSaga!vars
<1>1. Policy' = Policy
    BY DEF Policy, EndsPlan, Compensates
<1>2. Tasks' = Tasks
    BY DEF Tasks, Begun, FatesOf
<1> QED
    BY <1>1, <1>2 DEF AsSaga!vars

\* The tasks after a step that changes a job.
LEMMA OneJob ==
    ASSUME Base, Base', NEW k \in Slots, UNCHANGED plan, \A l \in Slots \ {k} : jobs'[l] = jobs[l],
           jobs'[k].at \notin {"pending", "broken"}
    PROVE  /\ Tasks' = [l \in Begun \cup {k} |-> IF l = k THEN FatesOf(jobs'[k]) ELSE Tasks[l]]
           /\ k \in Begun => Tasks' = [Tasks EXCEPT ![k] = FatesOf(jobs'[k])]
           /\ Policy' = Policy /\ DOMAIN jobs' = DOMAIN jobs
<1>1. DOMAIN jobs = Slots /\ DOMAIN jobs' = Slots /\ Begun \subseteq Slots
    <2>1. Slots' = Slots
        BY PlanStays
    <2> QED
        BY <2>1 DEF Base, TypeOK, Begun
<1>2. Begun' = Begun \cup {k}
    BY <1>1 DEF Begun
<1>3. Tasks' = [l \in Begun' |-> FatesOf(jobs'[l])]
    BY DEF Tasks, FatesOf
<1>4. Tasks' = [l \in Begun \cup {k} |-> IF l = k THEN FatesOf(jobs'[k]) ELSE FatesOf(jobs[l])]
    BY <1>1, <1>2, <1>3
<1>5. Policy' = Policy
    BY DEF Policy, EndsPlan, Compensates
<1> HIDE DEF FatesOf
<1> QED
    BY <1>1, <1>4, <1>5 DEF Tasks

LEMMA EndsSaga ==
    ASSUME Base, UNCHANGED <<plan, jobs>>, Stable' = Stable, phase \notin Ended,
           phase' \in {"error", "interrupted"}
    PROVE  AsSaga!Next
<1>1. Policy' = Policy /\ Tasks' = Tasks
    BY DEF Policy, EndsPlan, Compensates, Tasks, Begun, FatesOf
<1>2. Standing = "running" /\ Standing' = "aborted"
    BY DEF Standing, Ended
<1>3. AsSaga!Abort
    BY <1>1, <1>2 DEF AsSaga!Abort
<1> QED
    BY <1>2, <1>3 DEF AsSaga!Next

LEMMA DisturbsSaga ==
    ASSUME Base, Base', NEW g, Edit(g), Stable, ~ Stable'
    PROVE  AsSaga!Next
<1>1. UNCHANGED <<plan, stage, phase, failed, jobs, undo>> /\ phase \notin Ended
    BY DEF Edit
<1>2. Policy' = Policy /\ Tasks' = Tasks /\ Standing' = Standing /\ Standing = "running"
    BY <1>1 DEF Policy, EndsPlan, Compensates, Tasks, Begun, FatesOf, Standing, Ended
<1>3. AsSaga!Disturb
    BY <1>1, <1>2 DEF AsSaga!Disturb
<1> QED
    BY <1>2, <1>3 DEF AsSaga!Next

LEMMA FinishesSaga ==
    ASSUME Known, Finish
    PROVE  AsSaga!Next
<1>1. Base /\ RollbackIsDue /\ phase = "next" /\ phase' = "done" /\ UNCHANGED <<plan, inventory, jobs>>
    BY DEF Known, Due, Finish
<1>2. Policy' = Policy /\ Tasks' = Tasks /\ Stable' = Stable
    BY <1>1 DEF Policy, EndsPlan, Compensates, Tasks, Begun, FatesOf, Stable, inventory
<1>3. Standing = "running" /\ Standing' = "done"
    BY <1>1 DEF Standing, Ended
<1>4. \A k \in Slots : k[1] \in Int /\ k[1] < stage
    <2>1. stage = Len(plan.stages) + 1 /\ Len(plan.stages) \in Nat
        BY <1>1, PlanFacts DEF Finish, Stages, Base, TypeOK
    <2> QED
        BY <2>1, SlotFacts DEF Stages
<1>5. \A k \in Slots : AsSaga!Settled(k)
    BY <1>1, <1>4, SettledIs DEF Base, InOrder
<1>6. ASSUME Stable, NEW k \in Slots PROVE AsSaga!Repaired(k[1] + 1)
    <2>1. AsSaga!Repaired(stage)
        BY <1>6, CurrentNow DEF AsSaga!Current
    <2>2. \A f \in Begun : f[1] < stage
        BY <1>1, <1>4, TasksAre
    <2> QED
        BY <1>1, <2>1, <2>2, TasksAre DEF AsSaga!Repaired
<1>7. AsSaga!Finish
    BY <1>1, <1>2, <1>3, <1>5, <1>6, TasksAre DEF AsSaga!Finish
<1> QED
    BY <1>3, <1>7 DEF AsSaga!Next

-----------------------------------------------------------------------------
\* The pools: jobs get their targets, tasks start and end, the rest is skipped.

\* What is common to the steps of the pools that change a job.
LEMMA PoolIs ==
    ASSUME Base, NEW k \in Slots, Pool(k), phase' = "stage"
    PROVE  /\ UNCHANGED <<plan, stage, failed>> /\ Stable' = Stable /\ phase = "stage"
           /\ k[1] = stage /\ Standing = "running" /\ Standing' = "running"
           /\ \A l \in Slots \ {k} : jobs'[l] = jobs[l]
<1>1. /\ UNCHANGED <<plan, inventory, stage, failed, undo>> /\ phase = "stage" /\ k[1] = stage
      /\ \E new : jobs' = [jobs EXCEPT ![k] = new] /\ NextOf(k, new)
    BY PoolStep DEF Base
<1>2. \A l \in Slots \ {k} : jobs'[l] = jobs[l]
    BY <1>1 DEF Base, TypeOK
<1> QED
    BY <1>1, <1>2 DEF Stable, inventory, Standing, Ended

LEMMA SelectsInSaga ==
    ASSUME Known, Base', NEW k \in Slots, StartJob(k), ~ Unknown(k)
    PROVE  AsSaga!Next
<1>1. Base /\ phase = "stage" /\ phase' = "stage" /\ Pool(k)
    BY DEF Known, Due, StartJob, Pool
<1>2. /\ UNCHANGED <<plan, stage>> /\ Stable' = Stable /\ k[1] = stage
      /\ Standing = "running" /\ Standing' = "running"
      /\ \A l \in Slots \ {k} : jobs'[l] = jobs[l]
    BY <1>1, PoolIs
<1> DEFINE T == Selected(k)
<1>3. T \in SUBSET Devices
    BY <1>1, JobFacts DEF Base, TypeOK, Selected
<1>4. /\ jobs'[k].at = "running" /\ jobs'[k].targets = T
      /\ jobs'[k].result = [d \in T |-> "pending"] /\ jobs'[k].undone = [d \in T |-> Nothing]
    BY <1>1 DEF StartJob, Base, TypeOK
<1>5. FatesOf(jobs'[k]) = [d \in T |-> "pending"]
    BY <1>4 DEF FatesOf
<1>6. k \notin Begun
    BY DEF StartJob, JobsIn, Begun
<1> HIDE DEF T
<1>7. /\ Tasks' = [l \in Begun \cup {k} |-> IF l = k THEN FatesOf(jobs'[k]) ELSE Tasks[l]]
      /\ Policy' = Policy /\ DOMAIN jobs' = DOMAIN jobs
    BY <1>1, <1>2, <1>4, OneJob
<1>8. Tasks' = [l \in Begun \cup {k} |-> IF l = k THEN [d \in T |-> "pending"] ELSE Tasks[l]]
    BY <1>5, <1>7
<1>9. AsSaga!Current(k[1]) /\ AsSaga!Alive(k[1])
    BY <1>1, <1>2, CurrentNow, AliveNow
<1>10. AsSaga!Select(k)
    BY <1>1, <1>2, <1>3, <1>6, <1>7, <1>8, <1>9, TasksAre DEF AsSaga!Select
<1> QED
    BY <1>1, <1>2, <1>10, TasksAre DEF AsSaga!Next

\* A running job, and how the saga sees it when a result of it is replaced.
Gets(k, d, result) == jobs' = [jobs EXCEPT ![k].result[d] = result]

LEMMA OneResult ==
    ASSUME Base, Base', NEW k \in Slots, NEW d \in jobs[k].targets, NEW result \in Results,
           Pool(k), phase' = "stage", jobs[k].at = "running", Gets(k, d, result)
    PROVE  /\ k \in Begun /\ Tasks[k][d] = jobs[k].result[d]
           /\ Tasks' = [Tasks EXCEPT ![k][d] = result]
           /\ Policy' = Policy /\ DOMAIN jobs' = DOMAIN jobs
<1> DEFINE j == jobs[k]
           R == [j.result EXCEPT ![d] = result]
<1>1. k \in Begun /\ Typed(j)
    BY TypeSplits, TasksAre DEF Base, JobsTyped, Begun
<1>2. /\ j.result \in [j.targets -> Results \ {"skipped"}] /\ j.undone \in [j.targets -> {Nothing}]
      /\ j = [at |-> "running", targets |-> j.targets, result |-> j.result,
              joined |-> j.joined, undone |-> j.undone]
    BY <1>1, RunningFacts
<1>3. jobs'[k] = [j EXCEPT !.result = R]
    BY DEF Base, TypeOK, Gets
<1>4. R \in [j.targets -> Results] /\ \A e \in j.targets : R[e] = IF e = d THEN result ELSE j.result[e]
    BY <1>2
<1> HIDE DEF R
<1>5. jobs'[k].at = "running" /\ jobs'[k].targets = j.targets /\ jobs'[k].undone = j.undone
      /\ jobs'[k].result = R
    BY <1>2, <1>3
<1>6. FatesOf(j) = j.result
    <2>1. FatesOf(j) = [e \in j.targets |-> j.result[e]]
        BY <1>2 DEF FatesOf
    <2> QED
        BY <1>2, <2>1
<1>7. FatesOf(jobs'[k]) = [FatesOf(j) EXCEPT ![d] = result]
    <2>1. FatesOf(jobs'[k]) = [e \in j.targets |-> R[e]]
        BY <1>2, <1>5 DEF FatesOf
    <2> QED
        BY <1>2, <1>4, <1>6, <2>1
<1>8. /\ Tasks' = [Tasks EXCEPT ![k] = FatesOf(jobs'[k])]
      /\ Policy' = Policy /\ DOMAIN jobs' = DOMAIN jobs
    <2>1. UNCHANGED plan /\ \A l \in Slots \ {k} : jobs'[l] = jobs[l]
        BY PoolIs
    <2>2. jobs'[k].at \notin {"pending", "broken"}
        BY <1>5
    <2> QED
        BY <1>1, <2>1, <2>2, OneJob
<1>9. Tasks[k] = FatesOf(j) /\ k \in DOMAIN Tasks
    BY <1>1, TasksAre
<1>10. Tasks' = [Tasks EXCEPT ![k] = [Tasks[k] EXCEPT ![d] = result]]
    BY <1>7, <1>8, <1>9
<1> HIDE DEF j
<1> QED
    BY <1>1, <1>6, <1>8, <1>9, <1>10 DEF j

LEMMA StartsInSaga ==
    ASSUME Known, Base', NEW k \in Slots, NEW d \in jobs[k].targets, StartTarget(k, d)
    PROVE  AsSaga!Next
<1>1. /\ Base /\ phase = "stage" /\ phase' = "stage" /\ Pool(k) /\ jobs[k].at = "running"
      /\ jobs[k].result[d] = "pending" /\ Gets(k, d, "running")
    BY DEF Gets, Known, Due, StartTarget, JobsIn, TargetsThat, Pool
<1>2. /\ Stable' = Stable /\ k[1] = stage /\ Standing = "running" /\ Standing' = "running"
    BY <1>1, PoolIs
<1>3. /\ k \in Begun /\ Tasks[k][d] = "pending" /\ Tasks' = [Tasks EXCEPT ![k][d] = "running"]
      /\ Policy' = Policy /\ DOMAIN jobs' = DOMAIN jobs
    <2>1. "running" \in Results
        BY DEF Results
    <2> QED
        BY <1>1, <2>1, OneResult
<1>4. AsSaga!Current(k[1]) /\ AsSaga!Alive(k[1])
    BY <1>1, <1>2, CurrentNow, AliveNow
<1>5. AsSaga!Start(k, d)
    BY <1>2, <1>3, <1>4 DEF AsSaga!Start
<1> QED
    BY <1>1, <1>2, <1>3, <1>5, TasksAre DEF AsSaga!Next, AsSaga!Task

LEMMA EndsInSaga ==
    ASSUME Known, Base', NEW k \in Slots, NEW d \in jobs[k].targets, EndTarget(k, d)
    PROVE  AsSaga!Next
<1>1. /\ Base /\ phase = "stage" /\ phase' = "stage" /\ Pool(k) /\ jobs[k].at = "running"
      /\ jobs[k].result[d] = "running"
      /\ Gets(k, d, "success") \/ Gets(k, d, "failed")
    BY DEF Gets, Known, Due, EndTarget, JobsIn, TargetsThat, Pool
<1>2. /\ Stable' = Stable /\ Standing = "running" /\ Standing' = "running"
    BY <1>1, PoolIs
<1>3. ASSUME NEW fate \in {"success", "failed"}, Gets(k, d, fate)
      PROVE  AsSaga!Next
    <2>1. fate \in Results
        BY DEF Results
    <2>2. /\ k \in Begun /\ Tasks[k][d] = "running" /\ Tasks' = [Tasks EXCEPT ![k][d] = fate]
          /\ Policy' = Policy /\ DOMAIN jobs' = DOMAIN jobs
        BY <1>1, <1>3, <2>1, OneResult
    <2>3. AsSaga!End(k, d)
        BY <1>2, <2>2 DEF AsSaga!End
    <2> QED
        BY <1>1, <1>2, <2>2, <2>3, TasksAre DEF AsSaga!Next, AsSaga!Task
<1> QED
    BY <1>1, <1>3

\* The fates of a job whose targets, results and compensations stay.
LEMMA SameFates ==
    ASSUME Base, Base', NEW k \in Slots, Pool(k), phase' = "stage", k \in Begun,
           jobs'[k].at \notin {"pending", "broken"},
           jobs'[k].targets = jobs[k].targets, jobs'[k].result = jobs[k].result,
           jobs'[k].undone = jobs[k].undone
    PROVE  UNCHANGED AsSaga!vars
<1>1. /\ UNCHANGED plan /\ Stable' = Stable /\ Standing' = Standing
      /\ \A l \in Slots \ {k} : jobs'[l] = jobs[l]
    BY PoolIs
<1>2. FatesOf(jobs'[k]) = Tasks[k]
    BY TasksAre DEF FatesOf
<1>3. /\ Tasks' = [Tasks EXCEPT ![k] = FatesOf(jobs'[k])]
      /\ Policy' = Policy /\ DOMAIN jobs' = DOMAIN jobs
    BY <1>1, OneJob
<1>4. Tasks' = Tasks
    <2>1. k \in DOMAIN Tasks /\ Tasks = [l \in DOMAIN Tasks |-> Tasks[l]]
        BY TasksAre DEF Tasks
    <2> QED
        BY <1>2, <1>3, <2>1
<1> QED
    BY <1>1, <1>3, <1>4 DEF AsSaga!vars

LEMMA JoinTargetUnseen ==
    ASSUME Known, Base', NEW k \in Slots, NEW d \in jobs[k].targets, JoinTarget(k, d)
    PROVE  UNCHANGED AsSaga!vars
<1>1. Base /\ phase' = "stage" /\ Pool(k) /\ jobs[k].at = "running"
    BY DEF Known, Due, JoinTarget, JobsIn, Pool
<1>2. k \in Begun /\ Typed(jobs[k])
    BY <1>1, TypeSplits, TasksAre DEF Base, JobsTyped, Begun
<1>3. jobs'[k] = [jobs[k] EXCEPT !.joined = @ \cup {d}]
    BY <1>1 DEF JoinTarget, Base, TypeOK
<1>4. jobs[k] = [at |-> "running", targets |-> jobs[k].targets, result |-> jobs[k].result,
                 joined |-> jobs[k].joined, undone |-> jobs[k].undone]
    BY <1>1, <1>2, RunningFacts
<1>5. /\ jobs'[k].at = "running" /\ jobs'[k].targets = jobs[k].targets
      /\ jobs'[k].result = jobs[k].result /\ jobs'[k].undone = jobs[k].undone
    BY <1>3, <1>4
<1> QED
    BY <1>1, <1>2, <1>5, SameFates

LEMMA JoinJobInSaga ==
    ASSUME Known, Base', NEW k \in Slots, JoinJob(k)
    PROVE  UNCHANGED AsSaga!vars \/ AsSaga!Next
<1>1. /\ Base /\ Pool(k) /\ phase = "stage" /\ UNCHANGED <<plan, inventory>>
    BY DEF Known, Due, JoinJob, Pool
<1>2. CASE k \in JobsIn("ended") /\ jobs' = [jobs EXCEPT ![k].at = "joined"] /\ UNCHANGED phase
    <2>1. jobs[k].at = "ended" /\ k \in Begun /\ Typed(jobs[k])
        BY <1>1, <1>2, TypeSplits, TasksAre DEF JobsIn, Base, JobsTyped, Begun
    <2>2. jobs'[k] = [jobs[k] EXCEPT !.at = "joined"]
        BY <1>1, <1>2 DEF Base, TypeOK
    <2>3. jobs[k] = [at |-> "ended", targets |-> jobs[k].targets, result |-> jobs[k].result,
                     joined |-> jobs[k].joined, undone |-> jobs[k].undone]
        BY <2>1, OverFacts
    <2>4. /\ jobs'[k].at = "joined" /\ jobs'[k].targets = jobs[k].targets
          /\ jobs'[k].result = jobs[k].result /\ jobs'[k].undone = jobs[k].undone
        BY <2>2, <2>3
    <2> QED
        BY <1>1, <1>2, <2>1, <2>4, SameFates
<1>3. CASE phase' = "error" /\ UNCHANGED jobs
    <2>1. Stable' = Stable /\ phase \notin Ended
        BY <1>1 DEF inventory, Stable, Ended
    <2> QED
        BY <1>1, <1>3, <2>1, EndsSaga
<1> QED
    BY <1>2, <1>3 DEF JoinJob

LEMMA EndJobInSaga ==
    ASSUME Known, Base', NEW k \in Slots, EndJob(k)
    PROVE  UNCHANGED AsSaga!vars \/ AsSaga!Next
<1> DEFINE j == jobs[k]
           R == [d \in j.targets |-> IF j.result[d] = "pending" THEN "skipped" ELSE j.result[d]]
           over == [j EXCEPT !.at = "ended"]
<1>1. Base /\ RollbackIsDue /\ JoinedAreOver /\ phase' = "stage" /\ Pool(k) /\ j.at = "running"
    BY DEF Known, Due, Base, EndJob, JobsIn, Pool
<1>2. k \in Begun /\ Typed(j)
    BY <1>1, TypeSplits, TasksAre DEF Base, JobsTyped, Begun
<1>3. /\ j.result \in [j.targets -> Results \ {"skipped"}] /\ j.undone \in [j.targets -> {Nothing}]
      /\ j = [at |-> "running", targets |-> j.targets, result |-> j.result,
              joined |-> j.joined, undone |-> j.undone]
      /\ j.joined \subseteq j.targets
    BY <1>1, <1>2, RunningFacts
<1>4. jobs'[k] = [over EXCEPT !.result = R]
    BY <1>1 DEF EndJob, Base, TypeOK
<1>5. /\ jobs'[k].at = "ended" /\ jobs'[k].targets = j.targets /\ jobs'[k].undone = j.undone
      /\ jobs'[k].result = R
    <2> HIDE DEF R
    <2>1. over = [at |-> "ended", targets |-> j.targets, result |-> j.result,
                  joined |-> j.joined, undone |-> j.undone]
        BY <1>3
    <2> HIDE DEF over
    <2> QED
        BY <1>4, <2>1
<1>6. CASE TargetsThat(k, "pending") = {}
    <2>1. \A d \in j.targets : j.result[d] # "pending"
        BY <1>6 DEF TargetsThat
    <2>2. R = j.result
        BY <1>3, <2>1
    <2> HIDE DEF R
    <2> QED
        BY <1>1, <1>2, <1>5, <2>2, SameFates
<1>7. CASE TargetsThat(k, "pending") # {}
    <2>1. JobFailed(k)
        BY <1>3, <1>7 DEF EndJob, JobStops, JobFailed, TargetsThat
    <2>2. TargetsThat(k, "running") = {}
        BY <1>1 DEF EndJob, Unjoined, TargetsThat, JoinedAreOver
    <2>3. AsSaga!Failed(k) /\ AsSaga!Has(k, "pending") /\ ~ AsSaga!Has(k, "running")
        BY <1>1, <1>2, <1>7, <2>1, <2>2, FailedIs, HasIs
    <2>4. DOMAIN Tasks[k] = j.targets /\ \A d \in j.targets : Tasks[k][d] = j.result[d]
        BY <1>1, <1>2, <1>3, TasksAre
    <2>5. FatesOf(jobs'[k]) = R
        <3>1. FatesOf(jobs'[k]) = [d \in j.targets |-> R[d]]
            BY <1>3, <1>5 DEF FatesOf
        <3> QED
            BY <3>1
    <2>6. R = [d \in DOMAIN Tasks[k] |-> IF Tasks[k][d] = "pending" THEN "skipped" ELSE Tasks[k][d]]
        BY <2>4
    <2> HIDE DEF R
    <2>7. /\ Stable' = Stable /\ Standing = "running" /\ Standing' = "running" /\ UNCHANGED plan
          /\ \A l \in Slots \ {k} : jobs'[l] = jobs[l]
        BY <1>1, PoolIs
    <2>8. /\ Tasks' = [Tasks EXCEPT ![k] = FatesOf(jobs'[k])]
          /\ Policy' = Policy /\ DOMAIN jobs' = DOMAIN jobs
        BY <1>1, <1>2, <1>5, <2>7, OneJob
    <2>9. Tasks' = [Tasks EXCEPT ![k] =
            [d \in DOMAIN Tasks[k] |-> IF Tasks[k][d] = "pending" THEN "skipped" ELSE Tasks[k][d]]]
        BY <2>5, <2>6, <2>8
    <2>10. AsSaga!SkipRest(k)
        BY <2>3, <2>7, <2>8, <2>9 DEF AsSaga!SkipRest
    <2> QED
        BY <1>1, <1>2, <2>7, <2>10, TasksAre DEF AsSaga!Next
<1> QED
    BY <1>6, <1>7

LEMMA PoolInSaga ==
    ASSUME Known, Base', NEW k \in Slots, Pool(k)
    PROVE  UNCHANGED AsSaga!vars \/ AsSaga!Next
<1>1. Base
    BY DEF Known, Due
<1>2. CASE StartJob(k)
    <2>1. CASE Unknown(k)
        <3>1. /\ UNCHANGED <<plan, inventory, phase>> /\ jobs[k].at = "pending"
              /\ jobs'[k].at = "broken" /\ \A l \in Slots \ {k} : jobs'[l] = jobs[l]
            BY <1>1, <1>2, <2>1 DEF StartJob, JobsIn, Base, TypeOK, NewJob
        <3>2. DOMAIN jobs = Slots /\ DOMAIN jobs' = Slots
            BY <1>1, <3>1, PlanStays DEF Base, TypeOK
        <3>3. Begun' = Begun /\ k \notin Begun
            BY <3>1, <3>2 DEF Begun
        <3>4. \A l \in Begun : jobs'[l] = jobs[l]
            BY <3>1, <3>2, <3>3 DEF Begun
        <3>5. Tasks' = Tasks
            BY <3>3, <3>4 DEF Tasks, FatesOf
        <3>6. Policy' = Policy /\ Standing' = Standing /\ Stable' = Stable
            BY <3>1 DEF Policy, EndsPlan, Compensates, Standing, Stable, inventory
        <3> QED
            BY <3>2, <3>5, <3>6 DEF AsSaga!vars
    <2>2. CASE ~ Unknown(k)
        BY <1>2, <2>2, SelectsInSaga
    <2> QED
        BY <2>1, <2>2
<1> QED
    BY <1>2, JoinJobInSaga, EndJobInSaga, StartsInSaga, EndsInSaga, JoinTargetUnseen DEF Pool

-----------------------------------------------------------------------------
\* The compensation undoes what a failure demands, the later stages first.

LEMMA UndoIsDemanded ==
    ASSUME Known, phase = "compensate"
    PROVE  \E f \in AsSaga!Chosen :
            /\ AsSaga!Failed(f) /\ AsSaga!Demands(f[1], undo.stage)
            /\ AsSaga!Reached(f[1]) /\ \A l \in Slots : l[1] = f[1] => AsSaga!Settled(l)
<1>1. Base /\ RollbackIsDue /\ UndoingForFailure
    BY DEF Known, Due
<1>2. stage \in Stages /\ stage \in Nat /\ undo.stage \in 1..stage
      /\ (~ plan.rollback_completed_stages_on_failure => undo.stage = stage) /\ Compensates
    BY <1>1, UndoingFacts DEF Base, UndoingIsDue
<1>3. PICK j \in JobsOf(stage) : JobFailed(<<stage, j>>)
    BY <1>1 DEF UndoingForFailure, StageFailed
<1> DEFINE f == <<stage, j>>
<1>4. f \in Slots /\ f[1] = stage
    BY <1>2, SlotIs
<1>5. AsSaga!Failed(f)
    BY <1>1, <1>3, <1>4, FailedIs
<1>6. f \in AsSaga!Chosen
    BY <1>5 DEF AsSaga!Failed
<1>7. AsSaga!Demands(stage, undo.stage)
    <2>1. undo.stage = stage \/ (stage > undo.stage /\ plan.rollback_completed_stages_on_failure)
        BY <1>2, PlanFacts DEF Base, TypeOK
    <2> QED
        BY <1>2, <2>1 DEF AsSaga!Demands, Policy
<1>8. AsSaga!Reached(stage)
    BY <1>1, ReachedNow
<1>9. \A l \in Slots : l[1] = stage => AsSaga!Settled(l)
    BY <1>1, SettledIs DEF Base, InOrder
<1> QED
    BY <1>4, <1>5, <1>6, <1>7, <1>8, <1>9

LEMMA LaterAreUndone ==
    ASSUME Known, phase = "compensate", Stable, NEW l \in Begun, l[1] > undo.stage
    PROVE  ~ AsSaga!Has(l, "success")
<1>1. Base /\ RollbackIsDue
    BY DEF Known, Due
<1>2. l \in Slots /\ l[1] \in Stages /\ l \in SlotsOf(l[1])
    BY <1>1, TasksAre, SlotFacts
<1>3. l[1] \in Nat /\ stage \in Nat /\ undo.stage \in Nat
    BY <1>1, <1>2, PlanFacts DEF Stages, Base, TypeOK
<1>4. l[1] <= stage
    <2>1. l[1] > stage => jobs[l].at = "pending"
        BY <1>1, <1>2 DEF Base, InOrder, NewJob
    <2> QED
        BY <1>3, <2>1 DEF Begun
<1>5. Undone(l[1])
    BY <1>2, <1>3, <1>4 DEF Known, Compensation, RollbackSoFar
<1>6. JobUndone(l)
    BY <1>2, <1>5, UndoneIs
<1> QED
    BY <1>1, <1>6, HasIs

LEMMA UndoesInSaga ==
    ASSUME Known, Base', NEW d, UndoTarget(d)
    PROVE  UNCHANGED AsSaga!vars \/ AsSaga!Next
<1> DEFINE k == Undoing
           j == jobs[Undoing]
<1>1. Base /\ RollbackIsDue
    BY DEF Known, Due
<1>2. /\ UNCHANGED <<plan, inventory, stage, phase, failed>> /\ phase = "compensate"
      /\ d \in TargetsThat(k, "success")
    BY <1>1, UndoTargetStep
<1>3. PICK e \in Devices \cup {Nothing} :
        /\ \/ e \in undo.listing
           \/ e = jobs[Undoing].undone[d]
        /\ \A l \in Slots \ {Undoing} : jobs'[l] = jobs[l]
        /\ jobs'[Undoing] =
            [at |-> jobs[Undoing].at, targets |-> jobs[Undoing].targets,
             result |-> jobs[Undoing].result, joined |-> jobs[Undoing].joined,
             undone |-> [jobs[Undoing].undone EXCEPT ![d] = e]]
    <2>1. PICK e \in Devices \cup {Nothing} : CompensatesAt(d, e)
        BY <1>1, UndoTargetStep
    <2> QED
        BY <2>1 DEF CompensatesAt
<1>4. k \in Slots /\ k[1] = undo.stage /\ j.at \in Settled /\ Typed(j) /\ k \in Begun
    BY <1>1, <1>2, UndoingFacts, TypeSplits, TasksAre DEF Base, JobsTyped, Settled, Begun
<1>5. j.undone \in [j.targets -> Devices \cup {Nothing}] /\ d \in j.targets /\ j.result[d] = "success"
    BY <1>2, <1>4, OverFacts DEF Settled, TargetsThat
<1>6. /\ Standing = "running" /\ Standing' = "running" /\ Stable' = Stable
    BY <1>2 DEF Standing, Ended, Stable, inventory
<1>7. jobs'[k].at \notin {"pending", "broken"}
    BY <1>3, <1>4 DEF Settled
<1>8. /\ Tasks' = [Tasks EXCEPT ![k] = FatesOf(jobs'[k])]
      /\ Policy' = Policy /\ DOMAIN jobs' = DOMAIN jobs
    BY <1>1, <1>2, <1>3, <1>4, <1>7, OneJob
<1>9. /\ k \in DOMAIN Tasks /\ DOMAIN Tasks[k] = j.targets /\ Tasks[k] = FatesOf(j)
      /\ Tasks = [l \in DOMAIN Tasks |-> Tasks[l]]
    BY <1>1, <1>4, TasksAre DEF Tasks
<1>10. /\ FatesOf(j) = [f \in j.targets |-> IF j.undone[f] # Nothing THEN "undone" ELSE j.result[f]]
       /\ FatesOf(jobs'[k]) =
            [f \in j.targets |->
                IF (IF f = d THEN e ELSE j.undone[f]) # Nothing THEN "undone" ELSE j.result[f]]
    BY <1>3, <1>5 DEF FatesOf
<1> HIDE DEF k, j, FatesOf
<1>11. CASE e = j.undone[d] \/ j.undone[d] # Nothing
    <2>1. e # Nothing \/ e = j.undone[d]
        <3>1. Nothing \notin undo.listing
            BY <1>1, MarkerAssumption DEF Base, TypeOK
        <3> QED
            BY <1>3, <1>11, <3>1 DEF j
    <2>2. FatesOf(jobs'[k]) = FatesOf(j)
        BY <1>10, <1>11, <2>1
    <2>3. Tasks' = Tasks
        BY <1>8, <1>9, <2>2
    <2> QED
        BY <1>6, <1>8, <2>3 DEF AsSaga!vars
<1>12. CASE j.undone[d] = Nothing /\ e # j.undone[d]
    <2>1. Tasks[k][d] = "success"
        BY <1>5, <1>9, <1>10, <1>12
    <2>2. FatesOf(jobs'[k]) = [Tasks[k] EXCEPT ![d] = "undone"]
        BY <1>5, <1>9, <1>10, <1>12
    <2>3. Tasks' = [Tasks EXCEPT ![k][d] = "undone"]
        BY <1>8, <1>9, <2>2
    <2>4. \E f \in AsSaga!Chosen :
            /\ AsSaga!Failed(f) /\ AsSaga!Demands(f[1], k[1])
            /\ AsSaga!Reached(f[1]) /\ \A l \in DOMAIN jobs : l[1] = f[1] => AsSaga!Settled(l)
        BY <1>1, <1>2, <1>4, UndoIsDemanded, TasksAre
    <2>5. Stable => \A l \in AsSaga!Chosen : l[1] > k[1] => ~ AsSaga!Has(l, "success")
        BY <1>1, <1>2, <1>4, LaterAreUndone, TasksAre
    <2>6. AsSaga!Undo(k, d)
        BY <1>6, <1>8, <2>1, <2>3, <2>4, <2>5 DEF AsSaga!Undo
    <2> QED
        BY <1>1, <1>4, <1>5, <1>6, <1>9, <2>6, TasksAre DEF AsSaga!Next, AsSaga!Task
<1> QED
    BY <1>11, <1>12

-----------------------------------------------------------------------------
\* The jobs that a stage has not started are skipped together.

LEMMA SkipsInSaga ==
    ASSUME Known, Base', UNCHANGED plan, Stable' = Stable, Standing = "running",
           Standing' = "running", NEW S, S = {k \in Slots : k[1] = stage} \ Begun, S # {},
           jobs' = [k \in Slots |-> IF k \in S THEN SkippedJob(k) ELSE jobs[k]],
           \A k \in Begun : jobs[k].at \in Settled,
           \E f \in Slots : JobFailed(f) /\ (f[1] = stage \/ (f[1] < stage /\ EndsPlan))
    PROVE  AsSaga!Next
<1> DEFINE T == [k \in S |-> Selected(k)]
<1>1. Base /\ RollbackIsDue
    BY DEF Known, Due
<1>2. DOMAIN jobs = Slots /\ DOMAIN jobs' = Slots /\ Begun \subseteq Slots /\ S \subseteq Slots
    BY <1>1, TasksAre
<1>3. AsSaga!Left(stage) = S
    BY <1>1, <1>2, TasksAre DEF AsSaga!Left
<1>4. \A k \in S : FatesOf(SkippedJob(k)) = [d \in T[k] |-> "skipped"]
    BY DEF SkippedJob, FatesOf
<1>5. T \in [S -> SUBSET Devices]
    <2>1. \A k \in S : Selected(k) \in SUBSET Devices
        BY <1>1, <1>2, JobFacts DEF Base, TypeOK, Selected
    <2> QED
        BY <2>1
<1> HIDE DEF T
<1>6. Begun' = Begun \cup S
    <2>1. \A k \in Slots : jobs'[k] = IF k \in S THEN SkippedJob(k) ELSE jobs[k]
        OBVIOUS
    <2>2. \A k \in S : jobs'[k].at = "skipped"
        BY <1>2, <2>1 DEF SkippedJob
    <2>3. Begun' = {k \in Slots : jobs'[k].at \notin {"pending", "broken"}}
        BY <1>2 DEF Begun
    <2>4. Begun = {k \in Slots : jobs[k].at \notin {"pending", "broken"}}
        BY <1>2 DEF Begun
    <2> HIDE DEF Begun
    <2> QED
        BY <1>2, <2>1, <2>2, <2>3, <2>4
<1>7. Tasks' = [k \in Begun \cup S |-> IF k \in Begun THEN Tasks[k] ELSE [d \in T[k] |-> "skipped"]]
    <2>1. Tasks' = [k \in Begun \cup S |-> FatesOf(jobs'[k])]
        BY <1>6 DEF Tasks, FatesOf
    <2>2. \A k \in Begun : jobs'[k] = jobs[k] /\ Tasks[k] = FatesOf(jobs[k])
        BY <1>1, <1>2, TasksAre
    <2>3. \A k \in S : k \notin Begun /\ jobs'[k] = SkippedJob(k)
        BY <1>2
    <2>4. \A k \in Begun \cup S :
            FatesOf(jobs'[k]) = IF k \in Begun THEN Tasks[k] ELSE [d \in T[k] |-> "skipped"]
        <3>1. ASSUME NEW k \in Begun PROVE FatesOf(jobs'[k]) = Tasks[k]
            BY <2>2
        <3>2. ASSUME NEW k \in S PROVE k \notin Begun /\ FatesOf(jobs'[k]) = [d \in T[k] |-> "skipped"]
            BY <1>4, <2>3
        <3> HIDE DEF Begun, FatesOf
        <3> QED
            BY <3>1, <3>2, Zenon
    <2> HIDE DEF FatesOf, Begun
    <2> QED
        BY <2>1, <2>4, Zenon
<1>8. Policy' = Policy
    BY DEF Policy, EndsPlan, Compensates
<1>9. \A k \in AsSaga!Chosen : AsSaga!Settled(k)
    BY <1>1, <1>2, SettledIs, TasksAre
<1>10. \E f \in AsSaga!Chosen :
        AsSaga!Failed(f) /\ (f[1] = stage \/ (f[1] < stage /\ Policy.ends))
    <2>1. PICK f \in Slots : JobFailed(f) /\ (f[1] = stage \/ (f[1] < stage /\ EndsPlan))
        OBVIOUS
    <2>2. AsSaga!Failed(f)
        BY <1>1, <2>1, FailedIs
    <2> QED
        BY <2>1, <2>2 DEF AsSaga!Failed, Policy
<1>11. AsSaga!Current(stage)
    BY CurrentNow
<1>12. AsSaga!SkipJobs(stage)
    <2>1. Tasks' = [k \in AsSaga!Chosen \cup AsSaga!Left(stage) |->
            IF k \in AsSaga!Chosen THEN Tasks[k] ELSE [d \in T[k] |-> "skipped"]]
        <3>1. AsSaga!Chosen = Begun
            BY <1>1, TasksAre
        <3> HIDE DEF Begun
        <3> QED
            BY <1>3, <1>7, <3>1, Zenon
    <2> QED
        BY <1>2, <1>3, <1>5, <1>8, <1>9, <1>10, <1>11, <2>1 DEF AsSaga!SkipJobs
<1>13. PICK k \in Slots : k[1] = stage
    BY <1>2
<1> QED
    BY <1>2, <1>12, <1>13 DEF AsSaga!Next

LEMMA SkipStageInSaga ==
    ASSUME Known, Base', SkipStage
    PROVE  AsSaga!Next
<1>1. /\ Base /\ RollbackIsDue /\ phase = "next" /\ failed /\ stage \in Stages
      /\ UNCHANGED <<plan, inventory>> /\ Stable' = Stable /\ phase \notin Ended
    BY DEF Known, Due, SkipStage, Stable, inventory, Ended
<1>2. CASE ~ Resolvable(stage)
    BY <1>1, <1>2, EndsSaga DEF SkipStage
<1>3. CASE Resolvable(stage)
    <2> DEFINE S == {k \in Slots : k[1] = stage}
    <2>1. \A k \in S : jobs[k] = NewJob /\ k \notin Begun
        BY <1>1 DEF Base, InOrder, NewJob, Begun
    <2>2. S = S \ Begun
        BY <2>1
    <2>3. S # {}
        <3>1. <<stage, 1>> \in Slots
            BY <1>1, SlotIs, PlanFacts DEF JobsOf, Base, TypeOK
        <3> QED
            BY <3>1
    <2>4. jobs' = [k \in Slots |-> IF k \in S THEN SkippedJob(k) ELSE jobs[k]]
        BY <1>3 DEF SkipStage
    <2>5. \A k \in Begun : jobs[k].at \in Settled
        <3> SUFFICES ASSUME NEW k \in Begun PROVE jobs[k].at \in Settled
            OBVIOUS
        <3>1. k \in Slots /\ k[1] \in Stages /\ jobs[k] # NewJob
            BY <1>1, TasksAre, SlotFacts DEF Begun, NewJob
        <3>2. k[1] < stage
            BY <1>1, <3>1, PlanFacts DEF Base, InOrder, TypeOK, Stages
        <3> QED
            BY <1>1, <3>1, <3>2 DEF Base, InOrder
    <2>6. \E f \in Slots : JobFailed(f) /\ (f[1] = stage \/ (f[1] < stage /\ EndsPlan))
        <3>1. PICK s \in Stages : s <= stage /\ StageFailed(s)
            BY <1>1 DEF Known, Failures, FailedIsTrue
        <3>2. PICK j \in JobsOf(s) : JobFailed(<<s, j>>)
            BY <3>1 DEF StageFailed
        <3>3. <<s, j>> \in Slots
            BY SlotIs
        <3>4. s # stage
            <4>1. s = stage => jobs[<<s, j>>] = NewJob
                BY <2>1, <3>3
            <4> QED
                BY <3>2, <4>1, NewJobFacts
        <3>5. s < stage
            BY <1>1, <3>1, <3>4, PlanFacts DEF Base, TypeOK, Stages
        <3> QED
            BY <1>1, <3>2, <3>3, <3>5 DEF Known, FailedEnds
    <2>7. Standing = "running" /\ Standing' = "running"
        BY <1>1, <1>3 DEF SkipStage, Standing, Ended
    <2> HIDE DEF S
    <2> QED
        BY <1>1, <2>2, <2>3, <2>4, <2>5, <2>6, <2>7, SkipsInSaga DEF S
<1> QED
    BY <1>2, <1>3

LEMMA EndStageInSaga ==
    ASSUME Known, Base', EndStage
    PROVE  UNCHANGED AsSaga!vars \/ AsSaga!Next
<1> DEFINE S == JobsIn("pending")
<1>1. /\ Base /\ RollbackIsDue /\ phase = "stage" /\ stage \in Stages
      /\ UNCHANGED <<plan, inventory>> /\ Stable' = Stable /\ phase \notin Ended
    BY DEF Known, Due, Base, InOrder, EndStage, Stable, inventory, Ended
<1>2. CASE ~ \A k \in S : ~ Unknown(k)
    BY <1>1, <1>2, EndsSaga DEF EndStage
<1>3. CASE \A k \in S : ~ Unknown(k)
    <2>1. /\ jobs' = [k \in Slots |-> IF k \in S THEN SkippedJob(k) ELSE jobs[k]]
          /\ phase' \in {"compensate", "next"}
        BY <1>3 DEF EndStage
    <2>2. Standing = "running" /\ Standing' = "running" /\ Policy' = Policy
        BY <1>1, <2>1 DEF Standing, Ended, Policy, EndsPlan, Compensates
    <2>3. DOMAIN jobs = Slots /\ DOMAIN jobs' = Slots
        BY <1>1, <2>1 DEF Base, TypeOK
    <2>4. CASE S = {}
        <3>1. \A k \in Slots : jobs'[k] = jobs[k]
            BY <2>1, <2>4
        <3>2. Begun' = Begun /\ \A k \in Begun : jobs'[k] = jobs[k]
            BY <2>3, <3>1 DEF Begun
        <3>3. Tasks' = Tasks
            BY <3>2 DEF Tasks, FatesOf
        <3> QED
            BY <1>1, <2>2, <2>3, <3>3 DEF AsSaga!vars
    <2>5. CASE S # {}
        <3>1. \A k \in Slots : k[1] = stage <=> k \in SlotsOf(stage)
            BY <1>1, SlotFacts, SlotsOfStage
        <3>2. \A k \in SlotsOf(stage) : jobs[k].at \in {"pending", "joined"}
            <4> SUFFICES ASSUME NEW k \in SlotsOf(stage) PROVE jobs[k].at \in {"pending", "joined"}
                OBVIOUS
            <4>1. k \in Slots /\ k[1] = stage
                BY <1>1, SlotsOfStage
            <4>2. jobs[k].at # "skipped" /\ Typed(jobs[k])
                BY <1>1, <4>1, TypeSplits DEF Base, InOrder, JobsTyped
            <4>3. jobs[k].at \notin {"running", "broken", "ended"}
                BY DEF EndStage, UnjoinedJobs, JobsIn
            <4> QED
                BY <4>2, <4>3 DEF Typed, JobState
        <3>3. S = {k \in Slots : k[1] = stage} \ Begun
            <4>1. \A k \in Slots : k \in Begun <=> jobs[k].at \notin {"pending", "broken"}
                BY <2>3 DEF Begun
            <4>2. \A k \in SlotsOf(stage) : k \in Slots
                BY <1>1, SlotsOfStage
            <4> QED
                BY <3>1, <3>2, <4>1, <4>2 DEF JobsIn
        <3>4. \A k \in Begun : jobs[k].at \in Settled
            <4> SUFFICES ASSUME NEW k \in Begun PROVE jobs[k].at \in Settled
                OBVIOUS
            <4>1. k \in Slots /\ k[1] \in Stages /\ jobs[k].at # "pending" /\ jobs[k] # NewJob
                BY <1>1, TasksAre, SlotFacts DEF Begun, NewJob
            <4>2. k[1] < stage \/ k[1] = stage
                BY <1>1, <4>1, PlanFacts DEF Base, InOrder, TypeOK, Stages
            <4>3. k[1] = stage => jobs[k].at = "joined"
                BY <3>1, <3>2, <4>1
            <4> QED
                BY <1>1, <4>1, <4>2, <4>3 DEF Base, InOrder, Settled
        <3>5. \E f \in Slots : JobFailed(f) /\ f[1] = stage
            <4>1. PICK f \in JobsIn("joined") : JobFailed(f)
                BY <2>5 DEF EndStage, StageStops
            <4> QED
                BY <1>1, <4>1, SlotsOfStage DEF JobsIn
        <3> HIDE DEF S
        <3> QED
            BY <1>1, <2>1, <2>2, <2>5, <3>3, <3>4, <3>5, SkipsInSaga
    <2> QED
        BY <2>4, <2>5
<1> QED
    BY <1>2, <1>3

-----------------------------------------------------------------------------
\* Every step.

LEMMA StepInSaga ==
    ASSUME Known, Base', [Next]_vars
    PROVE  UNCHANGED AsSaga!vars \/ AsSaga!Next
<1>1. Base
    BY DEF Known, Due
<1>2. CASE UNCHANGED vars
    BY <1>2, Unseen DEF vars, inventory, Stable, Standing
<1>3. CASE StartStage \/ ResolveUndo \/ EndUndo
    <2>1. /\ UNCHANGED <<plan, inventory, jobs>> /\ phase \in {"next", "compensate"}
          /\ phase' \in {"next", "stage", "compensate", "error"}
        BY <1>3 DEF StartStage, ResolveUndo, EndUndo
    <2>2. Stable' = Stable
        BY <2>1 DEF inventory, Stable
    <2>3. CASE phase' = "error"
        BY <1>1, <2>1, <2>2, <2>3, EndsSaga DEF Ended
    <2>4. CASE phase' # "error"
        BY <2>1, <2>2, <2>4, Unseen DEF Standing, Ended
    <2> QED
        BY <2>3, <2>4
<1>4. CASE Interrupt
    <2>1. Stable' = Stable
        BY <1>4 DEF Interrupt, inventory, Stable
    <2> QED
        BY <1>1, <1>4, <2>1, EndsSaga DEF Interrupt
<1>5. ASSUME NEW g, Edit(g) PROVE UNCHANGED AsSaga!vars \/ AsSaga!Next
    <2>1. CASE Stable /\ ~ Stable'
        BY <1>1, <1>5, <2>1, DisturbsSaga
    <2>2. CASE Stable' = Stable
        BY <1>5, <2>2, Unseen DEF Edit, Standing
    <2>3. ~ Stable => ~ Stable'
        BY <1>1, <1>5, OrchestrationAssumption
        DEF Edit, Save, InsertMember, DeleteGroup, Stable, Base, TypeOK
    <2>4. Stable \in BOOLEAN /\ Stable' \in BOOLEAN
        BY DEF Stable
    <2> QED
        BY <2>1, <2>2, <2>3, <2>4
<1>6. CASE Step
    BY <1>3, <1>6, SkipStageInSaga, EndStageInSaga, FinishesSaga, PoolInSaga, UndoesInSaga DEF Step
<1> QED
    BY <1>2, <1>4, <1>5, <1>6 DEF Next

LEMMA StartOfSaga ==
    ASSUME Init
    PROVE  AsSaga!Init
<1>1. plan \in Plans /\ Base /\ phase = "next" /\ edits = 0 /\ jobs = [k \in Slots |-> NewJob]
    BY BaseInit DEF Init
<1>2. /\ Policy \in [ends : BOOLEAN, compensates : BOOLEAN, earlier : BOOLEAN]
      /\ Policy.earlier => Policy.ends /\ Policy.compensates
    <2>1. EndsPlan \in BOOLEAN /\ Compensates \in BOOLEAN
        BY DEF EndsPlan, Compensates
    <2>2. /\ plan.rollback_completed_stages_on_failure \in BOOLEAN
          /\ plan.rollback_completed_stages_on_failure => EndsPlan /\ Compensates
        BY <1>1, PlanFacts DEF EndsPlan, Compensates
    <2> QED
        BY <2>1, <2>2 DEF Policy
<1>3. DOMAIN jobs \in SUBSET (Nat \X Nat)
    <2> SUFFICES ASSUME NEW k \in Slots PROVE k \in Nat \X Nat
        BY <1>1
    <2>1. k = <<k[1], k[2]>> /\ k[1] \in Stages /\ k[2] \in JobsOf(k[1])
        BY SlotFacts
    <2>2. k[1] \in Nat /\ k[2] \in Nat
        BY <1>1, <2>1, PlanFacts DEF Stages, JobsOf
    <2> QED
        BY <2>1, <2>2
<1>4. Begun = {}
    BY <1>1 DEF Begun, NewJob
<1>5. Tasks = [k \in {} |-> {}]
    BY <1>4 DEF Tasks
<1>6. Standing = "running" /\ Stable
    BY <1>1 DEF Standing, Stable, Ended
<1> QED
    BY <1>2, <1>3, <1>5, <1>6 DEF AsSaga!Init

\* The stages, the pools with their stop_spawning, the skipped rest and the
\* compensation implement the saga, step by step: a task starts only in its turn, is
\* skipped only for a failure, is undone only if that is demanded and in reverse order,
\* and a plan is not done before it is repaired.
THEOREM Refinement == Spec => ImplementsSaga
<1>1. Init => AsSaga!Init
    BY StartOfSaga
<1>2. Known /\ Base' /\ [Next]_vars => [AsSaga!Next]_(AsSaga!vars)
    BY StepInSaga
<1>3. Known => Base
    BY DEF Known, Due
<1> QED
    BY <1>1, <1>2, <1>3, KnownHolds, PTL DEF Spec, ImplementsSaga, AsSaga!Spec
=============================================================================
