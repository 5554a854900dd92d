-------------------------------- MODULE Saga --------------------------------
(***************************************************************************)
(* What an orchestration promises to the person who runs it: stages of     *)
(* jobs, of which a job operates a set of targets once, and a failure      *)
(* that leads to what the policy of the plan says.  How pools limit what   *)
(* runs at once, how selectors are resolved and what position a target has *)
(* in a listing is left to Orchestration, which implements this module.    *)
(***************************************************************************)
EXTENDS Integers

CONSTANT Targets      \* what a job may operate

VARIABLES
    policy,     \* what a failure leads to
    slots,      \* the jobs: a stage and a position in it
    tasks,      \* per job that is selected: its targets, and what has become of them
    course,     \* how the plan stands
    disturbed   \* somebody has edited what the jobs select

vars == <<policy, slots, tasks, course, disturbed>>

Init ==
    /\ policy \in [ends : BOOLEAN, compensates : BOOLEAN, earlier : BOOLEAN]
    /\ policy.earlier => policy.ends /\ policy.compensates
    /\ slots \in SUBSET (Nat \X Nat)
    /\ tasks = [k \in {} |-> {}]
    /\ course = "running"
    /\ disturbed = FALSE

Chosen == DOMAIN tasks
Has(k, fate) == \E d \in DOMAIN tasks[k] : tasks[k][d] = fate
Failed(k) == k \in Chosen /\ Has(k, "failed")
Settled(k) == k \in Chosen /\ ~ Has(k, "pending") /\ ~ Has(k, "running")

\* The plan has come to stage s: those before it are over, those after it have not begun.
Reached(s) ==
    \A k \in slots : /\ k[1] < s => Settled(k)
                     /\ k[1] > s => k \notin Chosen

\* A failure in stage f makes what has succeeded in stage s undone.
Demands(f, s) ==
    \/ f = s /\ policy.compensates
    \/ f > s /\ policy.earlier

\* What the failures before stage s demand has been done.
Repaired(s) ==
    \A f, k \in Chosen :
        f[1] < s /\ Failed(f) /\ Demands(f[1], k[1]) => ~ Has(k, "success")

\* Stage s is the one to go on with.
Current(s) == Reached(s) /\ (~ disturbed => Repaired(s))

\* Nothing has failed before stage s that ends the plan.
Alive(s) == policy.ends => \A k \in Chosen : k[1] < s => ~ Failed(k)

-----------------------------------------------------------------------------
\* A job gets its targets, once.
Select(k) ==
    /\ k \notin Chosen /\ Current(k[1]) /\ Alive(k[1])
    /\ \E T \in SUBSET Targets : tasks' =
        [l \in Chosen \cup {k} |-> IF l = k THEN [d \in T |-> "pending"] ELSE tasks[l]]
    /\ UNCHANGED <<policy, slots, course, disturbed>>

Start(k, d) ==
    /\ tasks[k][d] = "pending" /\ Current(k[1]) /\ Alive(k[1])
    /\ tasks' = [tasks EXCEPT ![k][d] = "running"]
    /\ UNCHANGED <<policy, slots, course, disturbed>>

End(k, d) ==
    /\ tasks[k][d] = "running"
    /\ \E fate \in {"success", "failed"} : tasks' = [tasks EXCEPT ![k][d] = fate]
    /\ UNCHANGED <<policy, slots, course, disturbed>>

\* What a job has not started is given up only for a failure of the job.
SkipRest(k) ==
    /\ Failed(k) /\ Has(k, "pending") /\ ~ Has(k, "running")
    /\ tasks' = [tasks EXCEPT ![k] =
        [d \in DOMAIN @ |-> IF @[d] = "pending" THEN "skipped" ELSE @[d]]]
    /\ UNCHANGED <<policy, slots, course, disturbed>>

\* The jobs a stage has not started are given up only for a failure in the stage, or
\* in one before it that ends the plan.
Left(s) == {k \in slots \ Chosen : k[1] = s}

SkipJobs(s) ==
    /\ Left(s) # {} /\ (\A k \in Chosen : Settled(k)) /\ Current(s)
    /\ \E f \in Chosen : Failed(f) /\ (f[1] = s \/ (f[1] < s /\ policy.ends))
    /\ \E T \in [Left(s) -> SUBSET Targets] : tasks' =
        [k \in Chosen \cup Left(s) |->
            IF k \in Chosen THEN tasks[k] ELSE [d \in T[k] |-> "skipped"]]
    /\ UNCHANGED <<policy, slots, course, disturbed>>

\* What has succeeded is undone only for a failure that demands it, when the stage
\* that failed is over and before another one begins; and a stage only after the
\* ones behind it.
Undo(k, d) ==
    /\ tasks[k][d] = "success"
    /\ \E f \in Chosen :
        /\ Failed(f) /\ Demands(f[1], k[1])
        /\ Reached(f[1]) /\ \A l \in slots : l[1] = f[1] => Settled(l)
    /\ ~ disturbed => \A l \in Chosen : l[1] > k[1] => ~ Has(l, "success")
    /\ tasks' = [tasks EXCEPT ![k][d] = "undone"]
    /\ UNCHANGED <<policy, slots, course, disturbed>>

\* The end is reached when all stages are over and repaired.
Finish ==
    /\ \A k \in slots : Settled(k)
    /\ ~ disturbed => \A k \in slots : Repaired(k[1] + 1)
    /\ course' = "done"
    /\ UNCHANGED <<policy, slots, tasks, disturbed>>

\* A selector that cannot be resolved, or a future that is dropped.
Abort ==
    /\ course' = "aborted"
    /\ UNCHANGED <<policy, slots, tasks, disturbed>>

Disturb ==
    /\ disturbed' = TRUE
    /\ UNCHANGED <<policy, slots, tasks, course>>

Task(k, d) == Start(k, d) \/ End(k, d) \/ Undo(k, d)

Next ==
    /\ course = "running"
    /\ \/ Abort \/ Disturb \/ Finish
       \/ \E k \in Chosen : SkipRest(k) \/ \E d \in DOMAIN tasks[k] : Task(k, d)
       \/ \E k \in slots : Select(k) \/ SkipJobs(k[1])

Spec == Init /\ [][Next]_vars
=============================================================================
