-------------------------- MODULE SchedulerProofs --------------------------
(***************************************************************************)
(* Proofs about Scheduler for any schedules, managers, definitions, cron   *)
(* expressions and bounds.                                                 *)
(***************************************************************************)
EXTENDS Scheduler, FiniteSetTheorems, TLAPS

\* The next trigger of a schedule that exists is a time.
LEMMA NextType ==
    ASSUME TypeOK, NEW s \in Schedules, Exists(s), NEW t \in 0..MaxClock
    PROVE  NextAfter(definition[s].cron, t) \in Nat
<1>1. definition[s] \in Definitions
    BY DEF TypeOK, Exists
<1>2. definition[s].cron \in Crons
    BY <1>1 DEF Crons
<1> QED
    BY <1>2, SchedulerAssumption

\* The tables and the calls of the managers keep their types in a step of a manager.
LEMMA TypeManage ==
    ASSUME TypeOK, NEW m \in Managers, Manage(m)
    PROVE  TypeOK'
<1> USE SchedulerAssumption, MarkerAssumption
<1>1. ASSUME NEW s \in Schedules, NEW d \in Allowed[s], NEW on \in BOOLEAN, BeginWrite(m, s, d, on)
      PROVE  TypeOK'
    <2>1. d \in Definitions /\ d.cron \in Crons
        BY DEF Definitions, Crons
    <2>2. NextAfter(d.cron, clock) \in Nat
        BY <2>1 DEF TypeOK
    <2>3. edit' \in [Managers -> Edit \cup {NoEdit}]
        BY <1>1, <2>1, <2>2 DEF BeginWrite, TypeOK, Edit, Times
    <2> QED
        BY <1>1, <2>3 DEF BeginWrite, TypeOK, tables, loop
<1>2. CASE CommitWrite(m)
    <2>1. edit[m] \in Edit
        BY <1>2 DEF CommitWrite, TypeOK
    <2>2. definition' \in [Schedules -> Definitions \cup {Absent, Deleted}]
        BY <1>2, <2>1 DEF CommitWrite, TypeOK, Edit
    <2>3. next' \in [Schedules -> Times]
        BY <1>2, <2>1 DEF CommitWrite, TypeOK, Edit
    <2>4. signal' \in BOOLEAN
        BY <1>2 DEF CommitWrite, Notify, TypeOK
    <2> QED
        BY <1>2, <2>2, <2>3, <2>4 DEF CommitWrite, TypeOK, loop
<1>3. ASSUME NEW s \in Schedules, NEW op \in {"enable", "disable", "manual"}, BeginUse(m, s, op)
      PROVE  TypeOK'
    <2>1. definition[s] \in Definitions
        BY <1>3 DEF BeginUse, Exists, TypeOK
    <2>2. NextAfter(definition[s].cron, clock) \in Nat
        BY <1>3, NextType DEF BeginUse, TypeOK
    <2>3. edit' \in [Managers -> Edit \cup {NoEdit}]
        BY <1>3, <2>1, <2>2 DEF BeginUse, TypeOK, Edit, Times
    <2> QED
        BY <1>3, <2>3 DEF BeginUse, TypeOK, tables, loop
<1>4. CASE CommitEnabled(m)
    <2>1. edit[m] \in Edit
        BY <1>4 DEF CommitEnabled, TypeOK
    <2>2. next' \in [Schedules -> Times]
        BY <1>4, <2>1 DEF CommitEnabled, TypeOK, Edit
    <2>3. signal' \in BOOLEAN
        BY <1>4 DEF CommitEnabled, Notify, TypeOK
    <2> QED
        BY <1>4, <2>2, <2>3 DEF CommitEnabled, TypeOK, loop
<1>5. CASE CommitManual(m)
    <2>1. edit[m] \in Edit
        BY <1>5 DEF CommitManual, TypeOK
    <2> DEFINE s == edit[m].schedule
    <2>2. s \in Schedules
        BY <2>1 DEF Edit
    <2>3. ASSUME NEW r \in RunsOf(s) PROVE r.at \in Nat /\ r.schedule = s /\ r \in runs
        BY DEF RunsOf, TypeOK, Run
    <2>4. PICK t \in ManualTimes(s, edit[m].at) :
            runs' = IF Exists(s) /\ ~ RowExists(s, t)
                    THEN runs \cup {Row(s, t, ManualSkipped(m))} ELSE runs
        BY <1>5 DEF CommitManual
    <2>5. edit[m].at \in Nat
        BY <1>5, <2>1 DEF CommitManual, Edit
    <2>6. t \in Nat
        BY <2>3, <2>4, <2>5 DEF ManualTimes
    <2>7. Row(s, t, ManualSkipped(m)) \in Run
        BY <2>2, <2>6 DEF Row, Run, Statuses
    <2>8. runs' \subseteq Run
        BY <2>4, <2>7 DEF TypeOK
    <2>9. \A q, r \in runs' : q.schedule = r.schedule /\ q.at = r.at => q = r
        BY <2>2, <2>4 DEF RowExists, RunsOf, Row, TypeOK
    <2>10. edit' \in [Managers -> Edit \cup {NoEdit}] /\ signal' \in BOOLEAN
        BY <1>5 DEF CommitManual, Notify, TypeOK
    <2> QED
        BY <1>5, <2>8, <2>9, <2>10 DEF CommitManual, TypeOK, loop
<1> QED
    BY <1>1, <1>2, <1>3, <1>4, <1>5 DEF Manage

LEMMA TypeDelete ==
    ASSUME TypeOK, NEW s \in Schedules, Delete(s)
    PROVE  TypeOK'
<1>1. signal' \in BOOLEAN
    BY DEF Delete, Notify, TypeOK
<1>2. next' \in [Schedules -> Times]
    BY DEF Delete, TypeOK, Times
<1>3. definition' \in [Schedules -> Definitions \cup {Absent, Deleted}]
    BY DEF Delete, TypeOK
<1> QED
    BY <1>1, <1>2, <1>3 DEF Delete, TypeOK, loop

\* So they do in a step of the loop, an execution or the clock.
LEMMA TypeLoop ==
    ASSUME TypeOK,
           \/ \E e \in executing : Finish(e) \/ FinishFails(e)
           \/ Start \/ Step \/ Shutdown \/ Crash \/ Tick
    PROVE  TypeOK'
<1> USE SchedulerAssumption, MarkerAssumption
<1>1. CASE Start
    BY <1>1 DEF Start, TypeOK, RunnerPhases, tables
<1>2. CASE Enqueue
    <2>1. CASE UNCHANGED <<next, runs>>
        BY <1>2, <2>1 DEF Enqueue, TypeOK, RunnerPhases
    <2>2. CASE \A s \in Due : ~ RowExists(s, next[s])
        <3>1. CASE UNCHANGED <<next, runs>>
            BY <2>1, <3>1
        <3>2. CASE /\ runs' = runs \cup {Row(s, next[s], SkippedTrigger(s)) : s \in Due}
                   /\ next' = [s \in Schedules |->
                        IF s \in Due THEN NextAfter(definition[s].cron, now) ELSE next[s]]
            <4>1. ASSUME NEW s \in Due
                  PROVE  /\ Row(s, next[s], SkippedTrigger(s)) \in Run
                         /\ Row(s, next[s], SkippedTrigger(s)).schedule = s
                         /\ Row(s, next[s], SkippedTrigger(s)).at = next[s]
                         /\ NextAfter(definition[s].cron, now) \in Nat
                <5>1. s \in Schedules /\ Exists(s) /\ next[s] \in Nat
                    BY DEF Due, TypeOK, Times
                <5> QED
                    BY <5>1, NextType DEF Row, Run, Statuses, TypeOK
            <4>2. runs' \subseteq Run
                BY <3>2, <4>1 DEF TypeOK
            <4>3. next' \in [Schedules -> Times]
                BY <3>2, <4>1 DEF TypeOK, Times
            <4>4. ASSUME NEW q \in runs', NEW r \in runs', q.schedule = r.schedule, q.at = r.at
                  PROVE  q = r
                <5>1. ASSUME NEW a \in runs, NEW s \in Due, a.schedule = s PROVE a.at # next[s]
                    BY <2>2, <5>1 DEF RowExists, RunsOf
                <5> QED
                    BY <3>2, <4>1, <4>4, <5>1 DEF TypeOK
            <4> QED
                BY <1>2, <4>2, <4>3, <4>4 DEF Enqueue, TypeOK, RunnerPhases
        <3> QED
            BY <1>2, <3>1, <3>2 DEF Enqueue
    <2> QED
        BY <1>2, <2>1, <2>2 DEF Enqueue
<1>3. CASE Claim
    <2> DEFINE Leased(r) == [r EXCEPT !.status = "running", !.owner = starts, !.lease = LeaseEnd]
               Started(r) == [schedule |-> r.schedule, at |-> r.at, owner |-> starts, since |-> now]
    <2>1. PICK K \in SUBSET Claimable :
            /\ runs' = (runs \ K) \cup {Leased(r) : r \in K}
            /\ executing' = executing \cup {Started(r) : r \in K}
        BY <1>3 DEF Claim
    <2>2. K \subseteq runs
        BY DEF Claimable
    <2>3. now \in Nat /\ starts \in Nat /\ LeaseEnd \in Nat
        BY DEF LeaseEnd, TypeOK
    <2>4. ASSUME NEW r \in K
          PROVE  r \in runs /\ r \in Run
        BY <2>2 DEF TypeOK
    <2>5. ASSUME NEW r \in K
          PROVE  Leased(r) \in Run /\ Leased(r).schedule = r.schedule /\ Leased(r).at = r.at
        BY <2>3, <2>4 DEF Run, Statuses
    <2>6. ASSUME NEW r \in K
          PROVE  Started(r) \in Execution
        BY <2>3, <2>4 DEF Run, Execution
    <2> HIDE DEF Leased, Started
    <2>7. runs' \subseteq Run
        BY <2>1, <2>5 DEF TypeOK
    <2>8. ASSUME NEW q \in runs', NEW r \in runs', q.schedule = r.schedule, q.at = r.at
          PROVE  q = r
        <3>1. ASSUME NEW x \in runs'
              PROVE  \E y \in runs : /\ y.schedule = x.schedule /\ y.at = x.at
                                     /\ x = IF y \in K THEN Leased(y) ELSE y
            BY <2>1, <2>4, <2>5
        <3>2. PICK y \in runs : /\ y.schedule = q.schedule /\ y.at = q.at
                                /\ q = IF y \in K THEN Leased(y) ELSE y
            BY <3>1
        <3>3. PICK z \in runs : /\ z.schedule = r.schedule /\ z.at = r.at
                                /\ r = IF z \in K THEN Leased(z) ELSE z
            BY <3>1
        <3>4. y = z
            BY <2>8, <3>2, <3>3 DEF TypeOK
        <3> QED
            BY <3>2, <3>3, <3>4
    <2>9. executing' \subseteq Execution
        BY <2>1, <2>6 DEF TypeOK
    <2>10. /\ now' = 0 /\ runner' = "plan"
           /\ UNCHANGED <<clock, definition, next, edit, wakeAt, signal, starts>>
        BY <1>3 DEF Claim
    <2>11. 0 \in 0..MaxClock
        OBVIOUS
    <2> QED
        BY <2>7, <2>8, <2>9, <2>10, <2>11 DEF TypeOK, RunnerPhases
<1>4. CASE PlanSleep
    <2>1. PICK t \in {clock + MaxSleep} \cup {next[s] : s \in Schedules} : t # NoTime /\ wakeAt' = t
        BY <1>4 DEF PlanSleep
    <2>2. t \in Nat
        BY <2>1 DEF TypeOK, Times
    <2> QED
        BY <1>4, <2>1, <2>2 DEF PlanSleep, TypeOK, RunnerPhases, tables
<1>5. CASE Wake
    BY <1>5 DEF Wake, TypeOK, RunnerPhases, tables
<1>6. CASE Stopped
    BY <1>6 DEF Stopped, TypeOK, RunnerPhases, tables
<1>7. ASSUME NEW e \in executing, Finish(e) PROVE TypeOK'
    <2> DEFINE Done(r) == IF r.schedule = e.schedule /\ r.at = e.at /\ r.owner = e.owner
                          THEN [r EXCEPT !.status = "finished", !.owner = 0, !.lease = 0] ELSE r
    <2>1. runs' = {Done(r) : r \in runs}
        BY <1>7 DEF Finish
    <2>2. ASSUME NEW r \in runs
          PROVE  Done(r) \in Run /\ Done(r).schedule = r.schedule /\ Done(r).at = r.at
        BY DEF TypeOK, Run, Statuses
    <2>3. runs' \subseteq Run
        BY <2>1, <2>2
    <2> HIDE DEF Done
    <2>4. ASSUME NEW q \in runs', NEW r \in runs', q.schedule = r.schedule, q.at = r.at
          PROVE  q = r
        <3>1. PICK y \in runs : q = Done(y)
            BY <2>1
        <3>2. PICK z \in runs : r = Done(z)
            BY <2>1
        <3>3. y = z
            BY <2>2, <2>4, <3>1, <3>2 DEF TypeOK
        <3> QED
            BY <3>1, <3>2, <3>3
    <2> QED
        BY <1>7, <2>3, <2>4 DEF Finish, TypeOK, loop
<1>8. ASSUME NEW e \in executing, FinishFails(e) PROVE TypeOK'
    BY <1>8 DEF FinishFails, TypeOK, tables, loop
<1>9. CASE Shutdown
    BY <1>9 DEF Shutdown, TypeOK, RunnerPhases, tables
<1>10. CASE Crash
    <2>1. 0 \in 0..MaxClock /\ {} \subseteq Execution
        OBVIOUS
    <2> QED
        BY <1>10, <2>1 DEF Crash, TypeOK, RunnerPhases, tables
<1>11. CASE Tick
    BY <1>11 DEF Tick, TypeOK, tables, loop
<1> QED
    BY <1>1, <1>2, <1>3, <1>4, <1>5, <1>6, <1>7, <1>8, <1>9, <1>10, <1>11 DEF Step

LEMMA TypeNext == TypeOK /\ [Next]_vars => TypeOK'
<1>1. ASSUME TypeOK, UNCHANGED vars PROVE TypeOK'
    BY <1>1 DEF TypeOK, vars, tables, loop
<1> QED
    BY <1>1, TypeManage, TypeDelete, TypeLoop DEF Next

LEMMA InitType == Init => TypeOK
<1> SUFFICES ASSUME Init PROVE TypeOK
    OBVIOUS
<1>1. 0 \in 0..MaxClock /\ 0 \in 0..MaxStarts /\ 0 \in Nat
    BY SchedulerAssumption
<1>2. /\ definition \in [Schedules -> Definitions \cup {Absent, Deleted}]
      /\ next \in [Schedules -> Times]
      /\ edit \in [Managers -> Edit \cup {NoEdit}]
    BY DEF Init, Times
<1> QED
    BY <1>1, <1>2 DEF Init, TypeOK, RunnerPhases

\* The tables, calls and executions keep their types, and a schedule has at most
\* one row per trigger (UNIQUE in the migration, enqueue_due_runs,
\* enqueue_manual_run).
THEOREM TypeCorrect == Spec => []TypeOK
BY InitType, TypeNext, PTL DEF Spec

-----------------------------------------------------------------------------
\* The run of an execution, leased to it beyond the end the code sets it.
IsLeased(r, e) ==
    /\ r.schedule = e.schedule /\ r.at = e.at
    /\ r.status = "running" /\ r.owner = e.owner
    /\ r.lease = e.since + MaxRuntime + LeaseMargin

\* Every execution is under a lease that has not ended, and the time the loop
\* works with is not older than the margin.
Leases ==
    /\ \A e \in executing : clock < e.since + MaxRuntime + LeaseMargin
    /\ \A e \in executing : \E r \in runs : IsLeased(r, e)
    /\ runner \in {"enqueue", "claim"} => now <= clock /\ clock < now + LeaseMargin

ExecutionInv == TypeOK /\ Leases /\ NoConcurrentExecution

\* Steps that leave executions and their rows alone.
LEMMA LeasesKept ==
    ASSUME Leases, NoConcurrentExecution,
           executing' = executing, clock' = clock,
           \A e \in executing, r \in runs : IsLeased(r, e) => r \in runs',
           runner' \in {"enqueue", "claim"} =>
               (runner \in {"enqueue", "claim"} /\ now' = now)
    PROVE  Leases' /\ NoConcurrentExecution'
BY DEF Leases, NoConcurrentExecution, IsLeased

LEMMA ManageKeepsLeases ==
    ASSUME ExecutionInv, \/ \E m \in Managers : Manage(m)
                         \/ \E s \in Schedules : Delete(s)
    PROVE  Leases' /\ NoConcurrentExecution'
<1>1. executing' = executing /\ clock' = clock /\ runner' = runner /\ now' = now
    BY DEF Manage, BeginWrite, CommitWrite, BeginUse, CommitEnabled, CommitManual, Delete, loop
<1>2. ASSUME NEW m \in Managers, Manage(m) PROVE runs \subseteq runs'
    <2>1. ASSUME CommitManual(m) PROVE runs \subseteq runs'
        BY <2>1 DEF CommitManual
    <2> QED
        BY <1>2, <2>1 DEF Manage, BeginWrite, CommitWrite, BeginUse, CommitEnabled, tables
<1>3. ASSUME NEW s \in Schedules, Delete(s), NEW e \in executing, NEW r \in runs, IsLeased(r, e)
      PROVE  r \in runs'
    BY <1>3 DEF Delete, ActiveRun, RunsOf, IsLeased, Active
<1>4. \A e \in executing, r \in runs : IsLeased(r, e) => r \in runs'
    BY <1>2, <1>3
<1> QED
    BY <1>1, <1>4, LeasesKept DEF ExecutionInv

LEMMA ClaimKeepsLeases ==
    ASSUME ExecutionInv, Claim
    PROVE  Leases' /\ NoConcurrentExecution'
<1> USE SchedulerAssumption
<1> DEFINE Leased(r) == [r EXCEPT !.status = "running", !.owner = starts, !.lease = LeaseEnd]
           Started(r) == [schedule |-> r.schedule, at |-> r.at, owner |-> starts, since |-> now]
<1>1. PICK K \in SUBSET Claimable :
        /\ runs' = (runs \ K) \cup {Leased(r) : r \in K}
        /\ executing' = executing \cup {Started(r) : r \in K}
    BY DEF Claim
<1>2. /\ clock' = clock /\ clock \in Nat /\ runner' = "plan" /\ runner = "claim"
      /\ now \in Nat /\ now <= clock /\ clock < now + LeaseMargin
    <2>1. clock' = clock /\ runner' = "plan" /\ runner = "claim"
        BY DEF Claim
    <2>2. clock \in Nat /\ now \in Nat
        BY DEF ExecutionInv, TypeOK
    <2> QED
        BY <2>1, <2>2 DEF ExecutionInv, Leases
<1>3. ASSUME NEW r \in K PROVE r \in runs /\ r \in Run /\ ~ (r.status = "running" /\ r.lease > now)
    <2>1. r \in runs /\ (r.status = "queued" \/ r.lease <= now)
        BY DEF Claimable
    <2>2. r \in Run
        BY <2>1 DEF ExecutionInv, TypeOK
    <2> QED
        BY <1>2, <2>1, <2>2 DEF Run
<1>4. ASSUME NEW e \in executing, NEW r \in runs, IsLeased(r, e) PROVE r \notin K
    <2>1. r.status = "running" /\ r.lease = e.since + MaxRuntime + LeaseMargin /\ e.since \in Nat
        BY <1>4 DEF IsLeased, ExecutionInv, TypeOK, Execution
    <2>2. clock < e.since + MaxRuntime + LeaseMargin
        BY DEF ExecutionInv, Leases
    <2> QED
        BY <1>2, <1>3, <2>1, <2>2
<1>5. ASSUME NEW e \in executing, NEW r \in K PROVE ~ (e.schedule = r.schedule /\ e.at = r.at)
    <2>1. PICK l \in runs : IsLeased(l, e)
        BY DEF ExecutionInv, Leases
    <2>2. r \in runs
        BY <1>3
    <2> QED
        BY <1>4, <2>1, <2>2 DEF IsLeased, ExecutionInv, TypeOK
<1>6. ASSUME NEW r \in K
      PROVE  /\ Started(r).since = now /\ IsLeased(Leased(r), Started(r))
             /\ Started(r).schedule = r.schedule /\ Started(r).at = r.at
    BY <1>3 DEF IsLeased, Run, LeaseEnd
<1> HIDE DEF Leased, Started
<1>7. ASSUME NEW e \in executing'
      PROVE  clock < e.since + MaxRuntime + LeaseMargin /\ \E r \in runs' : IsLeased(r, e)
    <2>1. CASE e \in executing
        <3>1. PICK r \in runs : IsLeased(r, e)
            BY <2>1 DEF ExecutionInv, Leases
        <3>2. r \in runs'
            BY <1>1, <1>4, <2>1, <3>1
        <3> QED
            BY <2>1, <3>1, <3>2 DEF ExecutionInv, Leases
    <2>2. CASE e \notin executing
        <3>1. PICK r \in K : e = Started(r)
            BY <1>1, <2>2
        <3>2. Leased(r) \in runs'
            BY <1>1
        <3> QED
            BY <1>2, <1>6, <3>1, <3>2
    <2> QED
        BY <2>1, <2>2
<1>8. ASSUME NEW e \in executing', NEW f \in executing', e.schedule = f.schedule, e.at = f.at
      PROVE  e = f
    <2>1. ASSUME NEW g \in executing' PROVE g \in executing \/ \E r \in K : g = Started(r)
        BY <1>1
    <2>2. ASSUME NEW q \in K, NEW r \in K, e = Started(q), f = Started(r) PROVE e = f
        <3>1. q.schedule = r.schedule /\ q.at = r.at
            BY <1>6, <1>8, <2>2
        <3>2. q = r
            BY <1>3, <3>1 DEF ExecutionInv, TypeOK
        <3> QED
            BY <2>2, <3>2
    <2>3. ASSUME e \in executing, f \in executing PROVE e = f
        BY <1>8, <2>3 DEF ExecutionInv, NoConcurrentExecution
    <2>4. ASSUME NEW r \in K PROVE /\ e \in executing => f # Started(r)
                                   /\ f \in executing => e # Started(r)
        BY <1>5, <1>6, <1>8
    <2> QED
        BY <2>1, <2>2, <2>3, <2>4
<1> QED
    BY <1>2, <1>7, <1>8 DEF Leases, NoConcurrentExecution

LEMMA FinishKeepsLeases ==
    ASSUME ExecutionInv, NEW e \in executing, Finish(e)
    PROVE  Leases' /\ NoConcurrentExecution'
<1>1. executing' = executing \ {e} /\ clock' = clock /\ runner' = runner /\ now' = now
    BY DEF Finish, loop
<1> DEFINE Done(r) == IF r.schedule = e.schedule /\ r.at = e.at /\ r.owner = e.owner
                      THEN [r EXCEPT !.status = "finished", !.owner = 0, !.lease = 0] ELSE r
<1>2. runs' = {Done(r) : r \in runs}
    BY DEF Finish
<1>3. ASSUME NEW f \in executing' PROVE \E r \in runs' : IsLeased(r, f)
    <2>1. PICK r \in runs : IsLeased(r, f)
        BY <1>1 DEF ExecutionInv, Leases
    <2>2. ~ (f.schedule = e.schedule /\ f.at = e.at)
        BY <1>1 DEF ExecutionInv, NoConcurrentExecution
    <2>3. Done(r) = r
        BY <2>1, <2>2 DEF IsLeased
    <2> HIDE DEF Done
    <2> QED
        BY <1>2, <2>1, <2>3
<1> QED
    BY <1>1, <1>3 DEF ExecutionInv, Leases, NoConcurrentExecution

LEMMA ExecutionStep == ExecutionInv /\ [Next]_vars => ExecutionInv'
<1> SUFFICES ASSUME ExecutionInv, [Next]_vars PROVE Leases' /\ NoConcurrentExecution'
    BY TypeNext DEF ExecutionInv
<1> USE SchedulerAssumption
<1>1. CASE UNCHANGED vars
    BY <1>1 DEF ExecutionInv, Leases, NoConcurrentExecution, IsLeased, vars, tables, loop
<1>2. CASE (\E m \in Managers : Manage(m)) \/ (\E s \in Schedules : Delete(s))
    BY <1>2, ManageKeepsLeases
<1>3. CASE Start
    <2>1. clock < clock + LeaseMargin
        BY DEF ExecutionInv, TypeOK
    <2> QED
        BY <1>3, <2>1 DEF Start, ExecutionInv, Leases, NoConcurrentExecution, IsLeased, tables, TypeOK
<1>4. CASE Enqueue
    <2>1. /\ executing' = executing /\ clock' = clock /\ now' = now /\ runner = "enqueue"
          /\ runs \subseteq runs'
        BY <1>4 DEF Enqueue
    <2> QED
        BY <2>1, LeasesKept DEF ExecutionInv
<1>5. CASE Claim
    BY <1>5, ClaimKeepsLeases
<1>6. CASE PlanSleep \/ Stopped \/ Shutdown
    <2>1. /\ executing' = executing /\ clock' = clock /\ runs' = runs
          /\ runner' \notin {"enqueue", "claim"}
        BY <1>6 DEF PlanSleep, Stopped, Shutdown, tables
    <2> QED
        BY <2>1, LeasesKept DEF ExecutionInv
<1>7. CASE Wake
    <2>1. clock < clock + LeaseMargin
        BY DEF ExecutionInv, TypeOK
    <2> QED
        BY <1>7, <2>1 DEF Wake, ExecutionInv, Leases, NoConcurrentExecution, IsLeased, tables, TypeOK
<1>8. ASSUME NEW e \in executing, Finish(e) PROVE Leases' /\ NoConcurrentExecution'
    BY <1>8, FinishKeepsLeases
<1>9. ASSUME NEW e \in executing, FinishFails(e) PROVE Leases' /\ NoConcurrentExecution'
    BY <1>9 DEF FinishFails, ExecutionInv, Leases, NoConcurrentExecution, IsLeased, tables, loop
<1>10. CASE Crash
    BY <1>10 DEF Crash, Leases, NoConcurrentExecution
<1>11. CASE Tick
    <2>1. /\ \A e \in executing : clock + 1 < e.since + MaxRuntime + LeaseMargin
          /\ runner \in {"enqueue", "claim"} => clock + 1 < now + LeaseMargin
          /\ clock' = clock + 1 /\ clock \in Nat /\ now \in Nat
          /\ executing' = executing /\ runs' = runs /\ runner' = runner /\ now' = now
        BY <1>11 DEF Tick, tables, loop, ExecutionInv, TypeOK
    <2>2. \A e \in executing : \E r \in runs : IsLeased(r, e)
        BY DEF ExecutionInv, Leases
    <2>3. runner \in {"enqueue", "claim"} => now <= clock
        BY DEF ExecutionInv, Leases
    <2>4. NoConcurrentExecution'
        BY <2>1 DEF ExecutionInv, NoConcurrentExecution
    <2>5. Leases'
        BY <2>1, <2>2, <2>3 DEF Leases
    <2> QED
        BY <2>4, <2>5
<1> QED
    BY <1>1, <1>2, <1>3, <1>4, <1>5, <1>6, <1>7, <1>8, <1>9, <1>10, <1>11 DEF Next, Step

LEMMA ExecutionInvariant == Spec => []ExecutionInv
<1>1. Init => ExecutionInv
    BY InitType DEF ExecutionInv, Init, Leases, NoConcurrentExecution
<1> QED
    BY <1>1, ExecutionStep, PTL DEF Spec

\* One executor per run (claim_pending_runs, execute_claimed_run): a lease
\* outlasts the runtime limit by the margin, and the loop claims within it.
THEOREM OneExecutor == Spec => []NoConcurrentExecution
<1>1. ExecutionInv => NoConcurrentExecution
    BY DEF ExecutionInv
<1> QED
    BY <1>1, ExecutionInvariant, PTL

\* An execution has its row, running under its own lease: delete_schedule and
\* claim_pending_runs leave it (finish_run will find it).
THEOREM RowsOfExecutions == Spec => []ExecutionsHaveRuns
<1>1. ExecutionInv => ExecutionsHaveRuns
    BY DEF ExecutionInv, Leases, IsLeased, ExecutionsHaveRuns
<1> QED
    BY <1>1, ExecutionInvariant, PTL

-----------------------------------------------------------------------------
\* Rows and calls carry a definition that is allowed for their schedule.
DefinitionsAllowed ==
    /\ \A s \in Schedules : Exists(s) => definition[s] \in Allowed[s]
    /\ \A m \in Managers :
        edit[m] # NoEdit => edit[m].definition \in Allowed[edit[m].schedule]

OverlapInv == TypeOK /\ DefinitionsAllowed /\ OverlapIsSkipped

\* A step after which every active run is one that was active before.
LEMMA OverlapKept ==
    ASSUME TypeOK, TypeOK', OverlapIsSkipped,
           \A r \in runs' : r.status \in Active =>
               \E q \in runs : q.schedule = r.schedule /\ q.at = r.at /\ q.status \in Active
    PROVE  OverlapIsSkipped'
<1> SUFFICES ASSUME NEW s \in Schedules, \A d \in Allowed[s] : d.overlap = "skip",
                    NEW q \in runs', NEW r \in runs', q.schedule = s, r.schedule = s,
                    q.status \in Active, r.status \in Active
             PROVE  q = r
    BY DEF OverlapIsSkipped, RunsOf
<1>1. PICK x \in runs : x.schedule = s /\ x.at = q.at /\ x.status \in Active
    OBVIOUS
<1>2. PICK y \in runs : y.schedule = s /\ y.at = r.at /\ y.status \in Active
    OBVIOUS
<1>3. x = y
    BY <1>1, <1>2 DEF OverlapIsSkipped, RunsOf
<1> QED
    BY <1>1, <1>2, <1>3 DEF TypeOK

\* A step that adds rows, active only where nothing was active or overlap is allowed.
LEMMA OverlapAdded ==
    ASSUME OverlapIsSkipped, NEW New, runs' = runs \cup New,
           \A a, b \in New : a.schedule = b.schedule => a = b,
           \A a \in New : a.status \in Active =>
               \/ ~ ActiveRun(a.schedule)
               \/ \E d \in Allowed[a.schedule] : d.overlap # "skip"
    PROVE  OverlapIsSkipped'
<1> SUFFICES ASSUME NEW s \in Schedules, \A d \in Allowed[s] : d.overlap = "skip",
                    NEW q \in runs', NEW r \in runs', q.schedule = s, r.schedule = s,
                    q.status \in Active, r.status \in Active
             PROVE  q = r
    BY DEF OverlapIsSkipped, RunsOf
<1>1. ASSUME NEW a \in New, NEW b \in runs, a.schedule = s, b.schedule = s,
             a.status \in Active, b.status \in Active
      PROVE  FALSE
    <2>1. ~ ActiveRun(s)
        BY <1>1
    <2> QED
        BY <1>1, <2>1 DEF ActiveRun, RunsOf
<1>2. ASSUME q \in runs, r \in runs PROVE q = r
    BY <1>2 DEF OverlapIsSkipped, RunsOf
<1> QED
    BY <1>1, <1>2

LEMMA DefinitionsStep == TypeOK /\ DefinitionsAllowed /\ [Next]_vars => DefinitionsAllowed'
<1> SUFFICES ASSUME TypeOK, DefinitionsAllowed, [Next]_vars PROVE DefinitionsAllowed'
    OBVIOUS
<1>1. ASSUME UNCHANGED <<definition, edit>> PROVE DefinitionsAllowed'
    BY <1>1 DEF DefinitionsAllowed, Exists
<1>2. ASSUME NEW m \in Managers, NEW s \in Schedules, NEW d \in Allowed[s], NEW on \in BOOLEAN,
             BeginWrite(m, s, d, on)
      PROVE  DefinitionsAllowed'
    BY <1>2 DEF BeginWrite, DefinitionsAllowed, Exists, tables, TypeOK
<1>3. ASSUME NEW m \in Managers, CommitWrite(m) PROVE DefinitionsAllowed'
    <2>1. edit[m].definition \in Allowed[edit[m].schedule]
        BY <1>3 DEF CommitWrite, DefinitionsAllowed
    <2>2. /\ \/ definition' = [definition EXCEPT ![edit[m].schedule] = edit[m].definition]
             \/ definition' = definition
          /\ edit' = [edit EXCEPT ![m] = NoEdit]
        BY <1>3 DEF CommitWrite
    <2>3. \A s \in Schedules : Exists(s)' => definition'[s] \in Allowed[s]
        BY <2>1, <2>2 DEF DefinitionsAllowed, Exists, TypeOK
    <2>4. \A n \in Managers : edit'[n] # NoEdit => edit'[n].definition \in Allowed[edit'[n].schedule]
        BY <2>2 DEF DefinitionsAllowed, TypeOK
    <2> QED
        BY <2>3, <2>4 DEF DefinitionsAllowed
<1>4. ASSUME NEW m \in Managers, NEW s \in Schedules, NEW op, BeginUse(m, s, op)
      PROVE  DefinitionsAllowed'
    <2>1. /\ definition[s] \in Allowed[s] /\ definition' = definition
          /\ edit'[m].schedule = s /\ edit'[m].definition = definition[s]
          /\ \A n \in Managers : n # m => edit'[n] = edit[n]
        BY <1>4 DEF BeginUse, DefinitionsAllowed, tables, TypeOK
    <2> QED
        BY <2>1 DEF DefinitionsAllowed, Exists
<1>5. ASSUME NEW m \in Managers, CommitEnabled(m) \/ CommitManual(m) PROVE DefinitionsAllowed'
    BY <1>5 DEF CommitEnabled, CommitManual, DefinitionsAllowed, Exists, TypeOK
<1>6. ASSUME NEW s \in Schedules, Delete(s) PROVE DefinitionsAllowed'
    BY <1>6 DEF Delete, DefinitionsAllowed, Exists, TypeOK
<1>7. CASE \/ UNCHANGED vars
           \/ \E e \in executing : Finish(e) \/ FinishFails(e)
           \/ Start \/ Step \/ Shutdown \/ Crash \/ Tick
    BY <1>1, <1>7 DEF Finish, FinishFails, Start, Step, Enqueue, Claim, PlanSleep, Wake, Stopped,
                      Shutdown, Crash, Tick, vars, tables
<1> QED
    BY <1>2, <1>3, <1>4, <1>5, <1>6, <1>7 DEF Next, Manage

LEMMA OverlapStep == OverlapInv /\ [Next]_vars => OverlapInv'
<1> SUFFICES ASSUME OverlapInv, [Next]_vars, TypeOK' PROVE OverlapIsSkipped'
    BY TypeNext, DefinitionsStep DEF OverlapInv
<1>1. ASSUME runs' \subseteq runs PROVE OverlapIsSkipped'
    BY <1>1 DEF OverlapInv, OverlapIsSkipped, RunsOf
<1>2. ASSUME NEW m \in Managers, CommitManual(m) PROVE OverlapIsSkipped'
    <2> DEFINE s == edit[m].schedule
    <2>1. PICK t \in ManualTimes(s, edit[m].at) :
            runs' = IF Exists(s) /\ ~ RowExists(s, t)
                    THEN runs \cup {Row(s, t, ManualSkipped(m))} ELSE runs
        BY <1>2 DEF CommitManual
    <2>2. CASE runs' = runs
        BY <1>1, <2>2
    <2>3. CASE runs' = runs \cup {Row(s, t, ManualSkipped(m))}
        <3>1. edit[m].definition \in Allowed[s]
            BY <1>2 DEF CommitManual, OverlapInv, DefinitionsAllowed
        <3>2. ASSUME Row(s, t, ManualSkipped(m)).status \in Active
              PROVE  ~ ActiveRun(s) \/ edit[m].definition.overlap # "skip"
            BY <3>2 DEF Row, Active, ManualSkipped
        <3>3. Row(s, t, ManualSkipped(m)).schedule = s
            BY DEF Row
        <3> DEFINE New == {Row(s, t, ManualSkipped(m))}
        <3>4. \A a \in New : a.status \in Active =>
                \/ ~ ActiveRun(a.schedule)
                \/ \E d \in Allowed[a.schedule] : d.overlap # "skip"
            BY <3>1, <3>2, <3>3
        <3>5. OverlapIsSkipped /\ runs' = runs \cup New /\ \A a, b \in New : a.schedule = b.schedule => a = b
            BY <2>3 DEF OverlapInv
        <3> HIDE DEF New
        <3> QED
            BY <3>4, <3>5, OverlapAdded
    <2> QED
        BY <2>1, <2>2, <2>3
<1>3. CASE Enqueue
    <2>1. CASE runs' = runs
        BY <1>1, <2>1
    <2> DEFINE Triggered(s) == Row(s, next[s], SkippedTrigger(s))
    <2>2. CASE runs' = runs \cup {Triggered(s) : s \in Due}
        <3>1. ASSUME NEW s \in Due
              PROVE  /\ Triggered(s).schedule = s
                     /\ Triggered(s).status \in Active =>
                            ~ ActiveRun(s) \/ definition[s].overlap # "skip"
                     /\ definition[s] \in Allowed[s]
            BY DEF Row, Active, SkippedTrigger, Due, OverlapInv, DefinitionsAllowed
        <3> DEFINE New == {Triggered(s) : s \in Due}
        <3> HIDE DEF Triggered
        <3>2. \A a \in New : a.status \in Active =>
                \/ ~ ActiveRun(a.schedule)
                \/ \E d \in Allowed[a.schedule] : d.overlap # "skip"
            BY <3>1
        <3>3. OverlapIsSkipped /\ runs' = runs \cup New /\ \A a, b \in New : a.schedule = b.schedule => a = b
            BY <2>2, <3>1 DEF OverlapInv
        <3> HIDE DEF New
        <3> QED
            BY <3>2, <3>3, OverlapAdded
    <2> QED
        BY <1>3, <2>1, <2>2 DEF Enqueue
<1>4. CASE Claim
    <2> DEFINE Leased(r) == [r EXCEPT !.status = "running", !.owner = starts, !.lease = LeaseEnd]
    <2>1. PICK K \in SUBSET Claimable : runs' = (runs \ K) \cup {Leased(r) : r \in K}
        BY <1>4 DEF Claim
    <2>2. ASSUME NEW r \in K
          PROVE  /\ r \in runs /\ r.status \in Active
                 /\ Leased(r).schedule = r.schedule /\ Leased(r).at = r.at
        BY DEF Claimable, Active, OverlapInv, TypeOK, Run
    <2> HIDE DEF Leased
    <2>3. \A r \in runs' : r.status \in Active =>
            \E q \in runs : q.schedule = r.schedule /\ q.at = r.at /\ q.status \in Active
        BY <2>1, <2>2
    <2> QED
        BY <2>3, OverlapKept DEF OverlapInv
<1>5. ASSUME NEW e \in executing, Finish(e) PROVE OverlapIsSkipped'
    <2> DEFINE Done(r) == IF r.schedule = e.schedule /\ r.at = e.at /\ r.owner = e.owner
                          THEN [r EXCEPT !.status = "finished", !.owner = 0, !.lease = 0] ELSE r
    <2>1. runs' = {Done(r) : r \in runs}
        BY <1>5 DEF Finish
    <2>2. ASSUME NEW r \in runs, Done(r).status \in Active
          PROVE  Done(r) = r
        BY <2>2 DEF Active, OverlapInv, TypeOK, Run
    <2> HIDE DEF Done
    <2>3. \A r \in runs' : r.status \in Active => r \in runs
        BY <2>1, <2>2
    <2> QED
        BY <2>3, OverlapKept DEF OverlapInv
<1>6. CASE \/ UNCHANGED vars
           \/ \E e \in executing : FinishFails(e)
           \/ Start \/ PlanSleep \/ Wake \/ Stopped \/ Shutdown \/ Crash \/ Tick
           \/ \E s \in Schedules : Delete(s)
    BY <1>1, <1>6 DEF FinishFails, Start, PlanSleep, Wake, Stopped, Shutdown, Crash, Tick,
                      Delete, vars, tables
<1>7. ASSUME NEW m \in Managers, Manage(m) PROVE OverlapIsSkipped'
    BY <1>1, <1>2, <1>7 DEF Manage, BeginWrite, CommitWrite, BeginUse, CommitEnabled, tables
<1> QED
    BY <1>3, <1>4, <1>5, <1>6, <1>7 DEF Next, Step

\* No overlap under policy "skip" (enqueue_due_runs, enqueue_manual_run): both
\* look for active runs in the transaction that adds theirs, and definitions in
\* flight are allowed for their schedule.
THEOREM NoOverlap == Spec => []OverlapIsSkipped
<1>1. Init => OverlapInv
    BY InitType DEF Init, OverlapInv, DefinitionsAllowed, OverlapIsSkipped, RunsOf, Exists
<1>2. OverlapInv => OverlapIsSkipped
    BY DEF OverlapInv
<1> QED
    BY <1>1, <1>2, OverlapStep, PTL DEF Spec
-----------------------------------------------------------------------------
\* The tables are finite, which counting rows and executions needs.
Counted ==
    /\ IsFiniteSet(runs) /\ IsFiniteSet(executing)
    /\ Cardinality(executing) <= MaxConcurrency

ConcurrencyInv == TypeOK /\ Counted

\* At most as many runs are claimed as there are permits, and each becomes one
\* execution; the rows stay as many as they were.
LEMMA ClaimCounts ==
    ASSUME ConcurrencyInv, Claim
    PROVE  Counted'
<1> USE SchedulerAssumption
<1> DEFINE Leased(r) == [r EXCEPT !.status = "running", !.owner = starts, !.lease = LeaseEnd]
           Started(r) == [schedule |-> r.schedule, at |-> r.at, owner |-> starts, since |-> now]
<1>1. PICK K \in SUBSET Claimable :
        /\ Claimed(K)
        /\ runs' = (runs \ K) \cup {Leased(r) : r \in K}
        /\ executing' = executing \cup {Started(r) : r \in K}
    BY DEF Claim
<1>2. IsFiniteSet(runs) /\ IsFiniteSet(executing)
    BY DEF ConcurrencyInv, Counted
<1>3. IsFiniteSet(K) /\ K \subseteq runs
    BY <1>2, FS_Subset DEF Claimable
<1>4. Cardinality(K) <= MaxConcurrency - Cardinality(executing)
    BY <1>1 DEF Claimed
<1> HIDE DEF Leased, Started
<1> DEFINE leased == [r \in K |-> Leased(r)]
           started == [r \in K |-> Started(r)]
           L == {leased[r] : r \in K}
           X == {started[r] : r \in K}
<1>5. runs' = (runs \ K) \cup L /\ executing' = executing \cup X
    BY <1>1
<1>6. leased \in Surjection(K, L) /\ started \in Surjection(K, X)
    BY DEF Surjection
<1> HIDE DEF leased, started, L, X
<1>7. /\ IsFiniteSet(L)
      /\ IsFiniteSet(X) /\ Cardinality(X) <= Cardinality(K)
    BY <1>3, <1>6, FS_Surjection
<1>8. IsFiniteSet(runs')
    BY <1>2, <1>5, <1>7, FS_Difference, FS_Union
<1>9. IsFiniteSet(executing \cap X)
    BY <1>2, FS_Intersection
<1>10. /\ IsFiniteSet(executing')
       /\ Cardinality(executing') = Cardinality(executing) + Cardinality(X) - Cardinality(executing \cap X)
    BY <1>2, <1>5, <1>7, FS_Union
<1>11. /\ Cardinality(executing) \in Nat /\ Cardinality(X) \in Nat
       /\ Cardinality(executing \cap X) \in Nat /\ Cardinality(K) \in Nat
    BY <1>2, <1>3, <1>7, <1>9, FS_CardinalityType
<1>12. Cardinality(executing') <= MaxConcurrency
    BY <1>4, <1>7, <1>10, <1>11
<1> QED
    BY <1>8, <1>10, <1>12 DEF Counted

\* An execution that ends is not counted any more.
LEMMA FewerCounted ==
    ASSUME ConcurrencyInv, IsFiniteSet(runs'), executing' \subseteq executing
    PROVE  Counted'
<1>1. /\ IsFiniteSet(executing) /\ Cardinality(executing) \in Nat
      /\ Cardinality(executing) <= MaxConcurrency
    BY FS_CardinalityType DEF ConcurrencyInv, Counted
<1>2. IsFiniteSet(executing') /\ Cardinality(executing') <= Cardinality(executing)
    BY <1>1, FS_Subset
<1>3. Cardinality(executing') \in Nat
    BY <1>2, FS_CardinalityType
<1> QED
    BY <1>1, <1>2, <1>3, SchedulerAssumption DEF Counted

LEMMA ConcurrencyStep == ConcurrencyInv /\ [Next]_vars => ConcurrencyInv'
<1> SUFFICES ASSUME ConcurrencyInv, [Next]_vars PROVE Counted'
    BY TypeNext DEF ConcurrencyInv
<1>1. IsFiniteSet(runs)
    BY DEF ConcurrencyInv, Counted
<1>2. ASSUME NEW m \in Managers, Manage(m) PROVE Counted'
    <2>1. executing' = executing
        BY <1>2 DEF Manage, BeginWrite, CommitWrite, BeginUse, CommitEnabled, CommitManual, loop
    <2>2. CASE CommitManual(m)
        <3>1. runs' = runs \/ \E t : runs' = runs \cup {Row(edit[m].schedule, t, ManualSkipped(m))}
            BY <2>2 DEF CommitManual
        <3>2. IsFiniteSet(runs')
            BY <1>1, <3>1, FS_AddElement
        <3> QED
            BY <2>1, <3>2, FewerCounted
    <2>3. CASE ~ CommitManual(m)
        <3>1. runs' = runs
            BY <1>2, <2>3 DEF Manage, BeginWrite, CommitWrite, BeginUse, CommitEnabled, tables
        <3> QED
            BY <1>1, <2>1, <3>1, FewerCounted
    <2> QED
        BY <2>2, <2>3
<1>3. ASSUME NEW s \in Schedules, Delete(s) PROVE Counted'
    <2>1. runs' \subseteq runs /\ executing' = executing
        BY <1>3 DEF Delete
    <2>2. IsFiniteSet(runs')
        BY <1>1, <2>1, FS_Subset
    <2> QED
        BY <2>1, <2>2, FewerCounted
<1>4. ASSUME NEW e \in executing, Finish(e) PROVE Counted'
    <2> DEFINE Done(r) == IF r.schedule = e.schedule /\ r.at = e.at /\ r.owner = e.owner
                          THEN [r EXCEPT !.status = "finished", !.owner = 0, !.lease = 0] ELSE r
    <2>1. runs' = {Done(r) : r \in runs} /\ executing' \subseteq executing
        BY <1>4 DEF Finish
    <2> HIDE DEF Done
    <2> DEFINE done == [r \in runs |-> Done(r)]
               R == {done[r] : r \in runs}
    <2>2. runs' = R /\ done \in Surjection(runs, R)
        BY <2>1 DEF Surjection
    <2> HIDE DEF done, R
    <2>3. IsFiniteSet(R)
        BY <1>1, <2>2, FS_Surjection
    <2> QED
        BY <2>1, <2>2, <2>3, FewerCounted
<1>5. CASE Enqueue
    <2>1. executing' = executing
        BY <1>5 DEF Enqueue
    <2> DEFINE row == [s \in Due |-> Row(s, next[s], SkippedTrigger(s))]
               R == {row[s] : s \in Due}
    <2>2. runs' = runs \/ runs' = runs \cup R
        BY <1>5 DEF Enqueue
    <2>3. row \in Surjection(Due, R)
        BY DEF Surjection
    <2>4. IsFiniteSet(Due)
        BY FiniteAssumption, FS_Subset DEF Due
    <2> HIDE DEF row, R
    <2>5. IsFiniteSet(R)
        BY <2>3, <2>4, FS_Surjection
    <2>6. IsFiniteSet(runs')
        BY <1>1, <2>2, <2>5, FS_Union
    <2> QED
        BY <2>1, <2>6, FewerCounted
<1>6. CASE Claim
    BY <1>6, ClaimCounts
<1>7. CASE \/ \E e \in executing : FinishFails(e)
           \/ Start \/ PlanSleep \/ Wake \/ Stopped \/ Shutdown \/ Crash \/ Tick
           \/ UNCHANGED vars
    <2>1. runs' = runs /\ executing' \subseteq executing
        BY <1>7 DEF FinishFails, Start, PlanSleep, Wake, Stopped, Shutdown, Crash, Tick, vars, tables
    <2> QED
        BY <1>1, <2>1, FewerCounted
<1> QED
    BY <1>2, <1>3, <1>4, <1>5, <1>6, <1>7 DEF Next, Step

LEMMA ConcurrencyInvariant == Spec => []ConcurrencyInv
<1>1. Init => ConcurrencyInv
    <2>1. IsFiniteSet({}) /\ Cardinality({}) = 0
        BY FS_EmptySet
    <2> QED
        BY <2>1, InitType, SchedulerAssumption DEF Init, ConcurrencyInv, Counted
<1> QED
    BY <1>1, ConcurrencyStep, PTL DEF Spec

\* The semaphore of the loop is never short (run_scheduler, claim_pending_runs):
\* as many runs are claimed as it has permits left, so no lease runs down while
\* its execution waits.
THEOREM ConcurrencyBounded == Spec => []WithinConcurrency
<1>1. ConcurrencyInv => WithinConcurrency
    BY DEF ConcurrencyInv, Counted, WithinConcurrency
<1> QED
    BY <1>1, ConcurrencyInvariant, PTL

\* Every manual run that is asked for while its schedule exists gets a row of its
\* own (enqueue_manual_run): the trigger time is moved behind all the rows there
\* are, so UNIQUE never refuses it.
THEOREM ManualRunsRecorded == Spec => ManualRunsAreRecorded
<1> DEFINE Recorded == \A m \in Managers :
        (/\ edit[m] # NoEdit /\ edit'[m] = NoEdit
         /\ edit[m].op = "manual" /\ Exists(edit[m].schedule))
        => Cardinality(runs') = Cardinality(runs) + 1
<1>1. ASSUME ConcurrencyInv, Next PROVE Recorded
    <2> SUFFICES ASSUME NEW m \in Managers, edit[m] # NoEdit, edit'[m] = NoEdit,
                        edit[m].op = "manual", Exists(edit[m].schedule)
                 PROVE  Cardinality(runs') = Cardinality(runs) + 1
        OBVIOUS
    <2> DEFINE s == edit[m].schedule
    <2>1. CommitManual(m)
        <3>1. PICK n \in Managers : Manage(n) /\ edit' # edit
            BY <1>1 DEF Next, Delete, Finish, FinishFails, Start, Step, Enqueue, Claim, PlanSleep,
                        Wake, Stopped, Shutdown, Crash, Tick
        <3>2. \E x : edit' = [edit EXCEPT ![n] = x]
            BY <3>1 DEF Manage, BeginWrite, CommitWrite, BeginUse, CommitEnabled, CommitManual
        <3>3. n = m
            BY <1>1, <3>2 DEF ConcurrencyInv, TypeOK
        <3> QED
            BY <3>1, <3>3 DEF Manage, BeginWrite, CommitWrite, BeginUse, CommitEnabled
    <2>2. PICK t \in ManualTimes(s, edit[m].at) :
            runs' = IF Exists(s) /\ ~ RowExists(s, t)
                    THEN runs \cup {Row(s, t, ManualSkipped(m))} ELSE runs
        BY <2>1 DEF CommitManual
    <2>3. edit[m].at \in Nat
        BY <1>1, <2>1 DEF CommitManual, ConcurrencyInv, TypeOK, Edit
    <2>4. \A r \in RunsOf(s) : r.at \in Nat
        BY <1>1 DEF RunsOf, ConcurrencyInv, TypeOK, Run
    <2>5. \A r \in RunsOf(s) : t # r.at
        BY <2>2, <2>3, <2>4 DEF ManualTimes
    <2>6. ~ RowExists(s, t) /\ Row(s, t, ManualSkipped(m)) \notin runs
        BY <2>5 DEF RowExists, RunsOf, Row
    <2> QED
        BY <1>1, <2>2, <2>6, FS_AddElement DEF ConcurrencyInv, Counted
<1> QED
    BY <1>1, ConcurrencyInvariant, PTL DEF Spec, ManualRunsAreRecorded
=============================================================================
