-------------------------- MODULE DiscoveryProofs --------------------------
(***************************************************************************)
(* Proofs about Discovery for any number of targets, scans and troubles.   *)
(***************************************************************************)
EXTENDS Discovery, FiniteSetTheorems, TLAPS

\* Runs are numbered in the order of their starts, and the row is the last one's.
Numbered == row.id = last /\ \A r \in Runs : worker[r] = "new" <=> r > last

\* The counters of a worker that executes.
Agree(r) ==
    /\ worker[r] \in {"new", "begin"} \cup Starting => found[r] = Zero
    /\ worker[r] \in Executing =>
        found[r].probed <= found[r].reachable /\ found[r].reachable <= found[r].scanned
    /\ worker[r] \in {"probe", "probed"} => found[r].scanned = TotalTargets
CountersAgree == \A r \in Runs : Agree(r)

\* Until it has ended, the worker of the row has counted its results.
CountedBy(r) == row.id = r /\ worker[r] \in Starting \cup Executing => results = found[r]
ResultsCounted == \A r \in Runs : CountedBy(r)

\* A lease task ends before anything else that follows the execution.
KeepersWork == \A r \in keeping : worker[r] \in Executing \cup {"ended", "broken"}

\* The row has the lease while anybody is to keep it.
LeaseOfRow ==
    /\ lease.fresh => lease.run # NoRun
    /\ \A r \in Runs : row.id = r /\ (worker[r] \in Starting \/ r \in keeping) => lease.run = r

\* A worker that may still change the row has not written a last status.
EndedBy(r) ==
    row.id = r /\ row.status \in {"completed", "failed"} =>
        worker[r] \notin Starting \cup Executing \cup {"broken", "reload", "fail"}
EndWritten == \A r \in Runs : EndedBy(r)

\* Who has not asked for a cancellation has none in progress.
Quiet == asked = 0 => request = NoRequest

\* Without trouble, whoever starts or scans has the row and a fresh lease.
HasRow(r) ==
    worker[r] \in Starting \cup Executing =>
        /\ row.id = r /\ row.status \in {"queued", "running"}
        /\ lease = [run |-> r, fresh |-> TRUE]
        /\ worker[r] \in Executing => r \in keeping
Undisturbed == ~ late /\ asked = 0 => \A r \in Runs : HasRow(r)

\* What the worker is about to record, or has recorded.
RecordedBy(r) ==
    /\ tasks[r] \in {"success", "failed"} => worker[r] \in {"release", "gone"}
    /\ row.id = r /\ worker[r] = "regret" => row.status # "completed"
    /\ row.id = r /\ worker[r] = "succeed" /\ asked = 0 => row.status = "completed"
Recorded == \A r \in Runs : RecordedBy(r)

IInv ==
    /\ TypeOK /\ Numbered /\ CountersAgree /\ ResultsCounted /\ KeepersWork
    /\ LeaseOfRow /\ EndWritten /\ Quiet /\ Undisturbed /\ Recorded
    /\ CompletedIsComplete /\ TaskEntryIsTrue

Own(p) == Launch(p) \/ Execute(p) \/ Close(p)

\* A step of one worker leaves the others alone.
LEMMA OwnStep ==
    ASSUME TypeOK, NEW p \in Runs, Own(p), NEW r \in Runs \ {p}
    PROVE  worker'[r] = worker[r] /\ found'[r] = found[r] /\ tasks'[r] = tasks[r]
<1> USE DEF TypeOK
<1>1. CASE Launch(p)
    BY <1>1 DEF Launch, Accept, Register, Abandon, Step, database
<1>2. CASE Begin(p) \/ Report(p) \/ EndScan(p) \/ Complete(p) \/ FinishCancelled(p)
    BY <1>2 DEF Begin, Report, EndScan, Complete, FinishCancelled, Step
<1>3. CASE Scan(p)
    BY <1>3 DEF Scan, Upsert
<1>4. CASE Probe(p)
    BY <1>4 DEF Probe, Upsert
<1>5. CASE Drop(p) \/ Break(p) \/ Panic(p)
    BY <1>5 DEF Drop, Break, Panic, Step, Forget, database
<1>6. CASE StopLease(p) \/ Reload(p) \/ Fail(p)
    BY <1>6 DEF StopLease, Reload, Fail, Step, Forget, database
<1>7. CASE Record(p) \/ SaveCallback(p) \/ Release(p)
    BY <1>7 DEF Record, SaveCallback, Release, Step, database
<1> QED
    BY <1>1, <1>2, <1>3, <1>4, <1>5, <1>6, <1>7 DEF Own, Execute, Close

\* It writes to the row and to the results only if the row is its own.
LEMMA OwnRow ==
    ASSUME TypeOK, NEW p \in Runs, Own(p)
    PROVE  row'.id = row.id /\ (row.id # p => row' = row /\ results' = results) /\ asked' = asked
<1> USE DEF TypeOK
<1>1. CASE Launch(p)
    BY <1>1 DEF Launch, Accept, Register, Abandon, database
<1>2. CASE Begin(p) \/ Report(p) \/ EndScan(p) \/ Complete(p) \/ FinishCancelled(p)
    BY <1>2 DEF Begin, Report, EndScan, Complete, FinishCancelled, Update
<1>3. CASE Scan(p) \/ Probe(p)
    BY <1>3 DEF Scan, Probe, Upsert
<1>4. CASE Drop(p) \/ Break(p) \/ Panic(p)
    BY <1>4 DEF Drop, Break, Panic, database
<1>5. CASE StopLease(p) \/ Reload(p) \/ Fail(p)
    BY <1>5 DEF StopLease, Reload, Fail, Update, database
<1>6. CASE Record(p) \/ SaveCallback(p) \/ Release(p)
    BY <1>6 DEF Record, SaveCallback, Release, database
<1> QED
    BY <1>1, <1>2, <1>3, <1>4, <1>5, <1>6 DEF Own, Execute, Close

-----------------------------------------------------------------------------
\* Every step preserves every conjunct.

\* Each target and each probe is counted once, and probes begin when all targets are counted.
LEMMA StepCounters ==
    ASSUME TypeOK, Numbered, CountersAgree, [Next]_vars
    PROVE  CountersAgree'
<1> USE DEF TypeOK, Agree, Starting, Executing, Counters, Zero
<1>1. ASSUME NEW p \in Runs, Own(p) PROVE CountersAgree'
    <2>1. \A r \in Runs \ {p} : Agree(r)'
        BY <1>1, OwnStep DEF CountersAgree
    <2>2. Agree(p)
        BY DEF CountersAgree
    <2>3. CASE Launch(p)
        BY <2>1, <2>2, <2>3 DEF CountersAgree, Launch, Accept, Register, Abandon, Step
    <2>4. CASE Begin(p) \/ Report(p) \/ EndScan(p) \/ Complete(p) \/ FinishCancelled(p)
        <3> Agree(p)'
            BY <2>2, <2>4 DEF Begin, Report, EndScan, Complete, FinishCancelled, Step
        <3> QED
            BY <2>1 DEF CountersAgree
    <2>5. CASE Scan(p)
        <3> Agree(p)'
            BY <2>2, <2>5, DiscoveryAssumption DEF Scan, Upsert, Counted
        <3> QED
            BY <2>1 DEF CountersAgree
    <2>6. CASE Probe(p)
        <3> Agree(p)'
            BY <2>2, <2>6, DiscoveryAssumption DEF Probe, Upsert, Probed
        <3> QED
            BY <2>1 DEF CountersAgree
    <2>7. CASE Drop(p) \/ Break(p) \/ Panic(p)
        <3> Agree(p)'
            BY <2>2, <2>7 DEF Drop, Break, Panic, Step, Forget
        <3> QED
            BY <2>1 DEF CountersAgree
    <2>8. CASE Close(p)
        <3> Agree(p)'
            BY <2>2, <2>8 DEF Close, StopLease, Reload, Fail, Record, SaveCallback, Release, Step
        <3> QED
            BY <2>1 DEF CountersAgree
    <2> QED
        BY <1>1, <2>3, <2>4, <2>5, <2>6, <2>7, <2>8 DEF Own, Execute
<1>2. ASSUME NEW r \in Runs, \/ Start \/ Expire \/ Cancel \/ ProcessEnds \/ UNCHANGED vars
                             \/ \E p \in Runs : Refresh(p) \/ Interrupt(p)
      PROVE  Agree(r)'
    <2>1. Agree(r)
        BY DEF CountersAgree
    <2>2. CASE Start
        BY <2>1, <2>2, DiscoveryAssumption DEF Start, Numbered, Runs
    <2>3. CASE ProcessEnds
        BY <2>1, <2>3 DEF ProcessEnds, Forget
    <2>4. CASE Expire \/ Cancel \/ UNCHANGED vars \/ \E p \in Runs : Refresh(p) \/ Interrupt(p)
        BY <2>1, <2>4 DEF Expire, Cancel, CancelRead, CancelSignal, CancelWrite, CancelDrop, Refresh, Interrupt, memory, vars
    <2> QED
        BY <1>2, <2>2, <2>3, <2>4
<1> QED
    BY <1>1, <1>2 DEF Next, Own, CountersAgree

\* A start takes the next number; nobody else writes the id of the row.
LEMMA StepNumbered ==
    ASSUME TypeOK, Numbered, [Next]_vars
    PROVE  Numbered'
<1> USE DEF TypeOK, Numbered
<1>1. CASE Start
    BY <1>1, DiscoveryAssumption DEF Start, Runs
<1>2. ASSUME NEW p \in Runs, Own(p) PROVE Numbered'
    <2>1. worker[p] # "new" /\ worker'[p] # "new" /\ last' = last
        <3>1. CASE Launch(p)
            BY <1>2, <3>1 DEF Launch, Accept, Register, Abandon, Step, Starting
        <3>2. CASE Begin(p) \/ Report(p) \/ EndScan(p) \/ Complete(p) \/ FinishCancelled(p)
            BY <3>2 DEF Begin, Report, EndScan, Complete, FinishCancelled, Step
        <3>3. CASE Scan(p) \/ Probe(p)
            BY <3>3 DEF Scan, Probe, Upsert
        <3>4. CASE Drop(p) \/ Break(p) \/ Panic(p)
            BY <3>4 DEF Drop, Break, Panic, Step, Executing
        <3>5. CASE Close(p)
            BY <3>5 DEF Close, StopLease, Reload, Fail, Record, SaveCallback, Release, Step
        <3> QED
            BY <1>2, <3>1, <3>2, <3>3, <3>4, <3>5 DEF Own, Execute
    <2> QED
        BY <1>2, <2>1, OwnStep, OwnRow
<1>3. CASE CancelWrite
    BY <1>3 DEF CancelWrite, Update
<1>4. CASE ProcessEnds
    BY <1>4 DEF ProcessEnds, database
<1>5. CASE Expire \/ CancelRead \/ CancelSignal \/ CancelDrop \/ UNCHANGED vars
           \/ \E p \in Runs : Refresh(p) \/ Interrupt(p)
    BY <1>5 DEF Expire, CancelRead, CancelSignal, CancelDrop, Refresh, Interrupt, database, memory, vars
<1> QED
    BY <1>1, <1>2, <1>3, <1>4, <1>5 DEF Next, Own, Cancel

\* upsert_result writes what the worker has counted, and refuses a worker that was replaced.
LEMMA StepResults ==
    ASSUME TypeOK, Numbered, CountersAgree, ResultsCounted, [Next]_vars
    PROVE  ResultsCounted'
<1> USE DEF TypeOK, CountedBy, Starting, Executing
<1>1. ASSUME NEW p \in Runs, Own(p) PROVE ResultsCounted'
    <2>1. \A r \in Runs \ {p} : CountedBy(r)'
        BY <1>1, OwnStep, OwnRow DEF ResultsCounted
    <2>2. CountedBy(p) /\ Agree(p)
        BY DEF ResultsCounted, CountersAgree
    <2>3. CountedBy(p)'
        <3>1. CASE Launch(p)
            BY <2>2, <3>1 DEF Launch, Accept, Register, Abandon, Step, database
        <3>2. CASE Begin(p) \/ Report(p) \/ EndScan(p) \/ Complete(p) \/ FinishCancelled(p)
            BY <2>2, <3>2 DEF Begin, Report, EndScan, Complete, FinishCancelled, Step, Update
        <3>3. CASE Scan(p)
            BY <2>2, <3>3 DEF Scan, Upsert
        <3>4. CASE Probe(p)
            BY <2>2, <3>4 DEF Probe, Upsert
        <3>5. CASE Drop(p) \/ Break(p) \/ Panic(p)
            BY <2>2, <3>5 DEF Drop, Break, Panic, Step, database
        <3>6. CASE Close(p)
            BY <2>2, <3>6 DEF Close, StopLease, Reload, Fail, Record, SaveCallback, Release, Step
        <3> QED
            BY <1>1, <3>1, <3>2, <3>3, <3>4, <3>5, <3>6 DEF Own, Execute
    <2> QED
        BY <2>1, <2>3 DEF ResultsCounted
<1>2. CASE Start
    <2>1. last' \in Runs => found[last'] = Zero
        BY <1>2, DiscoveryAssumption DEF Start, Numbered, CountersAgree, Agree, Runs
    <2> QED
        BY <1>2, <2>1 DEF Start, ResultsCounted
<1>3. CASE ProcessEnds
    BY <1>3 DEF ProcessEnds, Forget, ResultsCounted
<1>4. CASE CancelWrite
    BY <1>4 DEF CancelWrite, Update, ResultsCounted
<1>5. CASE Expire \/ CancelRead \/ CancelSignal \/ CancelDrop \/ UNCHANGED vars
           \/ \E p \in Runs : Refresh(p) \/ Interrupt(p)
    BY <1>5 DEF Expire, CancelRead, CancelSignal, CancelDrop, Refresh, Interrupt, database, memory, vars,
                ResultsCounted
<1> QED
    BY <1>1, <1>2, <1>3, <1>4, <1>5 DEF Next, Own, Cancel

\* Whatever ends an execution, the lease task ends before the worker goes on.
LEMMA StepKeepers ==
    ASSUME TypeOK, Numbered, KeepersWork, [Next]_vars
    PROVE  KeepersWork'
<1> USE DEF TypeOK, Executing
<1>1. ASSUME NEW p \in Runs, Own(p) PROVE KeepersWork'
    <2>1. \A r \in Runs \ {p} : worker'[r] = worker[r]
        BY <1>1, OwnStep
    <2>2. keeping' \subseteq keeping \cup {p}
          /\ (p \in keeping' => worker'[p] \in Executing \cup {"ended", "broken"})
        <3>1. CASE Launch(p)
            BY <3>1 DEF KeepersWork, Launch, Accept, Register, Abandon, Step, Starting
        <3>2. CASE Begin(p) \/ Report(p) \/ EndScan(p) \/ Complete(p) \/ FinishCancelled(p)
            BY <3>2 DEF Begin, Report, EndScan, Complete, FinishCancelled, Step
        <3>3. CASE Scan(p) \/ Probe(p)
            BY <3>3 DEF Scan, Probe, Upsert
        <3>4. CASE Drop(p) \/ Break(p) \/ Panic(p)
            BY <3>4 DEF Drop, Break, Panic, Step
        <3>5. CASE Close(p)
            BY <3>5 DEF KeepersWork, Close, StopLease, Reload, Fail, Record, SaveCallback, Release, Step
        <3> QED
            BY <1>1, <3>1, <3>2, <3>3, <3>4, <3>5 DEF Own, Execute
    <2> QED
        BY <2>1, <2>2 DEF KeepersWork
<1>2. CASE Start
    BY <1>2, DiscoveryAssumption DEF Start, Numbered, KeepersWork, Runs
<1>3. CASE ProcessEnds
    BY <1>3 DEF ProcessEnds, KeepersWork
<1>4. CASE Expire \/ Cancel \/ UNCHANGED vars \/ \E p \in Runs : Refresh(p) \/ Interrupt(p)
    BY <1>4 DEF Expire, Cancel, CancelRead, CancelSignal, CancelWrite, CancelDrop, Refresh, Interrupt,
                memory, vars, KeepersWork
<1> QED
    BY <1>1, <1>2, <1>3, <1>4 DEF Next, Own

\* release_run_lease of an older worker leaves the lease of the latest run alone.
LEMMA StepLease ==
    ASSUME TypeOK, Numbered, KeepersWork, LeaseOfRow, [Next]_vars
    PROVE  LeaseOfRow'
<1> USE DEF TypeOK, LeaseOfRow, Starting, NoRun
<1>1. ASSUME NEW p \in Runs, Launch(p) PROVE LeaseOfRow'
    <2>1. CASE Accept(p) \/ Abandon(p)
        BY <2>1 DEF Accept, Abandon, Step, database
    <2>2. CASE Register(p)
        BY <2>2 DEF Register, Step, database
    <2> QED
        BY <1>1, <2>1, <2>2 DEF Launch
<1>2. ASSUME NEW p \in Runs, Execute(p) PROVE LeaseOfRow'
    <2>1. worker'[p] \notin Starting /\ keeping' \subseteq keeping /\ lease' = lease
        <3>1. CASE Begin(p) \/ Report(p) \/ EndScan(p) \/ Complete(p) \/ FinishCancelled(p)
            BY <3>1 DEF Begin, Report, EndScan, Complete, FinishCancelled, Step
        <3>2. CASE Scan(p) \/ Probe(p)
            BY <3>2 DEF Scan, Probe, Upsert
        <3>3. CASE Drop(p) \/ Break(p) \/ Panic(p)
            BY <3>3 DEF Drop, Break, Panic, Step, database
        <3> QED
            BY <1>2, <3>1, <3>2, <3>3 DEF Execute
    <2>2. Own(p)
        BY <1>2 DEF Own
    <2> QED
        BY <2>1, <2>2, OwnStep, OwnRow
<1>3. ASSUME NEW p \in Runs, Close(p) PROVE LeaseOfRow'
    <2>1. worker'[p] \notin Starting /\ keeping' \subseteq keeping
        BY <1>3 DEF Close, StopLease, Reload, Fail, Record, SaveCallback, Release, Step
    <2>2. lease' = lease \/ (lease.run = p /\ lease' = NoLease /\ p \notin keeping)
        <3>1. CASE Release(p)
            BY <3>1 DEF Release, Step, KeepersWork, Executing
        <3>2. CASE StopLease(p) \/ Reload(p) \/ Fail(p) \/ Record(p) \/ SaveCallback(p)
            BY <3>2 DEF StopLease, Reload, Fail, Record, SaveCallback, database
        <3> QED
            BY <1>3, <3>1, <3>2 DEF Close
    <2>3. \A r \in Runs \ {p} : worker'[r] = worker[r]
        BY <1>3, OwnStep DEF Own
    <2>4. row'.id = row.id
        BY <1>3, OwnRow DEF Own
    <2> QED
        BY <2>1, <2>2, <2>3, <2>4 DEF NoLease
<1>4. CASE Start
    BY <1>4, DiscoveryAssumption DEF Start, Numbered, KeepersWork, Executing, Runs
<1>5. CASE ProcessEnds
    BY <1>5 DEF ProcessEnds, database
<1>6. CASE CancelWrite
    BY <1>6 DEF CancelWrite, Update
<1>7. ASSUME NEW p \in Runs, Refresh(p) PROVE LeaseOfRow'
    BY <1>7 DEF Refresh, Runs
<1>8. CASE Expire \/ CancelRead \/ CancelSignal \/ CancelDrop \/ UNCHANGED vars \/ \E p \in Runs : Interrupt(p)
    BY <1>8 DEF Expire, CancelRead, CancelSignal, CancelDrop, Interrupt, database, memory, vars
<1> QED
    BY <1>1, <1>2, <1>3, <1>4, <1>5, <1>6, <1>7, <1>8 DEF Next, Cancel

\* The worker that writes a last status does not write to the row again.
LEMMA StepEnd ==
    ASSUME TypeOK, Numbered, EndWritten, [Next]_vars
    PROVE  EndWritten'
<1> USE DEF TypeOK, EndedBy, Starting, Executing
<1>1. ASSUME NEW p \in Runs, Own(p) PROVE EndWritten'
    <2>1. \A r \in Runs \ {p} : EndedBy(r)'
        BY <1>1, OwnStep, OwnRow DEF EndWritten
    <2>2. EndedBy(p)
        BY DEF EndWritten
    <2>3. EndedBy(p)'
        <3>1. CASE Launch(p)
            BY <2>2, <3>1 DEF Launch, Accept, Register, Abandon, Step, database
        <3>2. CASE Begin(p) \/ Report(p) \/ EndScan(p) \/ Complete(p) \/ FinishCancelled(p)
            BY <2>2, <3>2 DEF Begin, Report, EndScan, Complete, FinishCancelled, Step, Update
        <3>3. CASE Scan(p) \/ Probe(p)
            BY <2>2, <3>3 DEF Scan, Probe, Upsert
        <3>4. CASE Drop(p) \/ Break(p) \/ Panic(p)
            BY <2>2, <3>4 DEF Drop, Break, Panic, Step, database
        <3>5. CASE StopLease(p) \/ Reload(p) \/ Record(p) \/ SaveCallback(p) \/ Release(p)
            BY <2>2, <3>5 DEF StopLease, Reload, Record, SaveCallback, Release, Step, database
        <3>6. CASE Fail(p)
            BY <3>6 DEF Fail, Step
        <3> QED
            BY <1>1, <3>1, <3>2, <3>3, <3>4, <3>5, <3>6 DEF Own, Execute, Close
    <2> QED
        BY <2>1, <2>3 DEF EndWritten
<1>2. CASE Start
    BY <1>2 DEF Start, EndWritten
<1>3. CASE ProcessEnds
    BY <1>3 DEF ProcessEnds, EndWritten
<1>4. CASE CancelWrite
    BY <1>4 DEF CancelWrite, Update, EndWritten
<1>5. CASE Expire \/ CancelRead \/ CancelSignal \/ CancelDrop \/ UNCHANGED vars
           \/ \E p \in Runs : Refresh(p) \/ Interrupt(p)
    BY <1>5 DEF Expire, CancelRead, CancelSignal, CancelDrop, Refresh, Interrupt, database, memory, vars, EndWritten
<1> QED
    BY <1>1, <1>2, <1>3, <1>4, <1>5 DEF Next, Own, Cancel

\* 'completed' is written when the counters of the row count its results, which then stay.
LEMMA StepComplete ==
    ASSUME TypeOK, Numbered, CountersAgree, ResultsCounted, EndWritten, CompletedIsComplete, [Next]_vars
    PROVE  CompletedIsComplete'
<1> USE DEF TypeOK, CompletedIsComplete
<1>1. ASSUME NEW p \in Runs, Own(p) PROVE CompletedIsComplete'
    <2>1. CASE row.id # p
        BY <1>1, <2>1, OwnRow
    <2>2. CASE row.id = p
        <3>0. Agree(p) /\ CountedBy(p) /\ EndedBy(p)
            BY DEF CountersAgree, ResultsCounted, EndWritten
        <3>1. CASE Launch(p)
            BY <3>1 DEF Launch, Accept, Register, Abandon, database
        <3>2. CASE Begin(p) \/ Report(p) \/ EndScan(p) \/ FinishCancelled(p)
            <4>1. row'.status # "completed"
                BY <2>2, <3>2 DEF Begin, Report, EndScan, FinishCancelled, Update
            <4> QED
                BY <4>1
        <3>3. CASE Fail(p)
            <4>1. UNCHANGED results /\ (row'.status = "failed" \/ UNCHANGED row)
                BY <2>2, <3>3 DEF Fail, Update
            <4> QED
                BY <4>1
        <3>4. CASE Complete(p)
            BY <3>0, <2>2, <3>4 DEF Complete, Update, Step, Agree, CountedBy, Executing
        <3>5. CASE Scan(p) \/ Probe(p)
            BY <3>0, <2>2, <3>5 DEF Scan, Probe, EndedBy, Executing
        <3>6. CASE Drop(p) \/ Break(p) \/ Panic(p)
            BY <3>6 DEF Drop, Break, Panic, database
        <3>7. CASE StopLease(p) \/ Reload(p) \/ Record(p) \/ SaveCallback(p) \/ Release(p)
            BY <3>7 DEF StopLease, Reload, Record, SaveCallback, Release, database
        <3> QED
            BY <1>1, <3>1, <3>2, <3>3, <3>4, <3>5, <3>6, <3>7 DEF Own, Execute, Close
    <2> QED
        BY <2>1, <2>2
<1>2. CASE Start
    BY <1>2 DEF Start
<1>3. CASE ProcessEnds
    BY <1>3 DEF ProcessEnds, database
<1>4. CASE CancelWrite
    BY <1>4 DEF CancelWrite, Update
<1>5. CASE Expire \/ CancelRead \/ CancelSignal \/ CancelDrop \/ UNCHANGED vars
           \/ \E p \in Runs : Refresh(p) \/ Interrupt(p)
    BY <1>5 DEF Expire, CancelRead, CancelSignal, CancelDrop, Refresh, Interrupt, database, memory, vars
<1> QED
    BY <1>1, <1>2, <1>3, <1>4, <1>5 DEF Next, Own, Cancel

\* Only a cancel request leaves a request behind, and the two histories never shrink.
LEMMA StepQuiet ==
    ASSUME TypeOK, Quiet, [Next]_vars
    PROVE  Quiet' /\ (asked' = 0 => asked = 0) /\ (~ late' => ~ late)
<1> USE DEF TypeOK, Quiet
<1>1. CASE Start \/ Expire \/ ProcessEnds \/ UNCHANGED vars
    BY <1>1 DEF Start, Expire, ProcessEnds, memory, vars
<1>2. CASE Cancel
    BY <1>2, DiscoveryAssumption DEF Cancel, CancelRead, CancelSignal, CancelWrite, CancelDrop, NoRequest
<1>3. ASSUME NEW p \in Runs, Launch(p) \/ Close(p) \/ Refresh(p) \/ Interrupt(p)
      PROVE  UNCHANGED <<asked, late, request>>
    BY <1>3 DEF Launch, Accept, Register, Abandon, Close, StopLease, Reload, Fail, Record, SaveCallback, Release,
                Refresh, Interrupt
<1>4. ASSUME NEW p \in Runs, Execute(p)
      PROVE  UNCHANGED <<asked, late, request>>
    BY <1>4 DEF Execute, Begin, Scan, Probe, Drop, Report, EndScan, Complete, FinishCancelled, Break, Panic
<1> QED
    BY <1>1, <1>2, <1>3, <1>4 DEF Next

\* A start finds nobody at work: the row of a worker is active and its lease is fresh.
LEMMA StepUndisturbed ==
    ASSUME TypeOK, Numbered, KeepersWork, Quiet, Undisturbed, [Next]_vars
    PROVE  Undisturbed'
<1> USE DEF TypeOK, HasRow, Starting, Executing
<1> SUFFICES ASSUME ~ late', asked' = 0, NEW r \in Runs
             PROVE  HasRow(r)'
    BY DEF Undisturbed
<1>1. request = NoRequest /\ \A s \in Runs : HasRow(s)
    BY StepQuiet DEF Quiet, Undisturbed
<1>2. HasRow(r)
    BY <1>1
<1>3. ASSUME NEW p \in Runs, Own(p), p # r PROVE HasRow(r)'
    <2>1. row'.id = row.id /\ (row.id # p => row' = row) /\ worker'[r] = worker[r]
        BY <1>3, OwnRow, OwnStep
    <2>2. (lease' = lease \/ lease.run = p) /\ (r \in keeping => r \in keeping')
        <3>1. CASE Launch(p)
            BY <3>1 DEF Launch, Accept, Register, Abandon, database
        <3>2. CASE Begin(p) \/ Report(p) \/ EndScan(p) \/ Complete(p) \/ FinishCancelled(p)
            BY <3>2 DEF Begin, Report, EndScan, Complete, FinishCancelled
        <3>3. CASE Scan(p) \/ Probe(p)
            BY <3>3 DEF Scan, Probe
        <3>4. CASE Drop(p) \/ Break(p) \/ Panic(p)
            BY <1>3, <3>4 DEF Drop, Break, Panic, database
        <3>5. CASE Close(p)
            BY <1>3, <3>5 DEF Close, StopLease, Reload, Fail, Record, SaveCallback, Release, database
        <3> QED
            BY <1>3, <3>1, <3>2, <3>3, <3>4, <3>5 DEF Own, Execute
    <2> QED
        BY <1>2, <1>3, <2>1, <2>2
<1>4. CASE Own(r)
    <2>1. CASE Launch(r)
        BY <1>2, <2>1 DEF Launch, Accept, Register, Abandon, Step, database
    <2>2. CASE Begin(r) \/ Report(r) \/ EndScan(r) \/ Complete(r) \/ FinishCancelled(r)
        BY <1>2, <2>2 DEF Begin, Report, EndScan, Complete, FinishCancelled, Step, Update
    <2>3. CASE Scan(r) \/ Probe(r)
        BY <1>2, <2>3 DEF Scan, Probe, Upsert
    <2>4. CASE Drop(r) \/ Break(r) \/ Panic(r)
        BY <1>2, <2>4 DEF Drop, Break, Panic, Step, database
    <2>5. CASE Close(r)
        BY <2>5 DEF Close, StopLease, Reload, Fail, Record, SaveCallback, Release, Step
    <2> QED
        BY <1>4, <2>1, <2>2, <2>3, <2>4, <2>5 DEF Own, Execute
<1>5. CASE Start
    <2>1. \A s \in Runs : worker[s] \notin Starting \cup Executing
        BY <1>1, <1>5 DEF Start, Startable, Active
    <2> QED
        BY <2>1, <1>5 DEF Start
<1>6. CASE Cancel
    <2>1. asked # 0 \/ asked' # 0
        BY <1>1, <1>6, DiscoveryAssumption DEF Cancel, CancelRead, CancelSignal, CancelWrite, CancelDrop, NoRequest
    <2> QED
        BY <1>6, <2>1, StepQuiet
<1>7. CASE ProcessEnds
    BY <1>7 DEF ProcessEnds
<1>8. CASE Expire
    BY <1>2, <1>8 DEF Expire, Lapsed, memory
<1>9. ASSUME NEW p \in Runs, Refresh(p) PROVE HasRow(r)'
    BY <1>2, <1>9 DEF Refresh
<1>10. CASE UNCHANGED vars \/ \E p \in Runs : Interrupt(p)
    BY <1>2, <1>10 DEF Interrupt, database, memory, vars
<1> QED
    BY <1>3, <1>4, <1>5, <1>6, <1>7, <1>8, <1>9, <1>10 DEF Next, Own

\* Between what record_discovery_task reads and what it saves, only a cancellation writes.
LEMMA StepRecorded ==
    ASSUME TypeOK, Numbered, Quiet, Recorded, [Next]_vars
    PROVE  Recorded'
<1> USE DEF TypeOK, RecordedBy
<1>0. asked' = 0 => asked = 0
    BY StepQuiet
<1>1. ASSUME NEW p \in Runs, Own(p) PROVE Recorded'
    <2>1. \A r \in Runs \ {p} : RecordedBy(r)'
        BY <1>0, <1>1, OwnStep, OwnRow DEF Recorded
    <2>2. RecordedBy(p)
        BY DEF Recorded
    <2>3. RecordedBy(p)'
        <3>1. CASE Launch(p)
            BY <2>2, <3>1 DEF Launch, Accept, Register, Abandon, Step, Starting, database
        <3>2. CASE Begin(p) \/ Report(p) \/ EndScan(p) \/ Complete(p) \/ FinishCancelled(p)
            BY <2>2, <3>2 DEF Begin, Report, EndScan, Complete, FinishCancelled, Step
        <3>3. CASE Scan(p) \/ Probe(p)
            BY <2>2, <3>3 DEF Scan, Probe, Upsert
        <3>4. CASE Drop(p) \/ Break(p) \/ Panic(p)
            BY <2>2, <3>4 DEF Drop, Break, Panic, Step, Executing, database
        <3>5. CASE StopLease(p) \/ Reload(p)
            BY <2>2, <3>5 DEF StopLease, Reload, Step, database
        <3>6. CASE Fail(p)
            BY <2>2, <3>6 DEF Fail, Step
        <3>7. CASE Record(p)
            BY <2>2, <3>7 DEF Record, Step, database
        <3>8. CASE SaveCallback(p) \/ Release(p)
            BY <2>2, <3>8 DEF SaveCallback, Release, Step
        <3> QED
            BY <1>1, <3>1, <3>2, <3>3, <3>4, <3>5, <3>6, <3>7, <3>8 DEF Own, Execute, Close
    <2> QED
        BY <2>1, <2>3 DEF Recorded
<1>2. CASE Start
    BY <1>2 DEF Start, Recorded, Numbered, Runs
<1>3. CASE ProcessEnds
    BY <1>3 DEF ProcessEnds, Recorded, database
<1>4. CASE CancelWrite
    <2>1. row' = row \/ (row'.status \in {"cancelling", "cancelled"} /\ asked # 0)
        BY <1>4 DEF CancelWrite, Update, Quiet, NoRequest
    <2>2. row'.id = row.id /\ UNCHANGED <<asked, tasks, worker>>
        BY <1>4 DEF CancelWrite, Update
    <2> QED
        BY <2>1, <2>2 DEF Recorded
<1>5. CASE Expire \/ CancelRead \/ CancelSignal \/ CancelDrop \/ UNCHANGED vars
           \/ \E p \in Runs : Refresh(p) \/ Interrupt(p)
    <2>1. UNCHANGED <<row, tasks, worker>>
        BY <1>5 DEF Expire, CancelRead, CancelSignal, CancelDrop, Refresh, Interrupt, database, memory, vars
    <2> QED
        BY <1>0, <2>1 DEF Recorded
<1> QED
    BY <1>1, <1>2, <1>3, <1>4, <1>5 DEF Next, Own, Cancel

\* The callback says what the row says.
LEMMA StepEntry ==
    ASSUME TypeOK, Numbered, Quiet, Recorded, TaskEntryIsTrue, [Next]_vars
    PROVE  TaskEntryIsTrue'
<1> USE DEF TypeOK
<1>0. asked' = 0 => asked = 0
    BY StepQuiet
<1>1. ASSUME NEW p \in Runs, Own(p) PROVE TaskEntryIsTrue'
    <2>1. CASE row.id # p
        BY <1>0, <1>1, <2>1, OwnStep, OwnRow DEF TaskEntryIsTrue
    <2>2. CASE row.id = p
        <3> DEFINE Holds == /\ tasks'[p] = "failed" => row'.status # "completed"
                            /\ tasks'[p] = "success" /\ asked' = 0 => row'.status = "completed"
        <3>0. RecordedBy(p)
            BY DEF Recorded
        <3>1. tasks'[p] \notin {"success", "failed"} \/ (row' = row /\ tasks'[p] = tasks[p]) \/ SaveCallback(p)
            <4>1. CASE Launch(p)
                BY <3>0, <4>1 DEF Launch, Accept, Register, Abandon, Step, Starting, RecordedBy, database
            <4>2. CASE Begin(p) \/ Report(p) \/ EndScan(p) \/ Complete(p) \/ FinishCancelled(p)
                BY <3>0, <4>2 DEF Begin, Report, EndScan, Complete, FinishCancelled, Step, RecordedBy
            <4>3. CASE Scan(p) \/ Probe(p)
                BY <4>3 DEF Scan, Probe
            <4>4. CASE Drop(p) \/ Break(p) \/ Panic(p)
                BY <4>4 DEF Drop, Break, Panic, database
            <4>5. CASE StopLease(p) \/ Reload(p) \/ Record(p) \/ Release(p)
                BY <4>5 DEF StopLease, Reload, Record, Release, database
            <4>6. CASE Fail(p)
                BY <3>0, <4>6 DEF Fail, Step, RecordedBy
            <4> QED
                BY <1>1, <4>1, <4>2, <4>3, <4>4, <4>5, <4>6 DEF Own, Execute, Close
        <3>2. CASE SaveCallback(p)
            BY <2>2, <3>0, <3>2 DEF SaveCallback, Step, RecordedBy, TaskEntryIsTrue
        <3>3. CASE ~ SaveCallback(p)
            <4>1. Holds
                BY <1>0, <2>2, <3>1, <3>3 DEF TaskEntryIsTrue
            <4>2. row'.id = p
                BY <1>1, <2>2, OwnRow
            <4> QED
                BY <4>1, <4>2 DEF TaskEntryIsTrue
        <3> QED
            BY <3>2, <3>3
    <2> QED
        BY <2>1, <2>2
<1>2. CASE Start
    BY <1>2 DEF Start, TaskEntryIsTrue
<1>3. CASE ProcessEnds
    BY <1>3 DEF ProcessEnds, database, TaskEntryIsTrue
<1>4. CASE CancelWrite
    <2>1. row' = row \/ (row'.status \in {"cancelling", "cancelled"} /\ asked # 0)
        BY <1>4 DEF CancelWrite, Update, Quiet, NoRequest
    <2>2. row'.id = row.id /\ UNCHANGED <<asked, tasks>>
        BY <1>4 DEF CancelWrite, Update
    <2> QED
        BY <2>1, <2>2 DEF TaskEntryIsTrue
<1>5. CASE Expire \/ CancelRead \/ CancelSignal \/ CancelDrop \/ UNCHANGED vars
           \/ \E p \in Runs : Refresh(p) \/ Interrupt(p)
    <2>1. UNCHANGED <<row, tasks>>
        BY <1>5 DEF Expire, CancelRead, CancelSignal, CancelDrop, Refresh, Interrupt, database, memory, vars
    <2> QED
        BY <1>0, <2>1 DEF TaskEntryIsTrue
<1> QED
    BY <1>1, <1>2, <1>3, <1>4, <1>5 DEF Next, Own, Cancel

\* Counting one more target stays within the number of targets.
LEMMA CountedBounds ==
    ASSUME NEW c \in Counters, c.scanned < TotalTargets, c.reachable <= c.scanned, NEW reached \in BOOLEAN
    PROVE  Counted(c, reached) \in Counters
<1>1. c.scanned + 1 \in 0..TotalTargets /\ c.reachable + 1 \in 0..TotalTargets
    BY DiscoveryAssumption DEF Counters
<1>2. CASE reached
    BY <1>1, <1>2 DEF Counted, Counters
<1>3. CASE ~ reached
    <2>1. Counted(c, reached) = [c EXCEPT !.scanned = @ + 1, !.reachable = @ + 0]
        BY <1>3 DEF Counted
    <2> QED
        BY <1>1, <2>1, c.reachable + 0 \in 0..TotalTargets DEF Counters
<1> QED
    BY <1>2, <1>3

\* Counting one more probe stays within the number of reachable targets.
LEMMA ProbedBounds ==
    ASSUME NEW c \in Counters, c.probed < c.reachable
    PROVE  Probed(c) \in Counters
BY DiscoveryAssumption DEF Probed, Counters

\* Dropped locals are as at the beginning.
LEMMA ForgetTypes ==
    ASSUME TypeOK, NEW S, Forget(S)
    PROVE  found' \in [Runs -> Counters] /\ cancelled' \in [Runs -> BOOLEAN]
<1>1. found' \in [Runs -> Counters]
    <2>1. Zero \in Counters
        BY DiscoveryAssumption DEF Zero, Counters
    <2> QED
        BY <2>1 DEF TypeOK, Forget
<1>2. cancelled' \in [Runs -> BOOLEAN]
    BY Zenon DEF Forget
<1> QED
    BY <1>1, <1>2

\* No counter of a worker, of its results or of its row passes the number of targets.
LEMMA StepType ==
    ASSUME TypeOK, Numbered, CountersAgree, ResultsCounted, LeaseOfRow, [Next]_vars
    PROVE  TypeOK'
<1> USE DiscoveryAssumption DEF TypeOK, Runs, NoRun
<1>0. NoRow.seen \in Counters /\ Zero \in Counters
    BY DEF NoRow, Zero, Counters
<1>1. ASSUME NEW p \in Runs, Launch(p) PROVE TypeOK'
    <2>1. CASE Accept(p)
        BY <2>1 DEF Accept, Step, Starting
    <2>2. CASE Register(p)
        BY <2>2 DEF Register, Step, Executing, database
    <2>3. CASE Abandon(p)
        BY <2>3 DEF Abandon, database
    <2> QED
        BY <1>1, <2>1, <2>2, <2>3 DEF Launch
<1>2. ASSUME NEW p \in Runs, Begin(p) \/ Report(p) \/ EndScan(p) \/ Complete(p) \/ FinishCancelled(p)
      PROVE  TypeOK'
    <2>1. row' \in [id : 0..last, status : Active \cup Ended \cup {"none"}, seen : Counters] /\ row'.id = row.id
        <3>1. PICK status \in {"running", "completed", "cancelled"}, seen \in Counters : Update(p, status, seen)
            BY <1>0, <1>2 DEF Begin, Report, EndScan, Complete, FinishCancelled
        <3> QED
            BY <3>1 DEF Update, Active, Ended
    <2>2. worker' \in [Runs -> {"new", "gone"} \cup Starting \cup Executing \cup Closing]
        BY <1>2 DEF Begin, Report, EndScan, Complete, FinishCancelled, Step, Executing, Closing
    <2> QED
        BY <1>2, <2>1, <2>2 DEF Begin, Report, EndScan, Complete, FinishCancelled
<1>3. ASSUME NEW p \in Runs, Scan(p) \/ Probe(p) PROVE TypeOK'
    <2>1. worker[p] \in Executing /\ (row.id = p => results = found[p]) /\ Agree(p)
        BY <1>3 DEF Scan, Probe, Executing, ResultsCounted, CountedBy, CountersAgree
    <2>2. \A reached \in BOOLEAN : Scan(p) => Counted(found[p], reached) \in Counters
        BY <1>3, <2>1, CountedBounds DEF Scan, Agree
    <2>3. Probe(p) => Probed(found[p]) \in Counters
        BY <1>3, <2>1, ProbedBounds DEF Probe
    <2>4. worker' \in [Runs -> {"new", "gone"} \cup Starting \cup Executing \cup Closing]
        BY <1>3 DEF Scan, Probe, Upsert, Executing, Closing
    <2>5. found' \in [Runs -> Counters]
        BY <1>3, <2>2, <2>3 DEF Scan, Probe
    <2>6. results' \in Counters
        BY <1>3, <2>1, <2>2, <2>3 DEF Scan, Probe, Upsert
    <2>7. UNCHANGED <<late, asked, last, row, lease, tasks, cancelled, keeping, request>>
        BY <1>3 DEF Scan, Probe
    <2> QED
        BY <2>4, <2>5, <2>6, <2>7
<1>4. ASSUME NEW p \in Runs, Drop(p) \/ Break(p) \/ Panic(p) PROVE TypeOK'
    <2>1. worker' \in [Runs -> {"new", "gone"} \cup Starting \cup Executing \cup Closing]
        BY <1>4 DEF Drop, Break, Panic, Step, Executing, Closing
    <2>2. found' \in [Runs -> Counters] /\ cancelled' \in [Runs -> BOOLEAN] /\ keeping' \subseteq Runs
        BY <1>4, ForgetTypes DEF Drop, Break, Panic
    <2>3. UNCHANGED <<late, asked, last, database, request>>
        BY <1>4 DEF Drop, Break, Panic
    <2> QED
        BY <2>1, <2>2, <2>3 DEF database
<1>5. ASSUME NEW p \in Runs, Close(p) PROVE TypeOK'
    <2>1. CASE StopLease(p) \/ Reload(p) \/ Record(p)
        <3>1. worker' \in [Runs -> {"new", "gone"} \cup Starting \cup Executing \cup Closing]
            BY <2>1 DEF StopLease, Reload, Record, Step, Closing
        <3>2. found' \in [Runs -> Counters]
            <4>1. CASE StopLease(p) \/ Record(p)
                BY <4>1, ForgetTypes DEF StopLease, Record
            <4>2. CASE Reload(p)
                BY <1>0, <4>2 DEF Reload
            <4> QED
                BY <2>1, <4>1, <4>2
        <3>3. cancelled' \in [Runs -> BOOLEAN] /\ keeping' \subseteq Runs
            BY <2>1, ForgetTypes DEF StopLease, Reload, Record
        <3>4. UNCHANGED <<late, asked, last, database, request>>
            BY <2>1 DEF StopLease, Reload, Record
        <3> QED
            BY <3>1, <3>2, <3>3, <3>4 DEF database
    <2>2. CASE Fail(p)
        <3>1. row' \in [id : 0..last, status : Active \cup Ended \cup {"none"}, seen : Counters] /\ row'.id = row.id
            BY <2>2 DEF Fail, Update, Ended
        <3> QED
            BY <2>2, <3>1, ForgetTypes DEF Fail, Step, Closing
    <2>3. CASE SaveCallback(p)
        BY <2>3 DEF SaveCallback, Step, Closing
    <2>4. CASE Release(p)
        <3>1. lease' \in [run : {NoRun, row.id}, fresh : BOOLEAN]
            <4>1. lease' = lease \/ lease' = NoLease
                BY <2>4 DEF Release
            <4>2. NoLease \in [run : {NoRun, row.id}, fresh : BOOLEAN]
                BY DEF NoLease
            <4> QED
                BY <4>1, <4>2
        <3>2. worker' \in [Runs -> {"new", "gone"} \cup Starting \cup Executing \cup Closing]
            BY <2>4 DEF Release, Step
        <3> QED
            BY <2>4, <3>1, <3>2 DEF Release
    <2> QED
        BY <1>5, <2>1, <2>2, <2>3, <2>4 DEF Close
<1>6. CASE Start
    BY <1>0, <1>6 DEF Start, Active, Starting
<1>7. CASE Expire
    BY <1>7 DEF Expire, memory
<1>8. CASE Cancel
    <2>1. NoRequest \in [run : 0..last, seen : Counters, verdict : {"none", "cancelling", "cancelled"}]
        BY <1>0 DEF NoRequest
    <2>2. CASE CancelRead
        BY <2>2 DEF CancelRead, MoreTrouble, database
    <2>3. CASE CancelSignal
        BY <2>3 DEF CancelSignal, Signal, Listening, database
    <2>4. CASE CancelWrite
        <3>1. row' \in [id : 0..last, status : Active \cup Ended \cup {"none"}, seen : Counters] /\ row'.id = row.id
            BY <2>4 DEF CancelWrite, Update, Active, Ended
        <3> QED
            BY <2>1, <2>4, <3>1 DEF CancelWrite
    <2>5. CASE CancelDrop
        BY <2>1, <2>5 DEF CancelDrop, database
    <2> QED
        BY <1>8, <2>2, <2>3, <2>4, <2>5 DEF Cancel
<1>9. CASE ProcessEnds
    BY <1>0, <1>9 DEF ProcessEnds, Forget, NoRequest, database
<1>10. ASSUME NEW p \in Runs, Refresh(p) \/ Interrupt(p) PROVE TypeOK'
    BY <1>10 DEF Refresh, Interrupt, Signal, Listening, database
<1>11. CASE UNCHANGED vars
    BY <1>11 DEF vars, database, memory
<1> QED
    BY <1>1, <1>2, <1>3, <1>4, <1>5, <1>6, <1>7, <1>8, <1>9, <1>10, <1>11 DEF Next, Execute

-----------------------------------------------------------------------------
\* An empty database and no worker.
LEMMA InitInvariant == Init => IInv
<1> SUFFICES ASSUME Init PROVE IInv
    OBVIOUS
<1> USE DiscoveryAssumption DEF Init, Runs, NoRun
<1>1. TypeOK
    <2>1. Zero \in Counters
        BY DEF Zero, Counters
    <2>2. row \in [id : 0..last, status : Active \cup Ended \cup {"none"}, seen : Counters] /\ row.id = 0
        BY <2>1 DEF NoRow
    <2>3. lease \in [run : {NoRun, row.id}, fresh : BOOLEAN]
        BY DEF NoLease
    <2>4. request \in [run : 0..last, seen : Counters, verdict : {"none", "cancelling", "cancelled"}]
        BY <2>1 DEF NoRequest
    <2>5. late \in BOOLEAN /\ keeping \subseteq Runs
        OBVIOUS
    <2>8. asked \in 0..MaxTroubles /\ last \in 0..MaxRuns
        OBVIOUS
    <2>6. tasks \in [Runs -> {"none", "queued", "success", "failed"}] /\ cancelled \in [Runs -> BOOLEAN]
        OBVIOUS
    <2>7. worker \in [Runs -> {"new", "gone"} \cup Starting \cup Executing \cup Closing]
          /\ found \in [Runs -> Counters] /\ results \in Counters
        BY <2>1
    <2> QED
        BY <2>2, <2>3, <2>4, <2>5, <2>6, <2>7, <2>8 DEF TypeOK
<1>2. Numbered /\ KeepersWork /\ LeaseOfRow
    BY DEF Numbered, KeepersWork, LeaseOfRow, NoRow, NoLease, Starting
<1>3. CountersAgree /\ ResultsCounted
    BY DEF CountersAgree, Agree, ResultsCounted, CountedBy, Executing, NoRow
<1>4. EndWritten /\ Quiet /\ Undisturbed /\ Recorded
    BY DEF EndWritten, EndedBy, Quiet, Undisturbed, HasRow, Recorded, RecordedBy, NoRow, Starting, Executing
<1>5. CompletedIsComplete /\ TaskEntryIsTrue
    BY DEF CompletedIsComplete, TaskEntryIsTrue, NoRow
<1> QED
    BY <1>1, <1>2, <1>3, <1>4, <1>5 DEF IInv

\* The invariant is inductive.
THEOREM Invariant == Spec => []IInv
<1>1. Init => IInv
    BY InitInvariant
<1>2. IInv /\ [Next]_vars => IInv'
    BY StepType, StepNumbered, StepCounters, StepResults, StepKeepers, StepLease, StepEnd, StepQuiet,
       StepUndisturbed, StepRecorded, StepComplete, StepEntry DEF IInv
<1> QED
    BY <1>1, <1>2, PTL DEF Spec

\* Every variable keeps its type: no counter passes the number of targets, and a
\* lease is the latest run's or nobody's.
THEOREM TypeCorrect == Spec => []TypeOK
<1>1. IInv => TypeOK
    BY DEF IInv
<1> QED
    BY <1>1, Invariant, PTL

\* Without a cancel request and with leases kept in time, replace_latest_run admits no
\* second worker, however many scans are started, interrupted, broken or killed.
THEOREM OneScan == Spec => []AtMostOneScan
<1>1. IInv => AtMostOneScan
    <2> SUFFICES ASSUME IInv, ~ late, asked = 0
                 PROVE  Cardinality({r \in Runs : worker[r] \in Executing}) <= 1
        BY DEF AtMostOneScan
    <2>1. {r \in Runs : worker[r] \in Executing} \subseteq {row.id}
        BY DEF IInv, Undisturbed, HasRow
    <2>2. IsFiniteSet({row.id}) /\ Cardinality({row.id}) = 1
        BY FS_Singleton
    <2> QED
        BY <2>1, <2>2, FS_Subset
<1> QED
    BY <1>1, Invariant, PTL

\* maintain_discovery_lease of the latest run always finds its lease: it never cancels
\* a worker that was not replaced.
THEOREM LeaseHeld == Spec => []ScansHoldTheLease
<1>1. IInv => ScansHoldTheLease
    BY DEF IInv, TypeOK, LeaseOfRow, ScansHoldTheLease
<1> QED
    BY <1>1, Invariant, PTL

\* A start is refused only for a worker that is alive, or for a lease nobody refreshes.
THEOREM OnlyWorkers == Spec => []OnlyWorkersBlock
<1>1. IInv => OnlyWorkersBlock
    BY DiscoveryAssumption DEF IInv, TypeOK, LeaseOfRow, KeepersWork, OnlyWorkersBlock, Startable, Lapsed,
        NoRun, Runs, Starting, Executing, Closing
<1> QED
    BY <1>1, Invariant, PTL

\* A run that is shown as completed has the outcome of every target, all of them its own.
THEOREM AllResults == Spec => []CompletedIsComplete
<1>1. IInv => CompletedIsComplete
    BY DEF IInv
<1> QED
    BY <1>1, Invariant, PTL

\* The entry of the Task Center that record_discovery_task saves agrees with the run.
THEOREM TaskEntry == Spec => []TaskEntryIsTrue
<1>1. IInv => TaskEntryIsTrue
    BY DEF IInv
<1> QED
    BY <1>1, Invariant, PTL

\* Of all steps, the write of a cancellation alone changes a run that has ended.
LEMMA StepStays ==
    ASSUME TypeOK, EndWritten, [Next]_vars, row.status \in {"completed", "failed"},
           row'.id = row.id, row' # row
    PROVE  request.run = row.id
<1> USE DEF TypeOK
<1>1. ASSUME NEW p \in Runs, Own(p), row.id = p PROVE FALSE
    <2>1. worker[p] \notin Executing \cup {"fail"}
        BY <1>1 DEF EndWritten, EndedBy
    <2>2. CASE Launch(p)
        BY <2>2 DEF Launch, Accept, Register, Abandon, database
    <2>3. CASE Begin(p) \/ Report(p) \/ EndScan(p) \/ Complete(p) \/ FinishCancelled(p) \/ Fail(p)
        BY <2>1, <2>3 DEF Begin, Report, EndScan, Complete, FinishCancelled, Fail, Step, Executing
    <2>4. CASE Scan(p) \/ Probe(p)
        BY <2>4 DEF Scan, Probe
    <2>5. CASE Drop(p) \/ Break(p) \/ Panic(p)
        BY <2>5 DEF Drop, Break, Panic, database
    <2>6. CASE StopLease(p) \/ Reload(p) \/ Record(p) \/ SaveCallback(p) \/ Release(p)
        BY <2>6 DEF StopLease, Reload, Record, SaveCallback, Release, database
    <2> QED
        BY <1>1, <2>2, <2>3, <2>4, <2>5, <2>6 DEF Own, Execute, Close
<1>2. ASSUME NEW p \in Runs, Own(p), row.id # p PROVE FALSE
    BY <1>2, OwnRow
<1>3. CASE CancelWrite
    BY <1>3 DEF CancelWrite, Update
<1>4. CASE Start
    BY <1>4 DEF Start
<1>5. CASE Expire \/ CancelRead \/ CancelSignal \/ CancelDrop \/ ProcessEnds \/ UNCHANGED vars
           \/ \E p \in Runs : Refresh(p) \/ Interrupt(p)
    BY <1>5 DEF Expire, CancelRead, CancelSignal, CancelDrop, ProcessEnds, Refresh, Interrupt, database, memory, vars
<1> QED
    BY <1>1, <1>2, <1>3, <1>4, <1>5 DEF Next, Own, Cancel

\* A completed or failed run is changed only by a cancellation that had read it.
THEOREM EndedStay == Spec => EndedRunsStay
<1>1. IInv /\ [Next]_vars
        => [row.status \in {"completed", "failed"} /\ row'.id = row.id /\ row' # row
                => request.run = row.id]_vars
    BY StepStays DEF IInv
<1> QED
    BY <1>1, Invariant, PTL DEF Spec, EndedRunsStay
=============================================================================
