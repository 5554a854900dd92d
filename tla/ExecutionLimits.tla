--------------------------- MODULE ExecutionLimits ---------------------------
(***************************************************************************)
(* ExecutionLease::acquire and the drop of the lease                       *)
(* (src/src/application/limits.rs).  Every device operation of a process   *)
(* (standard execution, transaction workflow, orchestration target,        *)
(* compensation, upload, autodetection, DeviceClient) runs under a lease:  *)
(* first the mutex of the device, found in a registry of weak references,  *)
(* then one of Slots permits.  The mutex and the semaphore are tokio's:    *)
(* both serve their waiters in order and hand a released mutex or permit   *)
(* straight to the first waiter, who owns it before it is polled again and *)
(* gives it back when it is cancelled in between.                          *)
(***************************************************************************)
EXTENDS Naturals, Sequences, FiniteSets, SequencesExt

CONSTANTS Requests,    \* the tasks that acquire leases
          Devices,     \* each the set of its addresses: host and port as callers spell them
          Slots,       \* permits of the semaphore (4 in the code)
          Mutexes,     \* identities of the mutexes that may exist at once
          NoDevice, NoMutex, NoRequest

ASSUME LimitsAssumption ==
    /\ IsFiniteSet(Requests)
    /\ \A d, e \in Devices : d # e => d \cap e = {}
    /\ Slots \in Nat \ {0}
    /\ NoDevice \notin Devices
    /\ NoMutex \notin Mutexes
    /\ NoRequest \notin Requests

Addresses == UNION Devices

\* The key of an address is what all spellings of one host have in common: it is
\* trimmed and in lower case.
KeyOf == [a \in Addresses |-> CHOOSE d \in Devices : a \in d]

VARIABLES
    phase,       \* where each task is inside acquire, or after it
    key,         \* the device key the task asked for
    arc,         \* the strong reference the task holds to a device mutex
    registry,    \* limits.devices: the weak reference kept for a key
    owner,       \* who owns a mutex
    waiting,     \* the tasks queued on a mutex, first come first served
    permits,     \* free permits of the semaphore
    holders,     \* the tasks that own a permit
    slotQueue    \* the tasks queued on the semaphore

vars == <<phase, key, arc, registry, owner, waiting, permits, holders, slotQueue>>

Phases == {"idle", "resolved", "waitDevice", "hasDevice", "waitSlot",
           "running", "unlocking", "leaving"}

TypeOK ==
    /\ phase \in [Requests -> Phases]
    /\ key \in [Requests -> Devices \cup {NoDevice}]
    /\ arc \in [Requests -> Mutexes \cup {NoMutex}]
    /\ registry \in [Devices -> Mutexes \cup {NoMutex}]
    /\ owner \in [Mutexes -> Requests \cup {NoRequest}]
    /\ waiting \in [Mutexes -> Seq(Requests)]
    /\ permits \in Nat
    /\ holders \in SUBSET Requests
    /\ slotQueue \in Seq(Requests)

Init ==
    /\ phase = [r \in Requests |-> "idle"]
    /\ key = [r \in Requests |-> NoDevice]
    /\ arc = [r \in Requests |-> NoMutex]
    /\ registry = [d \in Devices |-> NoMutex]
    /\ owner = [m \in Mutexes |-> NoRequest]
    /\ waiting = [m \in Mutexes |-> <<>>]
    /\ permits = Slots
    /\ holders = {}
    /\ slotQueue = <<>>

-----------------------------------------------------------------------------
\* The registry.

\* Mutant: a mutex counts as live only while somebody owns it.
LiveWhenOwned(m) == owner[m] # NoRequest

\* strong_count() > 0: some task still holds the mutex.
Live(m) == \E r \in Requests : arc[r] = m

\* retain(|_, value| value.strong_count() > 0)
Retained ==
    [d \in Devices |->
        IF registry[d] \in Mutexes /\ Live(registry[d]) THEN registry[d] ELSE NoMutex]

\* The mutex of a key: the one the retained entry upgrades to, or a new one.
Candidates(d) ==
    IF Retained[d] # NoMutex THEN {Retained[d]}
    ELSE {m \in Mutexes : ~ Live(m)}

\* The block under limits.devices: prune, then upgrade or insert.
Lookup(r, a) ==
    /\ phase[r] = "idle"
    /\ \E m \in Candidates(KeyOf[a]) :
        /\ registry' = [Retained EXCEPT ![KeyOf[a]] = m]
        /\ arc' = [arc EXCEPT ![r] = m]
    /\ key' = [key EXCEPT ![r] = KeyOf[a]]
    /\ phase' = [phase EXCEPT ![r] = "resolved"]
    /\ UNCHANGED <<owner, waiting, permits, holders, slotQueue>>

-----------------------------------------------------------------------------
\* The device mutex.

\* Mutant: a late comer is put in front of those who already wait.
LockDeviceLifo(r) ==
    /\ phase[r] = "resolved"
    /\ \/ /\ owner[arc[r]] = NoRequest
          /\ owner' = [owner EXCEPT ![arc[r]] = r]
          /\ phase' = [phase EXCEPT ![r] = "hasDevice"]
          /\ UNCHANGED waiting
       \/ /\ owner[arc[r]] # NoRequest
          /\ waiting' = [waiting EXCEPT ![arc[r]] = <<r>> \o @]
          /\ phase' = [phase EXCEPT ![r] = "waitDevice"]
          /\ UNCHANGED owner
    /\ UNCHANGED <<key, arc, registry, permits, holders, slotQueue>>

\* device.lock_owned(): take a free mutex or queue behind the others.
LockDevice(r) ==
    /\ phase[r] = "resolved"
    /\ \/ /\ owner[arc[r]] = NoRequest
          /\ owner' = [owner EXCEPT ![arc[r]] = r]
          /\ phase' = [phase EXCEPT ![r] = "hasDevice"]
          /\ UNCHANGED waiting
       \/ /\ owner[arc[r]] # NoRequest
          /\ waiting' = [waiting EXCEPT ![arc[r]] = Append(@, r)]
          /\ phase' = [phase EXCEPT ![r] = "waitDevice"]
          /\ UNCHANGED owner
    /\ UNCHANGED <<key, arc, registry, permits, holders, slotQueue>>

\* Mutant: a woken waiter takes the mutex for granted.
DeviceGrantedEarly(r) ==
    /\ phase[r] = "waitDevice"
    /\ phase' = [phase EXCEPT ![r] = "hasDevice"]
    /\ UNCHANGED <<key, arc, registry, owner, waiting, permits, holders, slotQueue>>

\* The waiter is polled and finds the mutex handed to it.
DeviceGranted(r) ==
    /\ phase[r] = "waitDevice"
    /\ owner[arc[r]] = r
    /\ phase' = [phase EXCEPT ![r] = "hasDevice"]
    /\ UNCHANGED <<key, arc, registry, owner, waiting, permits, holders, slotQueue>>

\* Unlocking hands the mutex to its first waiter, or frees it.
Unlock(m) ==
    \/ /\ waiting[m] = <<>>
       /\ owner' = [owner EXCEPT ![m] = NoRequest]
       /\ UNCHANGED waiting
    \/ /\ waiting[m] # <<>>
       /\ owner' = [owner EXCEPT ![m] = Head(waiting[m])]
       /\ waiting' = [waiting EXCEPT ![m] = Tail(@)]

-----------------------------------------------------------------------------
\* The semaphore.

\* Mutant: the permits are counted down without looking.
TakeSlotUnchecked(r) ==
    /\ phase[r] = "hasDevice"
    /\ permits' = permits - 1
    /\ holders' = holders \cup {r}
    /\ phase' = [phase EXCEPT ![r] = "running"]
    /\ UNCHANGED <<key, arc, registry, owner, waiting, slotQueue>>

\* slots.acquire_owned(): take a free permit or queue.
TakeSlot(r) ==
    /\ phase[r] = "hasDevice"
    /\ \/ /\ permits > 0
          /\ permits' = permits - 1
          /\ holders' = holders \cup {r}
          /\ phase' = [phase EXCEPT ![r] = "running"]
          /\ UNCHANGED slotQueue
       \/ /\ permits = 0
          /\ slotQueue' = Append(slotQueue, r)
          /\ phase' = [phase EXCEPT ![r] = "waitSlot"]
          /\ UNCHANGED <<permits, holders>>
    /\ UNCHANGED <<key, arc, registry, owner, waiting>>

\* The waiter is polled and finds a permit assigned to it.
SlotGranted(r) ==
    /\ phase[r] = "waitSlot"
    /\ r \in holders
    /\ phase' = [phase EXCEPT ![r] = "running"]
    /\ UNCHANGED <<key, arc, registry, owner, waiting, permits, holders, slotQueue>>

\* Dropping a permit assigns it to the first waiter, or frees it.
ReleaseSlot(r) ==
    \/ /\ slotQueue = <<>>
       /\ permits' = permits + 1
       /\ holders' = holders \ {r}
       /\ UNCHANGED slotQueue
    \/ /\ slotQueue # <<>>
       /\ holders' = (holders \ {r}) \cup {Head(slotQueue)}
       /\ slotQueue' = Tail(slotQueue)
       /\ UNCHANGED permits

-----------------------------------------------------------------------------
\* The end of a lease, and cancellation of an acquire that still waits.

\* The lease is dropped: the operation is over, or its future was dropped
\* with the caller.  The fields drop in order, the permit before the mutex.
Finish(r) ==
    /\ phase[r] = "running"
    /\ ReleaseSlot(r)
    /\ phase' = [phase EXCEPT ![r] = "unlocking"]
    /\ UNCHANGED <<key, arc, registry, owner, waiting>>

\* The guard of the mutex is dropped.
UnlockDevice(r) ==
    /\ phase[r] = "unlocking"
    /\ Unlock(arc[r])
    /\ phase' = [phase EXCEPT ![r] = "leaving"]
    /\ UNCHANGED <<key, arc, registry, permits, holders, slotQueue>>

\* The strong reference goes; the last one leaves a dangling weak entry.
DropArc(r) ==
    /\ phase[r] = "leaving"
    /\ arc' = [arc EXCEPT ![r] = NoMutex]
    /\ key' = [key EXCEPT ![r] = NoDevice]
    /\ phase' = [phase EXCEPT ![r] = "idle"]
    /\ UNCHANGED <<registry, owner, waiting, permits, holders, slotQueue>>

\* Cancelled while queued on the device: leave the queue, or pass on a mutex
\* that was handed over but never seen.
CancelDeviceWait(r) ==
    /\ phase[r] = "waitDevice"
    /\ \/ /\ owner[arc[r]] = r
          /\ Unlock(arc[r])
       \/ /\ owner[arc[r]] # r
          /\ \E i \in 1..Len(waiting[arc[r]]) :
                /\ waiting[arc[r]][i] = r
                /\ waiting' = [waiting EXCEPT ![arc[r]] = RemoveAt(@, i)]
          /\ UNCHANGED owner
    /\ phase' = [phase EXCEPT ![r] = "leaving"]
    /\ UNCHANGED <<key, arc, registry, permits, holders, slotQueue>>

\* Mutant: an assigned permit is forgotten by the cancelled waiter.
CancelSlotWaitLeaks(r) ==
    /\ phase[r] = "waitSlot"
    /\ \/ /\ r \in holders
          /\ holders' = holders \ {r}
          /\ UNCHANGED <<permits, slotQueue>>
       \/ /\ r \notin holders
          /\ \E i \in 1..Len(slotQueue) :
                slotQueue[i] = r /\ slotQueue' = RemoveAt(slotQueue, i)
          /\ UNCHANGED <<permits, holders>>
    /\ phase' = [phase EXCEPT ![r] = "unlocking"]
    /\ UNCHANGED <<key, arc, registry, owner, waiting>>

\* Cancelled while queued on the semaphore: leave the queue or give the
\* assigned permit back; the device mutex is dropped next.
CancelSlotWait(r) ==
    /\ phase[r] = "waitSlot"
    /\ \/ /\ r \in holders
          /\ ReleaseSlot(r)
       \/ /\ r \notin holders
          /\ \E i \in 1..Len(slotQueue) :
                slotQueue[i] = r /\ slotQueue' = RemoveAt(slotQueue, i)
          /\ UNCHANGED <<permits, holders>>
    /\ phase' = [phase EXCEPT ![r] = "unlocking"]
    /\ UNCHANGED <<key, arc, registry, owner, waiting>>

-----------------------------------------------------------------------------
\* What the runtime does by itself for a task that is not cancelled: device
\* operations end because every one of them runs under a timeout.
Progress(r) ==
    \/ LockDevice(r) \/ DeviceGranted(r)
    \/ TakeSlot(r) \/ SlotGranted(r)
    \/ Finish(r) \/ UnlockDevice(r) \/ DropArc(r)

Next ==
    \E r \in Requests :
        \/ \E a \in Addresses : Lookup(r, a)
        \/ Progress(r)
        \/ CancelDeviceWait(r)
        \/ CancelSlotWait(r)

Spec == Init /\ [][Next]_vars
FairSpec == Spec /\ \A r \in Requests : WF_vars(Progress(r))

-----------------------------------------------------------------------------
\* Properties.

Operating == {r \in Requests : phase[r] = "running"}

\* Two operations never run on one device at the same time, however the
\* callers spell its address and whatever the weak registry forgot meanwhile.
DeviceExclusive ==
    \A r1, r2 \in Operating : key[r1] = key[r2] => r1 = r2

\* Tasks that ask for the same device queue on the same mutex, and tasks that
\* ask for different devices never block each other on a shared one.
OneMutexPerDevice ==
    \A r1, r2 \in Requests :
        arc[r1] # NoMutex /\ arc[r2] # NoMutex
            => (arc[r1] = arc[r2] <=> key[r1] = key[r2])

\* No permit is lost or invented by hand-over and cancellation: the free
\* permits and the owned ones always add up to the capacity.
PermitsConserved == permits + Cardinality(holders) = Slots

\* "Wait for a busy device before taking capacity from unrelated devices"
\* (limits.rs:39): whoever owns a permit also owns its device.
CapacityOnlyWithDevice ==
    \A r \in holders : arc[r] # NoMutex /\ owner[arc[r]] = r

\* Nobody queues for what is free: a permit is free only if no task waits for
\* one, and a mutex is free only if no task waits for it.
NoIdleWait ==
    /\ slotQueue # <<>> => permits = 0
    /\ \A m \in Mutexes : waiting[m] # <<>> => owner[m] # NoRequest

\* A task that waits gets its lease or is cancelled: nobody is starved by
\* those who come later, and device and slot waits never deadlock.
WaitersAreServed ==
    \A r \in Requests :
        phase[r] \in {"waitDevice", "waitSlot"}
            ~> phase[r] \notin {"waitDevice", "waitSlot"}

\* The lease protocol implements exclusive, capacity-bounded device access.
Access == INSTANCE DeviceAccess WITH
    serving <- [r \in Requests |-> IF phase[r] = "running" THEN key[r] ELSE NoDevice]

ImplementsDeviceAccess == Access!Spec
=============================================================================
