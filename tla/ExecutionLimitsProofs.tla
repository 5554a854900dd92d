------------------------ MODULE ExecutionLimitsProofs ------------------------
(***************************************************************************)
(* Proofs about ExecutionLimits, for every set of tasks and devices, every *)
(* spelling of addresses and every capacity.                               *)
(***************************************************************************)
EXTENDS ExecutionLimits, TLAPS, FiniteSetTheorems, SequenceTheorems

(***************************************************************************)
(* Queues.                                                                 *)
(***************************************************************************)

\* Leaving a queue keeps the others in it, in order.
LEMMA RemoveAtFacts ==
    ASSUME NEW S, NEW q \in Seq(S), NEW i \in 1..Len(q)
    PROVE  /\ RemoveAt(q, i) \in Seq(S)
           /\ Len(RemoveAt(q, i)) = Len(q) - 1
           /\ \A j \in 1..Len(q) - 1 :
                 RemoveAt(q, i)[j] = IF j < i THEN q[j] ELSE q[j + 1]
  <1> DEFINE a == SubSeq(q, 1, i - 1)
             b == SubSeq(q, i + 1, Len(q))
  <1>1. a \in Seq(S) /\ Len(a) = i - 1 /\ \A j \in 1..i - 1 : a[j] = q[j]
    BY SubSeqProperties
  <1>2. b \in Seq(S) /\ Len(b) = Len(q) - i /\ \A j \in 1..Len(q) - i : b[j] = q[i + j]
    BY SubSeqProperties
  <1> HIDE DEF a, b
  <1>3. /\ a \o b \in Seq(S)
        /\ Len(a \o b) = Len(a) + Len(b)
        /\ \A j \in 1..Len(a) + Len(b) :
              (a \o b)[j] = IF j <= Len(a) THEN a[j] ELSE b[j - Len(a)]
    BY <1>1, <1>2, ConcatProperties
  <1>4. RemoveAt(q, i) = a \o b
    BY DEF RemoveAt, a, b
  <1>5. ASSUME NEW j \in 1..Len(q) - 1
        PROVE  (a \o b)[j] = IF j < i THEN q[j] ELSE q[j + 1]
    <2>1. CASE j < i
      BY <2>1, <1>1, <1>2, <1>3
    <2>2. CASE ~ (j < i)
      <3>1. j - (i - 1) \in 1..Len(q) - i
        BY <2>2
      <3>2. b[j - (i - 1)] = q[i + (j - (i - 1))]
        BY <3>1, <1>2
      <3> QED
        BY <2>2, <3>1, <3>2, <1>1, <1>2, <1>3
    <2> QED
      BY <2>1, <2>2
  <1>6. a \o b \in Seq(S) /\ Len(a \o b) = Len(q) - 1
    BY <1>1, <1>2, <1>3
  <1> QED
    BY <1>4, <1>5, <1>6

(***************************************************************************)
(* Type correctness.                                                       *)
(***************************************************************************)

\* Handing a mutex over keeps owners and queues well typed.
LEMMA UnlockType ==
    ASSUME TypeOK, NEW m \in Mutexes, Unlock(m)
    PROVE  /\ owner' \in [Mutexes -> Requests \cup {NoRequest}]
           /\ waiting' \in [Mutexes -> Seq(Requests)]
  <1>1. waiting[m] \in Seq(Requests)
    BY DEF TypeOK
  <1>2. CASE waiting[m] = <<>>
    BY <1>2 DEF Unlock, TypeOK
  <1>3. CASE waiting[m] # <<>>
    <2>1. Head(waiting[m]) \in Requests /\ Tail(waiting[m]) \in Seq(Requests)
      BY <1>1, <1>3, HeadTailProperties
    <2> QED
      BY <1>3, <2>1 DEF Unlock, TypeOK
  <1> QED
    BY <1>2, <1>3

\* The same for a permit.
LEMMA ReleaseSlotType ==
    ASSUME TypeOK, NEW r \in Requests, ReleaseSlot(r)
    PROVE  /\ permits' \in Nat
           /\ holders' \in SUBSET Requests
           /\ slotQueue' \in Seq(Requests)
  <1>1. CASE slotQueue = <<>>
    BY <1>1 DEF ReleaseSlot, TypeOK
  <1>2. CASE slotQueue # <<>>
    <2>1. Head(slotQueue) \in Requests /\ Tail(slotQueue) \in Seq(Requests)
      BY <1>2, HeadTailProperties DEF TypeOK
    <2> QED
      BY <1>2, <2>1 DEF ReleaseSlot, TypeOK
  <1> QED
    BY <1>1, <1>2

\* Whoever is inside acquire, or holds a lease, has a mutex and a key.
HoldsReference ==
    \A r \in Requests :
        /\ phase[r] = "idle" => arc[r] = NoMutex
        /\ phase[r] # "idle" => arc[r] \in Mutexes /\ key[r] \in Devices

TypeInv == TypeOK /\ HoldsReference

LEMMA KeyIsDevice ==
    ASSUME NEW a \in Addresses
    PROVE  KeyOf[a] \in Devices
  BY DEF Addresses, KeyOf

LEMMA TypeInvInit == Init => TypeInv
  BY LimitsAssumption DEF Init, TypeInv, TypeOK, HoldsReference, Phases

LEMMA TypeInvNext == TypeInv /\ [Next]_vars => TypeInv'
  <1> SUFFICES ASSUME TypeInv, [Next]_vars
               PROVE  TypeInv'
    OBVIOUS
  <1> USE DEF TypeInv
  <1>1. ASSUME NEW r \in Requests, NEW a \in Addresses, Lookup(r, a)
        PROVE  TypeInv'
    <2>1. KeyOf[a] \in Devices
      BY KeyIsDevice
    <2>2. Retained \in [Devices -> Mutexes \cup {NoMutex}]
      BY DEF Retained, TypeOK
    <2>3. Candidates(KeyOf[a]) \subseteq Mutexes
      BY <2>1, <2>2 DEF Candidates
    <2> QED
      BY <1>1, <2>1, <2>2, <2>3, LimitsAssumption
      DEF Lookup, TypeOK, HoldsReference, Phases
  <1>2. ASSUME NEW r \in Requests, LockDevice(r)
        PROVE  TypeInv'
    <2>1. arc[r] \in Mutexes /\ Append(waiting[arc[r]], r) \in Seq(Requests)
      BY <1>2, AppendProperties DEF LockDevice, TypeOK, HoldsReference
    <2>2. waiting' \in [Mutexes -> Seq(Requests)]
      <3> DEFINE q == Append(waiting[arc[r]], r)
      <3>1. waiting' = waiting \/ waiting' = [waiting EXCEPT ![arc[r]] = q]
        BY <1>2 DEF LockDevice
      <3> HIDE DEF q
      <3> QED
        BY <2>1, <3>1 DEF q, TypeOK
    <2>3. owner' \in [Mutexes -> Requests \cup {NoRequest}]
      BY <1>2, <2>1 DEF LockDevice, TypeOK
    <2>4. /\ phase' \in [Requests -> Phases]
          /\ \A q \in Requests : phase'[q] # "idle" <=> phase[q] # "idle"
      BY <1>2 DEF LockDevice, TypeOK, Phases
    <2> QED
      BY <1>2, <2>2, <2>3, <2>4 DEF LockDevice, TypeOK, HoldsReference
  <1>3. ASSUME NEW r \in Requests, DeviceGranted(r) \/ SlotGranted(r)
        PROVE  TypeInv'
    BY <1>3 DEF DeviceGranted, SlotGranted, TypeOK, HoldsReference, Phases
  <1>4. ASSUME NEW r \in Requests, TakeSlot(r)
        PROVE  TypeInv'
    <2>1. Append(slotQueue, r) \in Seq(Requests)
      BY AppendProperties DEF TypeOK
    <2>2. slotQueue' \in Seq(Requests)
      BY <1>4, <2>1 DEF TakeSlot, TypeOK
    <2>3. permits' \in Nat /\ holders' \in SUBSET Requests
      BY <1>4 DEF TakeSlot, TypeOK
    <2>4. /\ phase' \in [Requests -> Phases]
          /\ \A q \in Requests : phase'[q] # "idle" <=> phase[q] # "idle"
      BY <1>4 DEF TakeSlot, TypeOK, Phases
    <2> QED
      BY <1>4, <2>2, <2>3, <2>4 DEF TakeSlot, TypeOK, HoldsReference
  <1>5. ASSUME NEW r \in Requests, Finish(r)
        PROVE  TypeInv'
    BY <1>5, ReleaseSlotType DEF Finish, TypeOK, HoldsReference, Phases
  <1>6. ASSUME NEW r \in Requests, UnlockDevice(r)
        PROVE  TypeInv'
    <2>1. arc[r] \in Mutexes
      BY <1>6 DEF UnlockDevice, HoldsReference
    <2> QED
      BY <1>6, <2>1, UnlockType DEF UnlockDevice, TypeOK, HoldsReference, Phases
  <1>7. ASSUME NEW r \in Requests, DropArc(r)
        PROVE  TypeInv'
    BY <1>7 DEF DropArc, TypeOK, HoldsReference, Phases
  <1>8. ASSUME NEW r \in Requests, CancelDeviceWait(r)
        PROVE  TypeInv'
    <2>1. arc[r] \in Mutexes /\ waiting[arc[r]] \in Seq(Requests)
      BY <1>8 DEF CancelDeviceWait, TypeOK, HoldsReference
    <2>2. \A i \in 1..Len(waiting[arc[r]]) : RemoveAt(waiting[arc[r]], i) \in Seq(Requests)
      BY <2>1, RemoveAtFacts
    <2>3. /\ owner' \in [Mutexes -> Requests \cup {NoRequest}]
          /\ waiting' \in [Mutexes -> Seq(Requests)]
      <3>1. CASE owner[arc[r]] = r /\ Unlock(arc[r])
        BY <2>1, <3>1, UnlockType
      <3>2. CASE owner[arc[r]] # r
        BY <1>8, <2>1, <2>2, <3>2 DEF CancelDeviceWait, TypeOK
      <3> QED
        BY <1>8, <3>1, <3>2 DEF CancelDeviceWait
    <2> QED
      BY <1>8, <2>3 DEF CancelDeviceWait, TypeOK, HoldsReference, Phases
  <1>9. ASSUME NEW r \in Requests, CancelSlotWait(r)
        PROVE  TypeInv'
    <2>1. \A i \in 1..Len(slotQueue) : RemoveAt(slotQueue, i) \in Seq(Requests)
      BY RemoveAtFacts DEF TypeOK
    <2>2. /\ permits' \in Nat
          /\ holders' \in SUBSET Requests
          /\ slotQueue' \in Seq(Requests)
      <3>1. CASE ReleaseSlot(r)
        BY <3>1, ReleaseSlotType
      <3>2. CASE ~ ReleaseSlot(r)
        BY <1>9, <2>1, <3>2 DEF CancelSlotWait, TypeOK
      <3> QED
        BY <3>1, <3>2
    <2> QED
      BY <1>9, <2>2 DEF CancelSlotWait, TypeOK, HoldsReference, Phases
  <1>10. CASE UNCHANGED vars
    BY <1>10 DEF vars, TypeOK, HoldsReference
  <1> QED
    BY <1>1, <1>2, <1>3, <1>4, <1>5, <1>6, <1>7, <1>8, <1>9, <1>10 DEF Next, Progress

LEMMA TypeInvariant == Spec => []TypeInv
  BY TypeInvInit, TypeInvNext, PTL DEF Spec

\* Every variable of the limits keeps its type (limits.rs:8-16).
THEOREM TypeCorrect == Spec => []TypeOK
  BY TypeInvariant, PTL DEF TypeInv

(***************************************************************************)
(* Exclusion.  The registry is what makes it work: while anybody holds the *)
(* mutex of a device, the weak entry of that device upgrades to it, and no *)
(* other entry does.                                                       *)
(***************************************************************************)

OwningPhases == {"hasDevice", "waitSlot", "running", "unlocking"}

RegistryInv ==
    /\ \A r \in Requests : arc[r] # NoMutex => registry[key[r]] = arc[r]
    /\ \A r \in Requests, d \in Devices :
          arc[r] # NoMutex /\ registry[d] = arc[r] => d = key[r]

OwnerInv ==
    /\ \A r \in Requests : phase[r] \in OwningPhases => owner[arc[r]] = r
    /\ \A m \in Mutexes : waiting[m] # <<>> => owner[m] # NoRequest

ExclusionInv == RegistryInv /\ OwnerInv

LEMMA RegistryLookup ==
    ASSUME TypeInv, RegistryInv, NEW r \in Requests, NEW a \in Addresses, Lookup(r, a)
    PROVE  RegistryInv'
  <1> DEFINE d == KeyOf[a]
  <1>1. PICK m \in Candidates(d) :
            /\ registry' = [Retained EXCEPT ![d] = m]
            /\ arc' = [arc EXCEPT ![r] = m]
    BY DEF Lookup
  <1>2. d \in Devices
    BY KeyIsDevice
  <1>3. Retained \in [Devices -> Mutexes \cup {NoMutex}]
    BY DEF Retained, TypeInv, TypeOK
  <1>4. m \in Mutexes
    BY <1>1, <1>2, <1>3 DEF Candidates
  <1>5. key' = [key EXCEPT ![r] = d] /\ arc[r] = NoMutex
    BY DEF Lookup, TypeInv, HoldsReference
  <1>6. /\ registry' \in [Devices -> Mutexes \cup {NoMutex}]
        /\ \A e \in Devices : registry'[e] = IF e = d THEN m ELSE Retained[e]
    BY <1>1, <1>2, <1>3, <1>4
  <1>7. \A q \in Requests : /\ arc'[q] = IF q = r THEN m ELSE arc[q]
                            /\ key'[q] = IF q = r THEN d ELSE key[q]
    BY <1>1, <1>5 DEF TypeInv, TypeOK
  <1>8. \A q \in Requests : arc[q] # NoMutex =>
            /\ arc[q] \in Mutexes
            /\ key[q] \in Devices
            /\ Retained[key[q]] = arc[q]
            /\ \A e \in Devices : Retained[e] = arc[q] => e = key[q]
    BY LimitsAssumption DEF Retained, Live, RegistryInv, TypeInv, TypeOK, HoldsReference
  <1>9. \A q \in Requests : arc[q] # NoMutex => (arc[q] = m <=> key[q] = d)
    <2> SUFFICES ASSUME NEW q \in Requests, arc[q] # NoMutex
                 PROVE  arc[q] = m <=> key[q] = d
      OBVIOUS
    <2>1. CASE Retained[d] # NoMutex
      <3>1. m = Retained[d]
        BY <1>1, <2>1 DEF Candidates
      <3> QED
        BY <1>2, <1>8, <3>1
    <2>2. CASE Retained[d] = NoMutex
      <3>1. ~ Live(m)
        BY <1>1, <2>2 DEF Candidates
      <3>2. key[q] # d
        BY <1>8, <2>2
      <3> QED
        BY <3>1, <3>2 DEF Live
    <2> QED
      BY <2>1, <2>2
  <1>10. \A e \in Devices : e # d /\ Retained[e] = m => FALSE
    <2> SUFFICES ASSUME NEW e \in Devices, e # d, Retained[e] = m
                 PROVE  FALSE
      OBVIOUS
    <2>1. PICK q \in Requests : arc[q] = m
      BY <1>4, LimitsAssumption DEF Retained, Live
    <2>2. arc[q] # NoMutex
      BY <1>4, <2>1, LimitsAssumption
    <2> QED
      BY <1>8, <1>9, <2>1, <2>2
  <1>11. ASSUME NEW q \in Requests, arc'[q] # NoMutex
         PROVE  registry'[key'[q]] = arc'[q]
    <2>1. CASE q = r
      BY <1>2, <1>6, <1>7, <2>1
    <2>2. CASE q # r
      BY <1>6, <1>7, <1>8, <1>9, <1>11, <2>2
    <2> QED
      BY <2>1, <2>2
  <1>12. ASSUME NEW q \in Requests, NEW e \in Devices,
                arc'[q] # NoMutex, registry'[e] = arc'[q]
         PROVE  e = key'[q]
    <2>1. CASE q = r
      BY <1>6, <1>7, <1>10, <1>12, <2>1
    <2>2. CASE q # r
      <3>1. arc'[q] = arc[q] /\ key'[q] = key[q]
        BY <1>7, <2>2
      <3>2. CASE e = d
        BY <1>2, <1>6, <1>9, <1>12, <3>1, <3>2
      <3>3. CASE e # d
        BY <1>6, <1>8, <1>12, <3>1, <3>3
      <3> QED
        BY <3>2, <3>3
    <2> QED
      BY <2>1, <2>2
  <1> QED
    BY <1>11, <1>12 DEF RegistryInv

\* A mutex is passed on only by its owner, so every other owner keeps his.
LEMMA UnlockOwner ==
    ASSUME TypeInv, OwnerInv, NEW r \in Requests, arc[r] \in Mutexes,
           owner[arc[r]] = r, phase' = [phase EXCEPT ![r] = "leaving"],
           Unlock(arc[r]), arc' = arc
    PROVE  OwnerInv'
  <1>1. ASSUME NEW q \in Requests, phase'[q] \in OwningPhases
        PROVE  owner'[arc'[q]] = q
    <2>1. q # r /\ phase[q] \in OwningPhases
      BY <1>1 DEF OwningPhases, TypeInv, TypeOK
    <2>2. owner[arc[q]] = q /\ arc[q] \in Mutexes /\ arc[q] # arc[r]
      BY <2>1 DEF OwnerInv, TypeInv, HoldsReference, OwningPhases
    <2> QED
      BY <2>2 DEF Unlock, TypeInv, TypeOK
  <1>2. ASSUME NEW m \in Mutexes, waiting'[m] # <<>>
        PROVE  owner'[m] # NoRequest
    <2>1. CASE m # arc[r]
      BY <1>2, <2>1 DEF Unlock, TypeInv, TypeOK, OwnerInv
    <2>2. CASE m = arc[r]
      <3>1. waiting[m] # <<>>
        BY <1>2, <2>2 DEF Unlock
      <3>2. Head(waiting[m]) \in Requests
        BY <3>1, HeadTailProperties DEF TypeInv, TypeOK
      <3>3. owner'[m] = Head(waiting[m])
        BY <2>2, <3>1 DEF Unlock, TypeInv, TypeOK
      <3> QED
        BY <3>2, <3>3, LimitsAssumption
    <2> QED
      BY <2>1, <2>2
  <1> QED
    BY <1>1, <1>2 DEF OwnerInv

LEMMA ExclusionInit == Init => ExclusionInv
  BY LimitsAssumption DEF Init, ExclusionInv, RegistryInv, OwnerInv, OwningPhases

\* Steps that leave references and registry alone keep the registry sound.
LEMMA RegistryUnchanged ==
    ASSUME RegistryInv, UNCHANGED <<arc, key, registry>>
    PROVE  RegistryInv'
  BY DEF RegistryInv

LEMMA ExclusionNext == TypeInv /\ ExclusionInv /\ [Next]_vars => ExclusionInv'
  <1> SUFFICES ASSUME TypeInv, ExclusionInv, [Next]_vars
               PROVE  ExclusionInv'
    OBVIOUS
  <1> USE DEF ExclusionInv
  <1>1. ASSUME NEW r \in Requests, NEW a \in Addresses, Lookup(r, a)
        PROVE  ExclusionInv'
    <2>1. RegistryInv'
      BY <1>1, RegistryLookup
    <2>2. \A q \in Requests : phase'[q] \in OwningPhases =>
              q # r /\ phase[q] \in OwningPhases /\ arc'[q] = arc[q]
      BY <1>1 DEF Lookup, OwningPhases, TypeInv, TypeOK
    <2>3. OwnerInv'
      BY <1>1, <2>2 DEF Lookup, OwnerInv
    <2> QED
      BY <2>1, <2>3
  <1>2. ASSUME NEW r \in Requests, LockDevice(r)
        PROVE  ExclusionInv'
    <2>1. RegistryInv'
      BY <1>2, RegistryUnchanged DEF LockDevice
    <2>2. arc[r] \in Mutexes
      BY <1>2 DEF LockDevice, TypeInv, HoldsReference
    <2>3. CASE owner[arc[r]] = NoRequest
      <3>1. /\ owner' = [owner EXCEPT ![arc[r]] = r]
            /\ phase' = [phase EXCEPT ![r] = "hasDevice"]
            /\ UNCHANGED <<arc, waiting>>
        BY <1>2, <2>3 DEF LockDevice
      <3>2. \A q \in Requests : phase[q] \in OwningPhases => arc[q] # arc[r]
        BY <2>3, LimitsAssumption DEF OwnerInv
      <3>3. OwnerInv'
        BY <2>2, <3>1, <3>2, LimitsAssumption DEF OwnerInv, OwningPhases, TypeInv, TypeOK
      <3> QED
        BY <2>1, <3>3
    <2>4. CASE owner[arc[r]] # NoRequest
      <3>1. /\ waiting' = [waiting EXCEPT ![arc[r]] = Append(waiting[arc[r]], r)]
            /\ phase' = [phase EXCEPT ![r] = "waitDevice"]
            /\ UNCHANGED <<arc, owner>>
        BY <1>2, <2>4 DEF LockDevice
      <3>2. \A m \in Mutexes : m # arc[r] => waiting'[m] = waiting[m]
        BY <3>1 DEF TypeInv, TypeOK
      <3>3. OwnerInv'
        BY <2>4, <3>1, <3>2 DEF OwnerInv, OwningPhases, TypeInv, TypeOK
      <3> QED
        BY <2>1, <3>3
    <2> QED
      BY <2>3, <2>4
  <1>3. ASSUME NEW r \in Requests, DeviceGranted(r)
        PROVE  ExclusionInv'
    <2>1. RegistryInv'
      BY <1>3, RegistryUnchanged DEF DeviceGranted
    <2>2. OwnerInv'
      BY <1>3 DEF DeviceGranted, OwnerInv, OwningPhases, TypeInv, TypeOK
    <2> QED
      BY <2>1, <2>2
  <1>4. ASSUME NEW r \in Requests,
               TakeSlot(r) \/ SlotGranted(r) \/ Finish(r) \/ CancelSlotWait(r)
        PROVE  ExclusionInv'
    <2>1. /\ phase[r] \in OwningPhases
          /\ \A q \in Requests : phase'[q] \in OwningPhases => phase[q] \in OwningPhases
          /\ UNCHANGED <<key, arc, registry, owner, waiting>>
      BY <1>4 DEF TakeSlot, SlotGranted, Finish, CancelSlotWait, OwningPhases, TypeInv, TypeOK
    <2>2. RegistryInv'
      BY <2>1, RegistryUnchanged
    <2>3. OwnerInv'
      BY <2>1 DEF OwnerInv
    <2> QED
      BY <2>2, <2>3
  <1>5. ASSUME NEW r \in Requests, UnlockDevice(r)
        PROVE  ExclusionInv'
    <2>1. RegistryInv'
      BY <1>5, RegistryUnchanged DEF UnlockDevice
    <2>2. arc[r] \in Mutexes /\ owner[arc[r]] = r
      BY <1>5 DEF UnlockDevice, OwnerInv, OwningPhases, TypeInv, HoldsReference
    <2> QED
      BY <1>5, <2>1, <2>2, UnlockOwner DEF UnlockDevice
  <1>6. ASSUME NEW r \in Requests, DropArc(r)
        PROVE  ExclusionInv'
    <2>1. /\ UNCHANGED <<registry, owner, waiting>>
          /\ \A q \in Requests : arc'[q] # NoMutex =>
                q # r /\ arc'[q] = arc[q] /\ key'[q] = key[q]
      BY <1>6 DEF DropArc, TypeInv, TypeOK
    <2>2. RegistryInv'
      BY <2>1 DEF RegistryInv
    <2>3. \A q \in Requests : phase'[q] \in OwningPhases =>
              phase[q] \in OwningPhases /\ arc'[q] = arc[q]
      BY <1>6 DEF DropArc, OwningPhases, TypeInv, TypeOK
    <2>4. OwnerInv'
      BY <2>1, <2>3 DEF OwnerInv
    <2> QED
      BY <2>2, <2>4
  <1>7. ASSUME NEW r \in Requests, CancelDeviceWait(r)
        PROVE  ExclusionInv'
    <2>1. RegistryInv'
      BY <1>7, RegistryUnchanged DEF CancelDeviceWait
    <2>2. arc[r] \in Mutexes
      BY <1>7 DEF CancelDeviceWait, TypeInv, HoldsReference
    <2>3. CASE owner[arc[r]] = r /\ Unlock(arc[r])
      BY <1>7, <2>1, <2>2, <2>3, UnlockOwner DEF CancelDeviceWait
    <2>4. CASE owner[arc[r]] # r
      <3>1. PICK i \in 1..Len(waiting[arc[r]]) :
                /\ waiting[arc[r]][i] = r
                /\ waiting' = [waiting EXCEPT ![arc[r]] = RemoveAt(waiting[arc[r]], i)]
        BY <1>7, <2>4 DEF CancelDeviceWait
      <3>2. UNCHANGED owner
        BY <1>7, <2>4 DEF CancelDeviceWait
      <3>3. waiting[arc[r]] # <<>>
        BY <3>1
      <3>4. \A m \in Mutexes : m # arc[r] => waiting'[m] = waiting[m]
        BY <3>1 DEF TypeInv, TypeOK
      <3>5. \A q \in Requests : phase'[q] \in OwningPhases =>
                phase[q] \in OwningPhases /\ arc'[q] = arc[q]
        BY <1>7 DEF CancelDeviceWait, OwningPhases, TypeInv, TypeOK
      <3>6. OwnerInv'
        BY <2>2, <3>2, <3>3, <3>4, <3>5 DEF OwnerInv
      <3> QED
        BY <2>1, <3>6
    <2> QED
      BY <1>7, <2>3, <2>4 DEF CancelDeviceWait
  <1>8. CASE UNCHANGED vars
    BY <1>8 DEF vars, RegistryInv, OwnerInv
  <1> QED
    BY <1>1, <1>2, <1>3, <1>4, <1>5, <1>6, <1>7, <1>8 DEF Next, Progress

LEMMA ExclusionInvariant == Spec => []ExclusionInv
  BY TypeInvariant, ExclusionInit, ExclusionNext, PTL DEF Spec

\* For every device, spelling and order of requests, cancellations and
\* releases: two operations are never on one device (limits.rs:18-51).
THEOREM Exclusion == Spec => []DeviceExclusive
  <1>1. TypeInv /\ ExclusionInv => DeviceExclusive
    <2> SUFFICES ASSUME TypeInv, ExclusionInv, NEW r1 \in Operating, NEW r2 \in Operating,
                        key[r1] = key[r2]
                 PROVE  r1 = r2
      BY DEF DeviceExclusive
    <2>1. arc[r1] = registry[key[r1]] /\ arc[r2] = registry[key[r2]]
      BY LimitsAssumption DEF Operating, TypeInv, HoldsReference, ExclusionInv, RegistryInv
    <2>2. owner[arc[r1]] = r1 /\ owner[arc[r2]] = r2
      BY DEF Operating, ExclusionInv, OwnerInv, OwningPhases
    <2> QED
      BY <2>1, <2>2
  <1> QED
    BY <1>1, TypeInvariant, ExclusionInvariant, PTL

\* The weak registry never gives one device two mutexes, nor two devices one
\* mutex, while anybody can still lock it (limits.rs:24-38).
THEOREM MutexIdentity == Spec => []OneMutexPerDevice
  <1>1. TypeInv /\ ExclusionInv => OneMutexPerDevice
    BY DEF OneMutexPerDevice, TypeInv, TypeOK, HoldsReference, ExclusionInv, RegistryInv
  <1> QED
    BY <1>1, TypeInvariant, ExclusionInvariant, PTL

(***************************************************************************)
(* Capacity.  A permit belongs to a running task or to a waiter that has   *)
(* not been polled yet; the queue holds distinct waiters without a permit. *)
(***************************************************************************)

QueueInv ==
    /\ \A i \in 1..Len(slotQueue) :
          phase[slotQueue[i]] = "waitSlot" /\ slotQueue[i] \notin holders
    /\ \A i, j \in 1..Len(slotQueue) : slotQueue[i] = slotQueue[j] => i = j
    /\ slotQueue # <<>> => permits = 0

HoldersInv ==
    /\ \A r \in holders : phase[r] \in {"running", "waitSlot"}
    /\ \A r \in Requests : phase[r] = "running" => r \in holders

CapacityInv == QueueInv /\ HoldersInv /\ PermitsConserved

LEMMA CapacityInit == Init => CapacityInv
  BY LimitsAssumption, FS_EmptySet
  DEF Init, CapacityInv, QueueInv, HoldersInv, PermitsConserved

\* Counting the permits when one changes hands.
LEMMA HoldersCount ==
    ASSUME TypeInv, NEW r \in Requests
    PROVE  /\ IsFiniteSet(holders) /\ Cardinality(holders) \in Nat
           /\ r \notin holders => Cardinality(holders \cup {r}) = Cardinality(holders) + 1
           /\ r \in holders => Cardinality(holders \ {r}) = Cardinality(holders) - 1
           /\ r \in holders => IsFiniteSet(holders \ {r})
  <1>1. IsFiniteSet(holders)
    BY LimitsAssumption, FS_Subset DEF TypeInv, TypeOK
  <1>2. IsFiniteSet(holders \ {r})
    BY <1>1, FS_RemoveElement
  <1> QED
    BY <1>1, <1>2, FS_CardinalityType, FS_AddElement, FS_RemoveElement

\* Releasing a permit, by finishing or by a cancelled wait.
LEMMA ReleaseCapacity ==
    ASSUME TypeInv, CapacityInv, NEW r \in holders, ReleaseSlot(r),
           phase' = [phase EXCEPT ![r] = "unlocking"]
    PROVE  CapacityInv'
  <1>1. r \in Requests /\ phase \in [Requests -> Phases] /\ slotQueue \in Seq(Requests)
    BY DEF TypeInv, TypeOK
  <1>2. CASE slotQueue = <<>>
    <2>1. /\ permits' = permits + 1
          /\ holders' = holders \ {r}
          /\ slotQueue' = <<>>
      BY <1>2 DEF ReleaseSlot
    <2>2. HoldersInv'
      BY <1>1, <2>1 DEF CapacityInv, HoldersInv
    <2>3. QueueInv'
      BY <2>1 DEF QueueInv
    <2>4. PermitsConserved'
      <3>1. permits \in Nat /\ Slots \in Nat
        BY LimitsAssumption DEF TypeInv, TypeOK
      <3>2. Cardinality(holders') = Cardinality(holders) - 1 /\ Cardinality(holders) \in Nat
        BY <1>1, <2>1, HoldersCount
      <3> QED
        BY <2>1, <3>1, <3>2 DEF CapacityInv, PermitsConserved
    <2> QED
      BY <2>2, <2>3, <2>4 DEF CapacityInv
  <1>3. CASE slotQueue # <<>>
    <2> DEFINE h == Head(slotQueue)
    <2>1. /\ permits' = permits
          /\ holders' = (holders \ {r}) \cup {h}
          /\ slotQueue' = Tail(slotQueue)
      BY <1>3 DEF ReleaseSlot
    <2>2. /\ h = slotQueue[1] /\ h \in Requests
          /\ Len(slotQueue) \in Nat /\ Len(slotQueue) >= 1
          /\ Tail(slotQueue) \in Seq(Requests)
          /\ Len(Tail(slotQueue)) = Len(slotQueue) - 1
          /\ \A i \in 1..Len(Tail(slotQueue)) : Tail(slotQueue)[i] = slotQueue[i + 1]
      BY <1>1, <1>3, HeadTailProperties, LenProperties, EmptySeq
    <2>3. phase[h] = "waitSlot" /\ h \notin holders /\ h # r
      BY <2>2 DEF CapacityInv, QueueInv
    <2>4. HoldersInv'
      BY <1>1, <2>1, <2>3 DEF CapacityInv, HoldersInv
    <2>5. QueueInv'
      <3>1. ASSUME NEW i \in 1..Len(slotQueue')
            PROVE  /\ slotQueue'[i] = slotQueue[i + 1]
                   /\ i + 1 \in 1..Len(slotQueue)
                   /\ slotQueue[i + 1] # h
        BY <2>1, <2>2 DEF CapacityInv, QueueInv
      <3>2. ASSUME NEW i \in 1..Len(slotQueue')
            PROVE  phase'[slotQueue'[i]] = "waitSlot" /\ slotQueue'[i] \notin holders'
        <4>1. slotQueue[i + 1] \in Requests /\ slotQueue[i + 1] \notin holders
              /\ phase[slotQueue[i + 1]] = "waitSlot"
          BY <1>1, <3>1, ElementOfSeq DEF CapacityInv, QueueInv
        <4> QED
          BY <1>1, <2>1, <3>1, <4>1
      <3>3. \A i, j \in 1..Len(slotQueue') : slotQueue'[i] = slotQueue'[j] => i = j
        <4> SUFFICES ASSUME NEW i \in 1..Len(slotQueue'), NEW j \in 1..Len(slotQueue'),
                            slotQueue'[i] = slotQueue'[j]
                     PROVE  i = j
          OBVIOUS
        <4>1. i + 1 = j + 1
          BY <3>1 DEF CapacityInv, QueueInv
        <4> QED
          BY <4>1
      <3>4. slotQueue' # <<>> => permits' = 0
        BY <1>3, <2>1 DEF CapacityInv, QueueInv
      <3> QED
        BY <3>2, <3>3, <3>4 DEF QueueInv
    <2>6. PermitsConserved'
      <3>1. IsFiniteSet(holders \ {r}) /\ Cardinality(holders \ {r}) = Cardinality(holders) - 1
            /\ Cardinality(holders) \in Nat
        BY <1>1, HoldersCount
      <3> DEFINE others == holders \ {r}
      <3>2. h \notin others
        BY <2>3
      <3>3. IsFiniteSet(others) /\ Cardinality(others) = Cardinality(holders) - 1
        BY <3>1
      <3> HIDE DEF others
      <3>4. Cardinality(others \cup {h}) = Cardinality(others) + 1
        BY <3>2, <3>3, FS_AddElement
      <3>5. Cardinality((holders \ {r}) \cup {h}) = Cardinality(holders)
        BY <3>1, <3>3, <3>4 DEF others
      <3> QED
        BY <2>1, <3>5 DEF CapacityInv, PermitsConserved
    <2> QED
      BY <2>4, <2>5, <2>6 DEF CapacityInv
  <1> QED
    BY <1>2, <1>3

\* Joining the queue of the semaphore: only when no permit is left.
LEMMA QueueCapacity ==
    ASSUME TypeInv, CapacityInv, NEW r \in Requests, phase[r] = "hasDevice", permits = 0,
           slotQueue' = Append(slotQueue, r), phase' = [phase EXCEPT ![r] = "waitSlot"],
           UNCHANGED <<permits, holders>>
    PROVE  CapacityInv'
  <1>1. phase \in [Requests -> Phases] /\ slotQueue \in Seq(Requests) /\ Len(slotQueue) \in Nat
    BY LenProperties DEF TypeInv, TypeOK
  <1>2. /\ Len(slotQueue') = Len(slotQueue) + 1
        /\ \A i \in 1..Len(slotQueue) : slotQueue'[i] = slotQueue[i]
        /\ slotQueue'[Len(slotQueue) + 1] = r
    BY <1>1, AppendProperties
  <1>3. r \notin holders
    BY DEF CapacityInv, HoldersInv
  <1>4. \A i \in 1..Len(slotQueue) : slotQueue[i] \in Requests /\ slotQueue[i] # r
    BY <1>1, ElementOfSeq DEF CapacityInv, QueueInv
  <1>5. ASSUME NEW i \in 1..Len(slotQueue')
        PROVE  phase'[slotQueue'[i]] = "waitSlot" /\ slotQueue'[i] \notin holders'
    BY <1>1, <1>2, <1>3, <1>4 DEF CapacityInv, QueueInv
  <1>6. \A i, j \in 1..Len(slotQueue') : slotQueue'[i] = slotQueue'[j] => i = j
    BY <1>1, <1>2, <1>4 DEF CapacityInv, QueueInv
  <1>7. QueueInv'
    BY <1>5, <1>6 DEF QueueInv
  <1>8. HoldersInv' /\ PermitsConserved'
    BY <1>1 DEF CapacityInv, HoldersInv, PermitsConserved
  <1> QED
    BY <1>7, <1>8 DEF CapacityInv

\* Leaving the queue without having been served.
LEMMA LeaveQueueCapacity ==
    ASSUME TypeInv, CapacityInv, NEW r \in Requests, r \notin holders,
           phase[r] = "waitSlot", NEW i \in 1..Len(slotQueue), slotQueue[i] = r,
           slotQueue' = RemoveAt(slotQueue, i),
           phase' = [phase EXCEPT ![r] = "unlocking"], UNCHANGED <<permits, holders>>
    PROVE  CapacityInv'
  <1>1. phase \in [Requests -> Phases] /\ slotQueue \in Seq(Requests) /\ Len(slotQueue) \in Nat
    BY LenProperties DEF TypeInv, TypeOK
  <1>2. /\ Len(slotQueue') = Len(slotQueue) - 1
        /\ \A j \in 1..Len(slotQueue) - 1 :
              slotQueue'[j] = IF j < i THEN slotQueue[j] ELSE slotQueue[j + 1]
    BY <1>1, RemoveAtFacts
  <1>3. ASSUME NEW j \in 1..Len(slotQueue')
        PROVE  /\ (IF j < i THEN j ELSE j + 1) \in 1..Len(slotQueue)
               /\ slotQueue'[j] = slotQueue[IF j < i THEN j ELSE j + 1]
               /\ slotQueue'[j] # r
    BY <1>1, <1>2 DEF CapacityInv, QueueInv
  <1>4. ASSUME NEW j \in 1..Len(slotQueue')
        PROVE  phase'[slotQueue'[j]] = "waitSlot" /\ slotQueue'[j] \notin holders'
    <2> DEFINE k == IF j < i THEN j ELSE j + 1
    <2>1. k \in 1..Len(slotQueue) /\ slotQueue'[j] = slotQueue[k] /\ slotQueue[k] # r
      BY <1>3
    <2>2. slotQueue[k] \in Requests /\ phase[slotQueue[k]] = "waitSlot" /\ slotQueue[k] \notin holders
      BY <1>1, <2>1, ElementOfSeq DEF CapacityInv, QueueInv
    <2> QED
      BY <1>1, <2>1, <2>2
  <1>5. \A j, k \in 1..Len(slotQueue') : slotQueue'[j] = slotQueue'[k] => j = k
    <2> SUFFICES ASSUME NEW j \in 1..Len(slotQueue'), NEW k \in 1..Len(slotQueue'),
                        slotQueue'[j] = slotQueue'[k]
                 PROVE  j = k
      OBVIOUS
    <2> DEFINE m == IF j < i THEN j ELSE j + 1
               n == IF k < i THEN k ELSE k + 1
    <2>1. /\ m \in 1..Len(slotQueue) /\ n \in 1..Len(slotQueue)
          /\ slotQueue[m] = slotQueue[n]
      BY <1>3
    <2>2. m = n
      <3> HIDE DEF m, n
      <3> QED
        BY <2>1 DEF CapacityInv, QueueInv
    <2> QED
      BY <2>2
  <1>6. QueueInv'
    <2>1. slotQueue # <<>>
      BY <1>1
    <2> QED
      BY <1>4, <1>5, <2>1 DEF QueueInv, CapacityInv
  <1>7. HoldersInv' /\ PermitsConserved'
    BY <1>1 DEF CapacityInv, HoldersInv, PermitsConserved
  <1> QED
    BY <1>6, <1>7 DEF CapacityInv

LEMMA CapacityNext == TypeInv /\ CapacityInv /\ [Next]_vars => CapacityInv'
  <1> SUFFICES ASSUME TypeInv, CapacityInv, [Next]_vars
               PROVE  CapacityInv'
    OBVIOUS
  <1>0. phase \in [Requests -> Phases] /\ slotQueue \in Seq(Requests)
    BY DEF TypeInv, TypeOK
  \* Steps of the device half of the protocol leave capacity alone.
  <1>1. ASSUME NEW r \in Requests, NEW p \in Phases \ {"running", "waitSlot"},
               phase[r] \notin {"running", "waitSlot"}, phase' = [phase EXCEPT ![r] = p],
               UNCHANGED <<permits, holders, slotQueue>>
        PROVE  CapacityInv'
    <2>1. \A i \in 1..Len(slotQueue) : slotQueue[i] \in Requests /\ slotQueue[i] # r
      BY <1>0, <1>1, ElementOfSeq DEF CapacityInv, QueueInv
    <2>2. QueueInv'
      BY <1>0, <1>1, <2>1 DEF CapacityInv, QueueInv
    <2>3. HoldersInv' /\ PermitsConserved'
      BY <1>0, <1>1 DEF CapacityInv, HoldersInv, PermitsConserved
    <2> QED
      BY <2>2, <2>3 DEF CapacityInv
  <1>2. ASSUME NEW r \in Requests, NEW a \in Addresses, Lookup(r, a)
        PROVE  CapacityInv'
    BY <1>1, <1>2 DEF Lookup, Phases
  <1>3. ASSUME NEW r \in Requests,
               LockDevice(r) \/ DeviceGranted(r) \/ UnlockDevice(r) \/ DropArc(r)
                 \/ CancelDeviceWait(r)
        PROVE  CapacityInv'
    <2>1. CASE LockDevice(r)
      BY <1>1, <2>1 DEF LockDevice, Phases
    <2>2. CASE DeviceGranted(r)
      BY <1>1, <2>2 DEF DeviceGranted, Phases
    <2>3. CASE UnlockDevice(r) \/ CancelDeviceWait(r)
      BY <1>1, <2>3 DEF UnlockDevice, CancelDeviceWait, Phases
    <2>4. CASE DropArc(r)
      BY <1>1, <2>4 DEF DropArc, Phases
    <2> QED
      BY <1>3, <2>1, <2>2, <2>3, <2>4
  <1>4. ASSUME NEW r \in Requests, TakeSlot(r)
        PROVE  CapacityInv'
    <2>1. CASE permits = 0
      BY <1>4, <2>1, QueueCapacity DEF TakeSlot
    <2>2. CASE permits > 0
      <3>1. /\ permits' = permits - 1 /\ permits \in Nat /\ Slots \in Nat
            /\ holders' = holders \cup {r}
            /\ phase' = [phase EXCEPT ![r] = "running"]
            /\ UNCHANGED slotQueue
        BY <1>4, <2>2, LimitsAssumption DEF TakeSlot, TypeInv, TypeOK
      <3>2. r \notin holders
        BY <1>4 DEF TakeSlot, CapacityInv, HoldersInv
      <3>3. slotQueue = <<>>
        BY <2>2 DEF CapacityInv, QueueInv
      <3>4. QueueInv'
        BY <3>1, <3>3 DEF QueueInv
      <3>5. HoldersInv'
        BY <1>0, <3>1 DEF CapacityInv, HoldersInv
      <3>6. Cardinality(holders') = Cardinality(holders) + 1 /\ Cardinality(holders) \in Nat
        BY <3>1, <3>2, HoldersCount
      <3>7. PermitsConserved'
        BY <3>1, <3>6 DEF CapacityInv, PermitsConserved
      <3> QED
        BY <3>4, <3>5, <3>7 DEF CapacityInv
    <2> QED
      BY <2>1, <2>2 DEF TypeInv, TypeOK
  <1>5. ASSUME NEW r \in Requests, SlotGranted(r)
        PROVE  CapacityInv'
    <2>1. \A i \in 1..Len(slotQueue) : slotQueue[i] \in Requests /\ slotQueue[i] # r
      BY <1>0, <1>5, ElementOfSeq DEF SlotGranted, CapacityInv, QueueInv
    <2>2. QueueInv'
      BY <1>0, <1>5, <2>1 DEF SlotGranted, CapacityInv, QueueInv
    <2>3. HoldersInv' /\ PermitsConserved'
      BY <1>0, <1>5 DEF SlotGranted, CapacityInv, HoldersInv, PermitsConserved
    <2> QED
      BY <2>2, <2>3 DEF CapacityInv
  <1>6. ASSUME NEW r \in Requests, Finish(r)
        PROVE  CapacityInv'
    <2>1. r \in holders
      BY <1>6 DEF Finish, CapacityInv, HoldersInv
    <2> QED
      BY <1>6, <2>1, ReleaseCapacity DEF Finish
  <1>7. ASSUME NEW r \in Requests, CancelSlotWait(r)
        PROVE  CapacityInv'
    <2>1. CASE r \in holders
      BY <1>7, <2>1, ReleaseCapacity DEF CancelSlotWait
    <2>2. CASE r \notin holders
      BY <1>7, <2>2, LeaveQueueCapacity DEF CancelSlotWait
    <2> QED
      BY <2>1, <2>2
  <1>8. CASE UNCHANGED vars
    BY <1>8 DEF vars, CapacityInv, QueueInv, HoldersInv, PermitsConserved
  <1> QED
    BY <1>2, <1>3, <1>4, <1>5, <1>6, <1>7, <1>8 DEF Next, Progress

LEMMA CapacityInvariant == Spec => []CapacityInv
  BY TypeInvariant, CapacityInit, CapacityNext, PTL DEF Spec

\* Hand-over and cancellation neither lose nor invent a permit, whatever the
\* capacity and the number of tasks (limits.rs:41-50).
THEOREM Conservation == Spec => []PermitsConserved
  BY CapacityInvariant, PTL DEF CapacityInv

\* A task that owns capacity owns its device as well: no permit is spent on
\* waiting for a busy device (limits.rs:39-46).
THEOREM DeviceFirst == Spec => []CapacityOnlyWithDevice
  <1>1. TypeInv /\ ExclusionInv /\ CapacityInv => CapacityOnlyWithDevice
    BY LimitsAssumption
    DEF CapacityOnlyWithDevice, TypeInv, TypeOK, HoldsReference, ExclusionInv, OwnerInv,
        OwningPhases, CapacityInv, HoldersInv
  <1> QED
    BY <1>1, TypeInvariant, ExclusionInvariant, CapacityInvariant, PTL

\* Nobody waits for a mutex or a permit that is free (limits.rs:40-46).
THEOREM WorkConserving == Spec => []NoIdleWait
  <1>1. ExclusionInv /\ CapacityInv => NoIdleWait
    BY DEF NoIdleWait, ExclusionInv, OwnerInv, CapacityInv, QueueInv
  <1> QED
    BY <1>1, ExclusionInvariant, CapacityInvariant, PTL

(***************************************************************************)
(* Refinement: a lease becomes visible in DeviceAccess when both halves    *)
(* are held, and disappears when its permit is dropped.                    *)
(***************************************************************************)

Serving == [r \in Requests |-> IF phase[r] = "running" THEN key[r] ELSE NoDevice]

\* Steps that start and end no operation are invisible.
LEMMA ServingUnchanged ==
    ASSUME NEW r \in Requests, TypeInv,
           \A q \in Requests : phase'[q] = "running" <=> phase[q] = "running",
           \A q \in Requests : phase[q] = "running" => key'[q] = key[q]
    PROVE  UNCHANGED Serving
  BY DEF Serving

\* A task that takes its permit starts an operation of the abstract device.
LEMMA BeginsAccess ==
    ASSUME TypeInv, ExclusionInv, CapacityInv, CapacityInv', TypeInv', NEW r \in Requests,
           NEW d \in Devices, d = key[r],
           phase[r] \in {"hasDevice", "waitSlot"}, phase' = [phase EXCEPT ![r] = "running"],
           UNCHANGED <<key, arc, registry, owner>>
    PROVE  Access!Begin(r, d)
  <1>1. /\ key[r] \in Devices
        /\ phase \in [Requests -> Phases]
        /\ Serving' = [Serving EXCEPT ![r] = d]
        /\ Serving[r] = NoDevice
    BY DEF Serving, TypeInv, TypeOK, HoldsReference
  <1>2. \A q \in Requests : Serving[q] # d
    <2> SUFFICES ASSUME NEW q \in Requests, Serving[q] = d
                 PROVE  FALSE
      OBVIOUS
    <2>1. phase[q] = "running" /\ key[q] = key[r]
      BY <1>1, LimitsAssumption DEF Serving
    <2>2. arc[q] = registry[key[q]] /\ arc[r] = registry[key[r]]
      BY <2>1, LimitsAssumption DEF TypeInv, HoldsReference, ExclusionInv, RegistryInv
    <2>3. owner[arc[q]] = q /\ owner[arc[r]] = r
      BY <2>1 DEF ExclusionInv, OwnerInv, OwningPhases
    <2> QED
      BY <2>1, <2>2, <2>3
  <1>3. Cardinality({q \in Requests : Serving[q] # NoDevice}) < Slots
    <2> DEFINE busy == {q \in Requests : Serving[q] # NoDevice}
    <2>1. /\ IsFiniteSet(busy) /\ Cardinality(busy) \in Nat
      BY LimitsAssumption, FS_Subset, FS_CardinalityType
    <2>2. r \notin busy /\ Cardinality(busy \cup {r}) = Cardinality(busy) + 1
      BY <1>1, <2>1, FS_AddElement
    <2>3. busy \cup {r} \subseteq holders'
      BY <1>1, LimitsAssumption DEF Serving, CapacityInv, HoldersInv, TypeInv, TypeOK
    <2>4. IsFiniteSet(holders') /\ Cardinality(holders') \in Nat
      BY LimitsAssumption, FS_Subset, FS_CardinalityType DEF TypeInv, TypeOK
    <2>5. Cardinality(busy \cup {r}) <= Cardinality(holders')
      BY <2>3, <2>4, FS_Subset
    <2>6. permits' \in Nat /\ permits' + Cardinality(holders') = Slots /\ Slots \in Nat
      BY LimitsAssumption DEF CapacityInv, PermitsConserved, TypeInv, TypeOK
    <2> QED
      BY <2>1, <2>2, <2>4, <2>5, <2>6
  <1>4. Cardinality(Access!Busy) < Slots
    BY <1>3 DEF Access!Busy, Serving
  <1>5. Serving[r] = NoDevice /\ Serving' = [Serving EXCEPT ![r] = d]
    BY <1>1
  <1>6. Access!Cardinality(Access!Busy) = Cardinality(Access!Busy)
    BY DEF Access!Cardinality, Cardinality
  <1> QED
    BY <1>2, <1>4, <1>5, <1>6 DEF Access!Begin, Serving

LEMMA ImplementsNext ==
    TypeInv /\ ExclusionInv /\ CapacityInv /\ TypeInv' /\ CapacityInv' /\ [Next]_vars
        => [Access!Next]_Serving
  <1> SUFFICES ASSUME TypeInv, ExclusionInv, CapacityInv, TypeInv', CapacityInv', [Next]_vars
               PROVE  [Access!Next]_Serving
    OBVIOUS
  <1>0. phase \in [Requests -> Phases] /\ key \in [Requests -> Devices \cup {NoDevice}]
    BY DEF TypeInv, TypeOK
  <1>1. ASSUME NEW r \in Requests, NEW a \in Addresses, Lookup(r, a)
        PROVE  UNCHANGED Serving
    BY <1>0, <1>1, ServingUnchanged DEF Lookup
  <1>2. ASSUME NEW r \in Requests,
               LockDevice(r) \/ DeviceGranted(r) \/ UnlockDevice(r) \/ DropArc(r)
                 \/ CancelDeviceWait(r) \/ CancelSlotWait(r)
        PROVE  UNCHANGED Serving
    <2>1. CASE LockDevice(r)
      BY <1>0, <2>1, ServingUnchanged DEF LockDevice
    <2>2. CASE ~ LockDevice(r)
      BY <1>0, <1>2, <2>2, ServingUnchanged
      DEF DeviceGranted, UnlockDevice, DropArc, CancelDeviceWait, CancelSlotWait
    <2> QED
      BY <2>1, <2>2
  <1>3. ASSUME NEW r \in Requests, TakeSlot(r)
        PROVE  [Access!Next]_Serving
    <2>1. CASE permits = 0
      BY <1>0, <1>3, <2>1, ServingUnchanged DEF TakeSlot
    <2>2. CASE permits # 0
      <3>1. PICK d \in Devices : d = key[r]
        BY <1>3 DEF TakeSlot, TypeInv, HoldsReference
      <3>2. Access!Begin(r, d)
        BY <1>3, <2>2, <3>1, BeginsAccess DEF TakeSlot
      <3> QED
        BY <3>2 DEF Access!Next
    <2> QED
      BY <2>1, <2>2
  <1>4. ASSUME NEW r \in Requests, SlotGranted(r)
        PROVE  Access!Next
    <2>1. PICK d \in Devices : d = key[r]
      BY <1>4 DEF SlotGranted, TypeInv, HoldsReference
    <2>2. Access!Begin(r, d)
      BY <1>4, <2>1, BeginsAccess DEF SlotGranted
    <2> QED
      BY <2>2 DEF Access!Next
  <1>5. ASSUME NEW r \in Requests, Finish(r)
        PROVE  Access!Next
    <2>1. key[r] \in Devices /\ key[r] # NoDevice
      BY <1>5, LimitsAssumption DEF Finish, TypeInv, HoldsReference
    <2>2. Access!End(r)
      BY <1>0, <1>5, <2>1 DEF Finish, Access!End
    <2> QED
      BY <2>2 DEF Access!Next
  <1>6. CASE UNCHANGED vars
    BY <1>6 DEF vars, Serving
  <1> QED
    BY <1>1, <1>2, <1>3, <1>4, <1>5, <1>6 DEF Next, Progress

\* The weak registry, the two queues and the cancellations implement exclusive
\* access to devices under a bound (limits.rs:1-51), for all parameters.
THEOREM Refinement == Spec => ImplementsDeviceAccess
  <1>1. Init => Access!Init
    BY DEF Init, Access!Init
  <1> QED
    BY <1>1, ImplementsNext, TypeInvariant, ExclusionInvariant, CapacityInvariant, PTL
    DEF Spec, ImplementsDeviceAccess, Access!Spec, Serving
=============================================================================
