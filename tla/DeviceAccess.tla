---------------------------- MODULE DeviceAccess ----------------------------
(***************************************************************************)
(* What the execution limits of rauto promise to everything above them     *)
(* ("A permit spans a complete device operation, including its rollback",  *)
(* src/src/application/limits.rs:1): an operation owns the device it talks *)
(* to for as long as it runs, and no more than Slots operations run at     *)
(* once in one process.  How waiting, hand-over and cancellation work is   *)
(* left to ExecutionLimits, which implements this module.                  *)
(***************************************************************************)
EXTENDS Naturals, FiniteSets

CONSTANTS Requests,   \* the tasks that may ask for a device
          Devices,    \* the devices, as the (host, port) keys of the code
          Slots,      \* operations that may run at the same time
          NoDevice    \* what an idle task is serving

VARIABLE serving      \* the device each task operates on, or NoDevice

Busy == {r \in Requests : serving[r] # NoDevice}

Init == serving = [r \in Requests |-> NoDevice]

\* An operation starts: nobody else is on the device and capacity is left.
Begin(r, d) ==
    /\ serving[r] = NoDevice
    /\ \A q \in Requests : serving[q] # d
    /\ Cardinality(Busy) < Slots
    /\ serving' = [serving EXCEPT ![r] = d]

\* An operation ends, by itself or because its future is dropped.
End(r) ==
    /\ serving[r] # NoDevice
    /\ serving' = [serving EXCEPT ![r] = NoDevice]

Next == \E r \in Requests : End(r) \/ \E d \in Devices : Begin(r, d)

Spec == Init /\ [][Next]_serving
=============================================================================
