----------------------- MODULE RuntimeOwnershipProofs -----------------------
(***************************************************************************)
(* Proofs about RuntimeOwnership for any number of services, commands,     *)
(* ports and launches.                                                     *)
(***************************************************************************)
EXTENDS RuntimeOwnership, TLAPS

\* A step keeps the types; the two records read by a process are there while
\* they are used.
LEMMA TypeNext == TypeOK /\ [Next]_vars => TypeOK'
<1> SUFFICES ASSUME TypeOK, [Next]_vars PROVE TypeOK'
    OBVIOUS
<1> USE RuntimeAssumption DEF TypeOK, Infos, ServicePhases, CommandPhases, Enter, Move, Close,
       osVars, serviceVars, commandVars
<1>1. CASE \E s \in Services : ServiceLaunch(s)
    BY <1>1 DEF ServiceLaunch
<1>2. CASE \E s \in Services : ServiceTryLock(s)
    BY <1>2 DEF ServiceTryLock
<1>3. CASE \E s \in Services : ServiceRead(s)
    BY <1>3 DEF ServiceRead
<1>4. CASE \E s \in Services : ServiceProbe(s)
    BY <1>4 DEF ServiceProbe
<1>5. CASE \E s \in Services : ServiceBind(s)
    BY <1>5 DEF ServiceBind
<1>6. CASE \E s \in Services : ServiceTruncate(s)
    BY <1>6 DEF ServiceTruncate
<1>7. CASE \E s \in Services : ServiceWrite(s)
    BY <1>7 DEF ServiceWrite
<1>8. CASE \E s \in Services : ServiceFail(s)
    BY <1>8 DEF ServiceFail
<1>9. CASE \E s \in Services : ServiceStop(s)
    BY <1>9 DEF ServiceStop
<1>10. CASE \E s \in Services : ServiceFinish(s)
    BY <1>10 DEF ServiceFinish
<1>11. CASE \E s \in Services : ServiceClear(s)
    BY <1>11 DEF ServiceClear
<1>12. CASE \E s \in Services : ServiceUnlock(s)
    BY <1>12 DEF ServiceUnlock
<1>13. CASE \E s \in Services : ServiceCrash(s)
    BY <1>13 DEF ServiceCrash
<1>14. CASE \E c \in Commands : CommandLaunch(c)
    BY <1>14 DEF CommandLaunch
<1>15. CASE \E c \in Commands : CommandTryLock(c)
    BY <1>15 DEF CommandTryLock
<1>16. CASE \E c \in Commands : CommandRead(c)
    BY <1>16 DEF CommandRead
<1>17. CASE \E c \in Commands : CommandProbe(c)
    <2>1. PICK c \in Commands : CommandProbe(c)
        BY <1>17
    <2>2. command' \in [Commands -> CommandPhases]
        BY <2>1 DEF CommandProbe
    <2>3. found' \in [Services \cup Commands -> Infos \cup {NoInfo}]
        BY <2>1 DEF CommandProbe
    <2>4. \A s \in Services : service'[s] = "probe" => found'[s] \in Infos
        BY <2>1 DEF CommandProbe
    <2>5. \A d \in Commands :
            command'[d] \in {"probe", "client", "requested"} => found'[d] \in Infos
        <3>1. \/ found' = found
              \/ command'[c] \in {"off", "wait"} /\ found' = [found EXCEPT ![c] = NoInfo]
            BY <2>1 DEF CommandProbe, Answers, Refuses
        <3>2. command[c] = "probe" /\ \A d \in Commands \ {c} : command'[d] = command[d]
            BY <2>1 DEF CommandProbe
        <3> QED
            BY <3>1, <3>2
    <2> QED
        BY <2>1, <2>2, <2>3, <2>4, <2>5 DEF CommandProbe
<1>18. CASE \E c \in Commands : CommandWait(c)
    BY <1>18 DEF CommandWait
<1>19. CASE \E c \in Commands : CommandPost(c)
    BY <1>19 DEF CommandPost
<1>20. CASE \E c \in Commands : CommandAnswer(c)
    BY <1>20 DEF CommandAnswer
<1>21. CASE \E c \in Commands : CommandLocalDone(c)
    BY <1>21 DEF CommandLocalDone
<1>22. CASE \E c \in Commands : CommandClear(c)
    BY <1>22 DEF CommandClear
<1>23. CASE \E c \in Commands : CommandUnlock(c)
    BY <1>23 DEF CommandUnlock
<1>24. CASE \E c \in Commands : CommandDeadline(c)
    BY <1>24 DEF CommandDeadline
<1>25. CASE \E c \in Commands : CommandCrash(c)
    BY <1>25 DEF CommandCrash
<1>26. CASE \E c \in Commands : JobDone(c)
    BY <1>26 DEF JobDone
<1>27. CASE UNCHANGED vars
    BY <1>27 DEF vars
<1> QED
    BY <1>1, <1>2, <1>3, <1>4, <1>5, <1>6, <1>7, <1>8, <1>9, <1>10,
       <1>11, <1>12, <1>13, <1>14, <1>15, <1>16, <1>17, <1>18, <1>19, <1>20,
       <1>21, <1>22, <1>23, <1>24, <1>25, <1>26, <1>27
    DEF Next, ServiceStep, CommandStep

\* Every variable of the protocol keeps its type (infrastructure/runtime.rs,
\* interfaces/runtime.rs).
THEOREM TypeCorrect == Spec => []TypeOK
<1>1. Init => TypeOK
    BY RuntimeAssumption DEF Init, TypeOK, Infos, ServicePhases, CommandPhases
<1> QED
    BY <1>1, TypeNext, PTL DEF Spec

-----------------------------------------------------------------------------
\* Whoever is past the acquisition of the runtime holds its lock.
OwnersHoldLock ==
    /\ \A s \in Services :
        service[s] \in {"owned", "bound", "publishing", "serving", "stopping",
                       "clearing", "unlocking"} => lock = s
    /\ \A c \in Commands : command[c] \in {"local", "clearing", "unlocking"} => lock = c

\* Routed executions run in a service that serves or waits for them.
JobsAreServed ==
    \A c \in Commands : job[c] # NoProcess => service[job[c]] \in {"serving", "stopping"}

\* A launch that was not posted has no execution at a service yet.
NoJobBeforePost ==
    \A c \in Commands : command[c] \notin {"off", "requested"} => job[c] = NoProcess

\* A launch that has neither the lock nor a client has executed nothing.
NothingStarted ==
    \A c \in Commands :
        command[c] \in {"tryLock", "read", "probe", "wait", "client"} => started[c] = 0

LEMMA OwnersNext == TypeOK /\ OwnersHoldLock /\ [Next]_vars => OwnersHoldLock'
<1> SUFFICES ASSUME TypeOK, OwnersHoldLock, [Next]_vars PROVE OwnersHoldLock'
    OBVIOUS
<1> USE RuntimeAssumption DEF TypeOK, OwnersHoldLock, Enter, Move, Close, osVars, serviceVars, commandVars
<1>1. CASE \E s \in Services : ServiceLaunch(s)
    BY <1>1 DEF ServiceLaunch
<1>2. CASE \E s \in Services : ServiceTryLock(s)
    BY <1>2 DEF ServiceTryLock
<1>3. CASE \E s \in Services : ServiceRead(s)
    BY <1>3 DEF ServiceRead
<1>4. CASE \E s \in Services : ServiceProbe(s)
    BY <1>4 DEF ServiceProbe
<1>5. CASE \E s \in Services : ServiceBind(s)
    BY <1>5 DEF ServiceBind
<1>6. CASE \E s \in Services : ServiceTruncate(s)
    BY <1>6 DEF ServiceTruncate
<1>7. CASE \E s \in Services : ServiceWrite(s)
    BY <1>7 DEF ServiceWrite
<1>8. CASE \E s \in Services : ServiceFail(s)
    BY <1>8 DEF ServiceFail
<1>9. CASE \E s \in Services : ServiceStop(s)
    BY <1>9 DEF ServiceStop
<1>10. CASE \E s \in Services : ServiceFinish(s)
    BY <1>10 DEF ServiceFinish
<1>11. CASE \E s \in Services : ServiceClear(s)
    BY <1>11 DEF ServiceClear
<1>12. CASE \E s \in Services : ServiceUnlock(s)
    BY <1>12 DEF ServiceUnlock
<1>13. CASE \E s \in Services : ServiceCrash(s)
    BY <1>13 DEF ServiceCrash
<1>14. CASE \E c \in Commands : CommandLaunch(c)
    BY <1>14 DEF CommandLaunch
<1>15. CASE \E c \in Commands : CommandTryLock(c)
    BY <1>15 DEF CommandTryLock
<1>16. CASE \E c \in Commands : CommandRead(c)
    BY <1>16 DEF CommandRead
<1>17. CASE \E c \in Commands : CommandProbe(c)
    BY <1>17 DEF CommandProbe
<1>18. CASE \E c \in Commands : CommandWait(c)
    BY <1>18 DEF CommandWait
<1>19. CASE \E c \in Commands : CommandPost(c)
    BY <1>19 DEF CommandPost
<1>20. CASE \E c \in Commands : CommandAnswer(c)
    BY <1>20 DEF CommandAnswer
<1>21. CASE \E c \in Commands : CommandLocalDone(c)
    BY <1>21 DEF CommandLocalDone
<1>22. CASE \E c \in Commands : CommandClear(c)
    BY <1>22 DEF CommandClear
<1>23. CASE \E c \in Commands : CommandUnlock(c)
    BY <1>23 DEF CommandUnlock
<1>24. CASE \E c \in Commands : CommandDeadline(c)
    BY <1>24 DEF CommandDeadline
<1>25. CASE \E c \in Commands : CommandCrash(c)
    BY <1>25 DEF CommandCrash
<1>26. CASE \E c \in Commands : JobDone(c)
    BY <1>26 DEF JobDone
<1>27. CASE UNCHANGED vars
    BY <1>27 DEF vars
<1> QED
    BY <1>1, <1>2, <1>3, <1>4, <1>5, <1>6, <1>7, <1>8, <1>9, <1>10,
       <1>11, <1>12, <1>13, <1>14, <1>15, <1>16, <1>17, <1>18, <1>19, <1>20,
       <1>21, <1>22, <1>23, <1>24, <1>25, <1>26, <1>27
    DEF Next, ServiceStep, CommandStep

LEMMA JobsNext == TypeOK /\ JobsAreServed /\ [Next]_vars => JobsAreServed'
<1> SUFFICES ASSUME TypeOK, JobsAreServed, [Next]_vars PROVE JobsAreServed'
    OBVIOUS
<1> USE RuntimeAssumption DEF TypeOK, JobsAreServed, Accepts, Enter, Move, osVars, serviceVars, commandVars
<1>1. CASE \E s \in Services : ServiceLaunch(s)
    BY <1>1 DEF ServiceLaunch
<1>2. CASE \E s \in Services : ServiceTryLock(s)
    BY <1>2 DEF ServiceTryLock
<1>3. CASE \E s \in Services : ServiceRead(s)
    BY <1>3 DEF ServiceRead
<1>4. CASE \E s \in Services : ServiceProbe(s)
    BY <1>4 DEF ServiceProbe
<1>5. CASE \E s \in Services : ServiceBind(s)
    BY <1>5 DEF ServiceBind
<1>6. CASE \E s \in Services : ServiceTruncate(s)
    BY <1>6 DEF ServiceTruncate
<1>7. CASE \E s \in Services : ServiceWrite(s)
    BY <1>7 DEF ServiceWrite
<1>8. CASE \E s \in Services : ServiceFail(s)
    BY <1>8 DEF ServiceFail
<1>9. CASE \E s \in Services : ServiceStop(s)
    BY <1>9 DEF ServiceStop
<1>10. CASE \E s \in Services : ServiceFinish(s)
    BY <1>10 DEF ServiceFinish
<1>11. CASE \E s \in Services : ServiceClear(s)
    BY <1>11 DEF ServiceClear
<1>12. CASE \E s \in Services : ServiceUnlock(s)
    BY <1>12 DEF ServiceUnlock
<1>13. CASE \E s \in Services : ServiceCrash(s)
    BY <1>13 DEF ServiceCrash
<1>14. CASE \E c \in Commands : CommandLaunch(c)
    BY <1>14 DEF CommandLaunch
<1>15. CASE \E c \in Commands : CommandTryLock(c)
    BY <1>15 DEF CommandTryLock
<1>16. CASE \E c \in Commands : CommandRead(c)
    BY <1>16 DEF CommandRead
<1>17. CASE \E c \in Commands : CommandProbe(c)
    BY <1>17 DEF CommandProbe
<1>18. CASE \E c \in Commands : CommandWait(c)
    BY <1>18 DEF CommandWait
<1>19. CASE \E c \in Commands : CommandPost(c)
    BY <1>19 DEF CommandPost
<1>20. CASE \E c \in Commands : CommandAnswer(c)
    BY <1>20 DEF CommandAnswer
<1>21. CASE \E c \in Commands : CommandLocalDone(c)
    BY <1>21 DEF CommandLocalDone
<1>22. CASE \E c \in Commands : CommandClear(c)
    BY <1>22 DEF CommandClear
<1>23. CASE \E c \in Commands : CommandUnlock(c)
    BY <1>23 DEF CommandUnlock
<1>24. CASE \E c \in Commands : CommandDeadline(c)
    BY <1>24 DEF CommandDeadline
<1>25. CASE \E c \in Commands : CommandCrash(c)
    BY <1>25 DEF CommandCrash
<1>26. CASE \E c \in Commands : JobDone(c)
    BY <1>26 DEF JobDone
<1>27. CASE UNCHANGED vars
    BY <1>27 DEF vars
<1> QED
    BY <1>1, <1>2, <1>3, <1>4, <1>5, <1>6, <1>7, <1>8, <1>9, <1>10,
       <1>11, <1>12, <1>13, <1>14, <1>15, <1>16, <1>17, <1>18, <1>19, <1>20,
       <1>21, <1>22, <1>23, <1>24, <1>25, <1>26, <1>27
    DEF Next, ServiceStep, CommandStep

\* One runtime at a time: only the holder of runtime.lock operates devices, in a
\* command-line execution or on behalf of one (RuntimeLock, RuntimeServer::finish).
THEOREM OneRuntime == Spec => []SingleRuntime
<1>1. Init => OwnersHoldLock /\ JobsAreServed
    BY RuntimeAssumption DEF Init, OwnersHoldLock, JobsAreServed
<1>2. TypeOK /\ OwnersHoldLock /\ JobsAreServed => SingleRuntime
    BY RuntimeAssumption DEF TypeOK, OwnersHoldLock, JobsAreServed, SingleRuntime, Operating
<1> QED
    BY <1>1, <1>2, TypeCorrect, OwnersNext, JobsNext, PTL DEF Spec

LEMMA PublishedNext ==
    TypeOK /\ OwnersHoldLock /\ ServingIsPublished /\ [Next]_vars => ServingIsPublished'
<1> SUFFICES ASSUME TypeOK, OwnersHoldLock, ServingIsPublished, [Next]_vars
             PROVE ServingIsPublished'
    OBVIOUS
<1> USE RuntimeAssumption DEF TypeOK, OwnersHoldLock, ServingIsPublished, Enter, Move, osVars, serviceVars, commandVars
<1>1. CASE \E s \in Services : ServiceLaunch(s)
    BY <1>1 DEF ServiceLaunch
<1>2. CASE \E s \in Services : ServiceTryLock(s)
    BY <1>2 DEF ServiceTryLock
<1>3. CASE \E s \in Services : ServiceRead(s)
    BY <1>3 DEF ServiceRead
<1>4. CASE \E s \in Services : ServiceProbe(s)
    BY <1>4 DEF ServiceProbe
<1>5. CASE \E s \in Services : ServiceBind(s)
    BY <1>5 DEF ServiceBind
<1>6. CASE \E s \in Services : ServiceTruncate(s)
    BY <1>6 DEF ServiceTruncate
<1>7. CASE \E s \in Services : ServiceWrite(s)
    BY <1>7 DEF ServiceWrite
<1>8. CASE \E s \in Services : ServiceFail(s)
    BY <1>8 DEF ServiceFail
<1>9. CASE \E s \in Services : ServiceStop(s)
    BY <1>9 DEF ServiceStop
<1>10. CASE \E s \in Services : ServiceFinish(s)
    BY <1>10 DEF ServiceFinish
<1>11. CASE \E s \in Services : ServiceClear(s)
    BY <1>11 DEF ServiceClear
<1>12. CASE \E s \in Services : ServiceUnlock(s)
    BY <1>12 DEF ServiceUnlock
<1>13. CASE \E s \in Services : ServiceCrash(s)
    BY <1>13 DEF ServiceCrash
<1>14. CASE \E c \in Commands : CommandLaunch(c)
    BY <1>14 DEF CommandLaunch
<1>15. CASE \E c \in Commands : CommandTryLock(c)
    BY <1>15 DEF CommandTryLock
<1>16. CASE \E c \in Commands : CommandRead(c)
    BY <1>16 DEF CommandRead
<1>17. CASE \E c \in Commands : CommandProbe(c)
    BY <1>17 DEF CommandProbe
<1>18. CASE \E c \in Commands : CommandWait(c)
    BY <1>18 DEF CommandWait
<1>19. CASE \E c \in Commands : CommandPost(c)
    BY <1>19 DEF CommandPost
<1>20. CASE \E c \in Commands : CommandAnswer(c)
    BY <1>20 DEF CommandAnswer
<1>21. CASE \E c \in Commands : CommandLocalDone(c)
    BY <1>21 DEF CommandLocalDone
<1>22. CASE \E c \in Commands : CommandClear(c)
    BY <1>22 DEF CommandClear
<1>23. CASE \E c \in Commands : CommandUnlock(c)
    BY <1>23 DEF CommandUnlock
<1>24. CASE \E c \in Commands : CommandDeadline(c)
    BY <1>24 DEF CommandDeadline
<1>25. CASE \E c \in Commands : CommandCrash(c)
    BY <1>25 DEF CommandCrash
<1>26. CASE \E c \in Commands : JobDone(c)
    BY <1>26 DEF JobDone
<1>27. CASE UNCHANGED vars
    BY <1>27 DEF vars
<1> QED
    BY <1>1, <1>2, <1>3, <1>4, <1>5, <1>6, <1>7, <1>8, <1>9, <1>10,
       <1>11, <1>12, <1>13, <1>14, <1>15, <1>16, <1>17, <1>18, <1>19, <1>20,
       <1>21, <1>22, <1>23, <1>24, <1>25, <1>26, <1>27
    DEF Next, ServiceStep, CommandStep

\* The metadata of a serving instance stays in runtime.json whatever other
\* processes start, end or fail (RuntimeLock::publish and drop).
THEOREM Published == Spec => []ServingIsPublished
<1>1. Init => OwnersHoldLock /\ ServingIsPublished
    BY DEF Init, OwnersHoldLock, ServingIsPublished
<1> QED
    BY <1>1, TypeCorrect, OwnersNext, PublishedNext, PTL DEF Spec

LEMMA NoJobNext == TypeOK /\ NoJobBeforePost /\ [Next]_vars => NoJobBeforePost'
<1> SUFFICES ASSUME TypeOK, NoJobBeforePost, [Next]_vars PROVE NoJobBeforePost'
    OBVIOUS
<1> USE RuntimeAssumption DEF TypeOK, NoJobBeforePost, Enter, Move, osVars, serviceVars, commandVars
<1>1. CASE \E s \in Services : ServiceLaunch(s)
    BY <1>1 DEF ServiceLaunch
<1>2. CASE \E s \in Services : ServiceTryLock(s)
    BY <1>2 DEF ServiceTryLock
<1>3. CASE \E s \in Services : ServiceRead(s)
    BY <1>3 DEF ServiceRead
<1>4. CASE \E s \in Services : ServiceProbe(s)
    BY <1>4 DEF ServiceProbe
<1>5. CASE \E s \in Services : ServiceBind(s)
    BY <1>5 DEF ServiceBind
<1>6. CASE \E s \in Services : ServiceTruncate(s)
    BY <1>6 DEF ServiceTruncate
<1>7. CASE \E s \in Services : ServiceWrite(s)
    BY <1>7 DEF ServiceWrite
<1>8. CASE \E s \in Services : ServiceFail(s)
    BY <1>8 DEF ServiceFail
<1>9. CASE \E s \in Services : ServiceStop(s)
    BY <1>9 DEF ServiceStop
<1>10. CASE \E s \in Services : ServiceFinish(s)
    BY <1>10 DEF ServiceFinish
<1>11. CASE \E s \in Services : ServiceClear(s)
    BY <1>11 DEF ServiceClear
<1>12. CASE \E s \in Services : ServiceUnlock(s)
    BY <1>12 DEF ServiceUnlock
<1>13. CASE \E s \in Services : ServiceCrash(s)
    BY <1>13 DEF ServiceCrash
<1>14. CASE \E c \in Commands : CommandLaunch(c)
    BY <1>14 DEF CommandLaunch
<1>15. CASE \E c \in Commands : CommandTryLock(c)
    BY <1>15 DEF CommandTryLock
<1>16. CASE \E c \in Commands : CommandRead(c)
    BY <1>16 DEF CommandRead
<1>17. CASE \E c \in Commands : CommandProbe(c)
    BY <1>17 DEF CommandProbe
<1>18. CASE \E c \in Commands : CommandWait(c)
    BY <1>18 DEF CommandWait
<1>19. CASE \E c \in Commands : CommandPost(c)
    BY <1>19 DEF CommandPost
<1>20. CASE \E c \in Commands : CommandAnswer(c)
    BY <1>20 DEF CommandAnswer
<1>21. CASE \E c \in Commands : CommandLocalDone(c)
    BY <1>21 DEF CommandLocalDone
<1>22. CASE \E c \in Commands : CommandClear(c)
    BY <1>22 DEF CommandClear
<1>23. CASE \E c \in Commands : CommandUnlock(c)
    BY <1>23 DEF CommandUnlock
<1>24. CASE \E c \in Commands : CommandDeadline(c)
    BY <1>24 DEF CommandDeadline
<1>25. CASE \E c \in Commands : CommandCrash(c)
    BY <1>25 DEF CommandCrash
<1>26. CASE \E c \in Commands : JobDone(c)
    BY <1>26 DEF JobDone
<1>27. CASE UNCHANGED vars
    BY <1>27 DEF vars
<1> QED
    BY <1>1, <1>2, <1>3, <1>4, <1>5, <1>6, <1>7, <1>8, <1>9, <1>10,
       <1>11, <1>12, <1>13, <1>14, <1>15, <1>16, <1>17, <1>18, <1>19, <1>20,
       <1>21, <1>22, <1>23, <1>24, <1>25, <1>26, <1>27
    DEF Next, ServiceStep, CommandStep

LEMMA ReachNext ==
    /\ TypeOK /\ JobsAreServed /\ NoJobBeforePost
    /\ RequestsReachTheirInstance
    /\ [Next]_vars
    => RequestsReachTheirInstance'
<1> SUFFICES ASSUME TypeOK, JobsAreServed, NoJobBeforePost, RequestsReachTheirInstance,
                    [Next]_vars
             PROVE RequestsReachTheirInstance'
    OBVIOUS
<1> USE RuntimeAssumption DEF TypeOK, JobsAreServed, NoJobBeforePost, RequestsReachTheirInstance, Accepts, Answers, Enter, Move, osVars, serviceVars, commandVars
<1>1. CASE \E s \in Services : ServiceLaunch(s)
    BY <1>1 DEF ServiceLaunch
<1>2. CASE \E s \in Services : ServiceTryLock(s)
    BY <1>2 DEF ServiceTryLock
<1>3. CASE \E s \in Services : ServiceRead(s)
    BY <1>3 DEF ServiceRead
<1>4. CASE \E s \in Services : ServiceProbe(s)
    BY <1>4 DEF ServiceProbe
<1>5. CASE \E s \in Services : ServiceBind(s)
    BY <1>5 DEF ServiceBind
<1>6. CASE \E s \in Services : ServiceTruncate(s)
    BY <1>6 DEF ServiceTruncate
<1>7. CASE \E s \in Services : ServiceWrite(s)
    BY <1>7 DEF ServiceWrite
<1>8. CASE \E s \in Services : ServiceFail(s)
    BY <1>8 DEF ServiceFail
<1>9. CASE \E s \in Services : ServiceStop(s)
    BY <1>9 DEF ServiceStop
<1>10. CASE \E s \in Services : ServiceFinish(s)
    BY <1>10 DEF ServiceFinish
<1>11. CASE \E s \in Services : ServiceClear(s)
    BY <1>11 DEF ServiceClear
<1>12. CASE \E s \in Services : ServiceUnlock(s)
    BY <1>12 DEF ServiceUnlock
<1>13. CASE \E s \in Services : ServiceCrash(s)
    BY <1>13 DEF ServiceCrash
<1>14. CASE \E c \in Commands : CommandLaunch(c)
    BY <1>14 DEF CommandLaunch
<1>15. CASE \E c \in Commands : CommandTryLock(c)
    BY <1>15 DEF CommandTryLock
<1>16. CASE \E c \in Commands : CommandRead(c)
    BY <1>16 DEF CommandRead
<1>17. CASE \E c \in Commands : CommandProbe(c)
    BY <1>17 DEF CommandProbe
<1>18. CASE \E c \in Commands : CommandWait(c)
    BY <1>18 DEF CommandWait
<1>19. CASE \E c \in Commands : CommandPost(c)
    BY <1>19 DEF CommandPost
<1>20. CASE \E c \in Commands : CommandAnswer(c)
    BY <1>20 DEF CommandAnswer
<1>21. CASE \E c \in Commands : CommandLocalDone(c)
    BY <1>21 DEF CommandLocalDone
<1>22. CASE \E c \in Commands : CommandClear(c)
    BY <1>22 DEF CommandClear
<1>23. CASE \E c \in Commands : CommandUnlock(c)
    BY <1>23 DEF CommandUnlock
<1>24. CASE \E c \in Commands : CommandDeadline(c)
    BY <1>24 DEF CommandDeadline
<1>25. CASE \E c \in Commands : CommandCrash(c)
    BY <1>25 DEF CommandCrash
<1>26. CASE \E c \in Commands : JobDone(c)
    BY <1>26 DEF JobDone
<1>27. CASE UNCHANGED vars
    BY <1>27 DEF vars
<1> QED
    BY <1>1, <1>2, <1>3, <1>4, <1>5, <1>6, <1>7, <1>8, <1>9, <1>10,
       <1>11, <1>12, <1>13, <1>14, <1>15, <1>16, <1>17, <1>18, <1>19, <1>20,
       <1>21, <1>22, <1>23, <1>24, <1>25, <1>26, <1>27
    DEF Next, ServiceStep, CommandStep

\* A request is executed by the instance whose metadata its command has read,
\* also when another service listens on the same port by then (authenticate).
THEOREM Reach == Spec => []RequestsReachTheirInstance
<1>1. Init => JobsAreServed /\ NoJobBeforePost /\ RequestsReachTheirInstance
    BY RuntimeAssumption DEF Init, JobsAreServed, NoJobBeforePost, RequestsReachTheirInstance
<1> QED
    BY <1>1, TypeCorrect, JobsNext, NoJobNext, ReachNext, PTL DEF Spec

LEMMA OnceNext ==
    TypeOK /\ NothingStarted /\ AtMostOneExecution /\ [Next]_vars
    => (NothingStarted /\ AtMostOneExecution)'
<1> SUFFICES ASSUME TypeOK, NothingStarted, AtMostOneExecution, [Next]_vars
             PROVE (NothingStarted /\ AtMostOneExecution)'
    OBVIOUS
<1> USE RuntimeAssumption DEF TypeOK, NothingStarted, AtMostOneExecution, Enter, Move, osVars, serviceVars, commandVars
<1>1. CASE \E s \in Services : ServiceLaunch(s)
    BY <1>1 DEF ServiceLaunch
<1>2. CASE \E s \in Services : ServiceTryLock(s)
    BY <1>2 DEF ServiceTryLock
<1>3. CASE \E s \in Services : ServiceRead(s)
    BY <1>3 DEF ServiceRead
<1>4. CASE \E s \in Services : ServiceProbe(s)
    BY <1>4 DEF ServiceProbe
<1>5. CASE \E s \in Services : ServiceBind(s)
    BY <1>5 DEF ServiceBind
<1>6. CASE \E s \in Services : ServiceTruncate(s)
    BY <1>6 DEF ServiceTruncate
<1>7. CASE \E s \in Services : ServiceWrite(s)
    BY <1>7 DEF ServiceWrite
<1>8. CASE \E s \in Services : ServiceFail(s)
    BY <1>8 DEF ServiceFail
<1>9. CASE \E s \in Services : ServiceStop(s)
    BY <1>9 DEF ServiceStop
<1>10. CASE \E s \in Services : ServiceFinish(s)
    BY <1>10 DEF ServiceFinish
<1>11. CASE \E s \in Services : ServiceClear(s)
    BY <1>11 DEF ServiceClear
<1>12. CASE \E s \in Services : ServiceUnlock(s)
    BY <1>12 DEF ServiceUnlock
<1>13. CASE \E s \in Services : ServiceCrash(s)
    BY <1>13 DEF ServiceCrash
<1>14. CASE \E c \in Commands : CommandLaunch(c)
    BY <1>14 DEF CommandLaunch
<1>15. CASE \E c \in Commands : CommandTryLock(c)
    BY <1>15 DEF CommandTryLock
<1>16. CASE \E c \in Commands : CommandRead(c)
    BY <1>16 DEF CommandRead
<1>17. CASE \E c \in Commands : CommandProbe(c)
    BY <1>17 DEF CommandProbe
<1>18. CASE \E c \in Commands : CommandWait(c)
    BY <1>18 DEF CommandWait
<1>19. CASE \E c \in Commands : CommandPost(c)
    BY <1>19 DEF CommandPost
<1>20. CASE \E c \in Commands : CommandAnswer(c)
    BY <1>20 DEF CommandAnswer
<1>21. CASE \E c \in Commands : CommandLocalDone(c)
    BY <1>21 DEF CommandLocalDone
<1>22. CASE \E c \in Commands : CommandClear(c)
    BY <1>22 DEF CommandClear
<1>23. CASE \E c \in Commands : CommandUnlock(c)
    BY <1>23 DEF CommandUnlock
<1>24. CASE \E c \in Commands : CommandDeadline(c)
    BY <1>24 DEF CommandDeadline
<1>25. CASE \E c \in Commands : CommandCrash(c)
    BY <1>25 DEF CommandCrash
<1>26. CASE \E c \in Commands : JobDone(c)
    BY <1>26 DEF JobDone
<1>27. CASE UNCHANGED vars
    BY <1>27 DEF vars
<1> QED
    BY <1>1, <1>2, <1>3, <1>4, <1>5, <1>6, <1>7, <1>8, <1>9, <1>10,
       <1>11, <1>12, <1>13, <1>14, <1>15, <1>16, <1>17, <1>18, <1>19, <1>20,
       <1>21, <1>22, <1>23, <1>24, <1>25, <1>26, <1>27
    DEF Next, ServiceStep, CommandStep

\* No launch of a command is executed twice: errors lead neither to a second
\* request nor to a local execution (RuntimeClient::execute, launch).
THEOREM Once == Spec => []AtMostOneExecution
<1>1. Init => NothingStarted /\ AtMostOneExecution
    BY DEF Init, NothingStarted, AtMostOneExecution
<1> QED
    BY <1>1, TypeCorrect, OnceNext, PTL DEF Spec
=============================================================================
