----------------------- MODULE EngineLifecycleProofs -----------------------
(***************************************************************************)
(* Proofs that the engine's lifecycle keeps its types, publishes readiness *)
(* only over a live runtime, leaves nothing running when it is closed or   *)
(* failed, and never takes a stop back, for any number of connections,     *)
(* probes, plans and coordinated calls.                                    *)
(***************************************************************************)
EXTENDS EngineLifecycle, TLAPS

(* The state, the stop request and the close promise tell the same story.  *)
StopInv ==
  /\ stopRequested <=> closing # "none"
  /\ stopRequested <=> state \in {"stopping", "closed"}
  /\ state = "closed" <=> closing \in Settled
  /\ state = "idle" => starting = "none"
  /\ state = "starting" => starting \in {"acquire", "runtime", "probe", "cleanup"}
  /\ state = "ready" => starting = "resolved"
  /\ state = "failed" => starting = "rejected"

(* A start is under way only before its cleanup, and only once.            *)
StartInv ==
  /\ bootstrap \in {"idle", "prepare"} => starting = "none"
  /\ starting = "none" => bootstrap \in {"idle", "prepare", "rejected"}
  /\ starting = "none" => acquired = 0 /\ probed = 0 /\ runtime \in {"none"}
  /\ starting \in {"acquire", "runtime", "probe"} => cleaning = "none"
  /\ starting = "cleanup" => cleaning # "none"
  /\ starting = "acquire" => acquired < Conns /\ probed = 0 /\ runtime = "none"
  /\ starting = "runtime" => acquired = Conns /\ probed = 0 /\ runtime = "none"
  /\ starting = "probe" => acquired = Conns /\ probed < Probes /\ runtime = "live"
  /\ starting = "resolved" /\ cleaning = "none" =>
       acquired = Conns /\ probed = Probes /\ runtime = "live"

(* Activation belongs to a resolved start and is never begun twice.        *)
ActivityInv ==
  /\ bootstrap \in {"idle", "prepare", "start", "coordinate"} => activating = "none"
  /\ bootstrap \in {"idle", "prepare", "start", "coordinate", "workers"} =>
       publishing = "none"
  /\ bootstrap \in {"idle", "prepare", "start", "coordinate", "workers", "publisher"} =>
       scheduling = "none"
  /\ activating = "none" => activated = 0
  /\ activating \in {"recover", "resolve"} => activated < Plans
  /\ activating \in {"recover", "resolve"} => starting = "resolved"
  /\ publishing = "pending" => starting = "resolved"
  /\ scheduling = "pending" => starting = "resolved"
  /\ running # {} => starting = "resolved"

(* Cleanup begins at the end of a failed start or of a close that waited   *)
(* for everything under way.                                               *)
CloseInv ==
  /\ closing \in {"activating", "publishing", "scheduling", "cleanup"} \cup Settled =>
       starting \in {"none"} \cup Settled
  /\ closing \in {"publishing", "scheduling", "cleanup"} \cup Settled =>
       activating \in {"none"} \cup Settled
  /\ closing \in {"scheduling", "cleanup"} \cup Settled =>
       publishing \in {"none"} \cup Settled
  /\ closing \in {"cleanup"} \cup Settled =>
       scheduling \in {"none"} \cup Settled /\ cleaning # "none"
  /\ closing \in Settled => cleaning \in Settled
  /\ starting = "rejected" /\ state = "failed" => cleaning \in Settled
  /\ cleaning # "none" =>
       starting \in {"cleanup", "rejected"} \/ closing \in {"cleanup"} \cup Settled

(* Every resource is open until its turn in the reversed list.             *)
ResourceInv ==
  /\ cleaning \in {"none", "dispose"} =>
       \A i \in 1..Conns : resource[i] = IF i <= acquired THEN "open" ELSE "none"
  /\ cleaning = "release" =>
       /\ toRelease <= acquired
       /\ \A i \in 1..Conns :
            resource[i] = IF i <= toRelease THEN "open"
                          ELSE IF i <= acquired THEN "released" ELSE "none"
  /\ cleaning \in Settled => \A i \in 1..Conns : resource[i] # "open"
  /\ cleaning \in {"release"} \cup Settled => runtime # "live" /\ running = {}

IInv == TypeOK /\ StopInv /\ StartInv /\ ActivityInv /\ CloseInv /\ ResourceInv

(* Clients bound after a stop request: the activations that follow either  *)
(* reject, and the catch block detaches them, or are all inert.            *)
BoundInv ==
  bound /\ stopRequested =>
    \/ /\ bootstrap = "workers"
       /\ activating = IF Plans = 0 THEN "resolved" ELSE "rejected"
    \/ /\ bootstrap = "publisher" /\ Plans = 0
       /\ publishing = IF HasPublisher THEN "rejected" ELSE "resolved"
    \/ /\ bootstrap = "scheduler" /\ Plans = 0 /\ ~HasPublisher
       /\ scheduling = IF HasScheduler THEN "rejected" ELSE "resolved"
    \/ bootstrap = "resolved" /\ Plans = 0 /\ ~HasPublisher /\ ~HasScheduler

-----------------------------------------------------------------------------
(* The inductive invariant.                                                *)

(* The invariant holds initially.                                          *)
LEMMA InitIInv == Init => IInv
<1> SUFFICES ASSUME Init PROVE IInv
  OBVIOUS
<1> USE EngineAssumption DEF Init, Settled
<1>1. TypeOK
  <2>1. stopRequested \in BOOLEAN /\ failures \in BOOLEAN /\ bound \in BOOLEAN
    BY Zenon
  <2> QED
    BY <2>1 DEF TypeOK, States
<1>2. StopInv /\ CloseInv
  BY DEF StopInv, CloseInv
<1>3. StartInv /\ ActivityInv
  BY DEF StartInv, ActivityInv
<1>4. ResourceInv
  BY DEF ResourceInv
<1> QED
  BY <1>1, <1>2, <1>3, <1>4 DEF IInv

(* The Boolean variables keep their type.                                  *)
LEMMA NextBooleans ==
  ASSUME TypeOK, [Next]_vars
  PROVE  stopRequested' \in BOOLEAN /\ failures' \in BOOLEAN /\ bound' \in BOOLEAN
<1>1. stopRequested \in BOOLEAN /\ failures \in BOOLEAN /\ bound \in BOOLEAN
  BY DEF TypeOK
<1>2. CASE Bootstrap \/ Destroy \/ DestroySettles
  BY <1>1, <1>2, Zenon DEF Bootstrap, Destroy, DestroySettles, RequestStop, cleanVars
<1>3. CASE Starts \/ StartRejects
  BY <1>1, <1>3, Zenon DEF Starts, Acquired, RuntimeMade, Probed, StartRejects,
     cleanVars, hostVars
<1>4. CASE Activates
  BY <1>1, <1>4, Zenon DEF Activates, Recovered, WorkerStarted, PublisherStarted,
     SchedulerStarted, cleanVars, hostVars
<1>5. CASE Cleans
  <2>1. CASE CleanupSettles
    BY <1>1, <2>1, Zenon DEF CleanupSettles, cleanVars, hostVars
  <2>2. ASSUME NEW ok \in BOOLEAN, Disposed(ok) \/ Released(ok)
        PROVE  failures' \in BOOLEAN
    BY <1>1, <2>2, Zenon DEF Disposed, Released
  <2>3. ASSUME NEW ok \in BOOLEAN, Disposed(ok) \/ Released(ok)
        PROVE  UNCHANGED <<stopRequested, bound>>
    BY <2>3 DEF Disposed, Released, hostVars
  <2> QED
    BY <1>1, <1>5, <2>1, <2>2, <2>3 DEF Cleans
<1>6. CASE Closes
  BY <1>1, <1>6, Zenon DEF Closes, CloseAwaits, CloseSettles, cleanVars, hostVars
<1>7. CASE Hosts
  BY <1>1, <1>7, Zenon DEF Hosts, Prepared, Started, Coordinate, Bind, WorkersActivated,
     PublisherActivated, SchedulerActivated, Activated, BootstrapRejects, BootstrapFails,
     RequestStop, cleanVars
<1>8. CASE UNCHANGED vars
  BY <1>1, <1>8, Zenon DEF vars, cleanVars, hostVars
<1> QED
  BY <1>2, <1>3, <1>4, <1>5, <1>6, <1>7, <1>8, Zenon DEF Next

(* The synchronous part of close keeps the types of what it sets.          *)
LEMMA RequestStopType ==
  ASSUME TypeOK, RequestStop
  PROVE  /\ state' \in States
         /\ closing' \in {"none", "starting", "activating", "publishing", "scheduling",
                         "cleanup"} \cup Settled
  BY DEF TypeOK, RequestStop, States

(* A step keeps every variable's type: counters stay below their bounds    *)
(* because a step past them needs a start, activation or cleanup under way. *)
LEMMA NextTypeOK ==
  ASSUME TypeOK, StartInv, ActivityInv, ResourceInv, [Next]_vars
  PROVE  TypeOK'
<1> USE DEF ActivityInv, ResourceInv, StartInv, TypeOK, startVars, cleanVars,
    activityVars, hostVars, Settled, States
<1>1. CASE Bootstrap
  BY <1>1, EngineAssumption DEF Bootstrap
<1>2. CASE Destroy
  BY <1>2, NextBooleans, RequestStopType, EngineAssumption DEF Destroy
<1>3. CASE DestroySettles
  BY <1>3, NextBooleans, RequestStopType, EngineAssumption DEF DestroySettles
<1>4. ASSUME NEW ok \in BOOLEAN, Acquired(ok) PROVE TypeOK'
  BY <1>4, EngineAssumption DEF Acquired, StartContinues, Cleanup
<1>5. ASSUME NEW ok \in BOOLEAN, RuntimeMade(ok) PROVE TypeOK'
  BY <1>5, EngineAssumption DEF RuntimeMade, StartContinues, Cleanup
<1>6. ASSUME NEW ok \in BOOLEAN, Probed(ok) PROVE TypeOK'
  BY <1>6, EngineAssumption DEF Probed, StartContinues, Cleanup
<1>7. CASE StartRejects
  BY <1>7, EngineAssumption DEF StartRejects
<1>8. ASSUME NEW ok \in BOOLEAN, Recovered(ok) PROVE TypeOK'
  BY <1>8, EngineAssumption DEF Recovered
<1>9. ASSUME NEW ok \in BOOLEAN, WorkerStarted(ok) PROVE TypeOK'
  BY <1>9, EngineAssumption DEF WorkerStarted
<1>10. ASSUME NEW ok \in BOOLEAN, PublisherStarted(ok) PROVE TypeOK'
  BY <1>10, EngineAssumption DEF PublisherStarted
<1>11. ASSUME NEW ok \in BOOLEAN, SchedulerStarted(ok) PROVE TypeOK'
  BY <1>11, EngineAssumption DEF SchedulerStarted
<1>12. ASSUME NEW ok \in BOOLEAN, Disposed(ok) PROVE TypeOK'
  BY <1>12, EngineAssumption DEF Disposed
<1>13. ASSUME NEW ok \in BOOLEAN, Released(ok) PROVE TypeOK'
  BY <1>13, EngineAssumption DEF Released
<1>14. CASE CleanupSettles
  BY <1>14, EngineAssumption DEF CleanupSettles
<1>15. CASE CloseAwaits
  BY <1>15, EngineAssumption DEF CloseAwaits, AwaitBefore, Cleanup
<1>16. CASE CloseSettles
  BY <1>16, EngineAssumption DEF CloseSettles
<1>17. ASSUME NEW ok \in BOOLEAN, Prepared(ok) PROVE TypeOK'
  BY <1>17, EngineAssumption DEF Prepared
<1>18. CASE Started
  BY <1>18, NextBooleans, RequestStopType, EngineAssumption DEF Started, BootstrapFails
<1>19. ASSUME NEW ok \in BOOLEAN, Coordinate(ok) PROVE TypeOK'
  BY <1>19, NextBooleans, RequestStopType, EngineAssumption DEF Coordinate,
     BootstrapFails
<1>20. ASSUME NEW ok \in BOOLEAN, Bind(ok) PROVE TypeOK'
  BY <1>20, NextBooleans, RequestStopType, EngineAssumption DEF Bind, BootstrapFails,
     ActivateWorkers, Open
<1>21. CASE WorkersActivated
  BY <1>21, NextBooleans, RequestStopType, EngineAssumption DEF WorkersActivated,
     Activated, BootstrapFails, ActivatePublisher, Open
<1>22. CASE PublisherActivated
  BY <1>22, NextBooleans, RequestStopType, EngineAssumption DEF PublisherActivated,
     Activated, BootstrapFails, ActivateScheduler, Open
<1>23. CASE SchedulerActivated
  BY <1>23, NextBooleans, RequestStopType, EngineAssumption DEF SchedulerActivated,
     Activated, BootstrapFails
<1>24. CASE BootstrapRejects
  BY <1>24, EngineAssumption DEF BootstrapRejects
<1>25. CASE UNCHANGED vars
  BY <1>25, EngineAssumption DEF vars
<1> QED BY <1>1, <1>2, <1>3, <1>4, <1>5, <1>6, <1>7, <1>8, <1>9, <1>10, <1>11, <1>12,
    <1>13, <1>14, <1>15, <1>16, <1>17, <1>18, <1>19, <1>20, <1>21, <1>22, <1>23, <1>24,
    <1>25 DEF Next, Starts, Activates, Cleans, Closes, Hosts

(* A step changes the state, the stop request and the close together.      *)
LEMMA NextStopInv == ASSUME StopInv, [Next]_vars PROVE StopInv'
<1> USE DEF StopInv, startVars, cleanVars, activityVars, hostVars, Settled, States
<1>1. CASE Bootstrap
  BY <1>1, EngineAssumption DEF Bootstrap
<1>2. CASE Destroy
  BY <1>2, EngineAssumption DEF Destroy, RequestStop
<1>3. CASE DestroySettles
  BY <1>3, EngineAssumption DEF DestroySettles
<1>4. ASSUME NEW ok \in BOOLEAN, Acquired(ok) PROVE StopInv'
  BY <1>4, EngineAssumption DEF Acquired, StartContinues, Cleanup
<1>5. ASSUME NEW ok \in BOOLEAN, RuntimeMade(ok) PROVE StopInv'
  BY <1>5, EngineAssumption DEF RuntimeMade, StartContinues, Cleanup
<1>6. ASSUME NEW ok \in BOOLEAN, Probed(ok) PROVE StopInv'
  BY <1>6, EngineAssumption DEF Probed, StartContinues, Cleanup
<1>7. CASE StartRejects
  BY <1>7, EngineAssumption DEF StartRejects
<1>8. ASSUME NEW ok \in BOOLEAN, Recovered(ok) PROVE StopInv'
  BY <1>8, EngineAssumption DEF Recovered
<1>9. ASSUME NEW ok \in BOOLEAN, WorkerStarted(ok) PROVE StopInv'
  BY <1>9, EngineAssumption DEF WorkerStarted
<1>10. ASSUME NEW ok \in BOOLEAN, PublisherStarted(ok) PROVE StopInv'
  BY <1>10, EngineAssumption DEF PublisherStarted
<1>11. ASSUME NEW ok \in BOOLEAN, SchedulerStarted(ok) PROVE StopInv'
  BY <1>11, EngineAssumption DEF SchedulerStarted
<1>12. ASSUME NEW ok \in BOOLEAN, Disposed(ok) PROVE StopInv'
  BY <1>12, EngineAssumption DEF Disposed
<1>13. ASSUME NEW ok \in BOOLEAN, Released(ok) PROVE StopInv'
  BY <1>13, EngineAssumption DEF Released
<1>14. CASE CleanupSettles
  BY <1>14, EngineAssumption DEF CleanupSettles
<1>15. CASE CloseAwaits
  BY <1>15, EngineAssumption DEF CloseAwaits, AwaitBefore, Cleanup
<1>16. CASE CloseSettles
  BY <1>16, EngineAssumption DEF CloseSettles
<1>17. ASSUME NEW ok \in BOOLEAN, Prepared(ok) PROVE StopInv'
  BY <1>17, EngineAssumption DEF Prepared
<1>18. CASE Started
  BY <1>18, EngineAssumption DEF Started, BootstrapFails, RequestStop
<1>19. ASSUME NEW ok \in BOOLEAN, Coordinate(ok) PROVE StopInv'
  BY <1>19, EngineAssumption DEF Coordinate, BootstrapFails, RequestStop
<1>20. ASSUME NEW ok \in BOOLEAN, Bind(ok) PROVE StopInv'
  BY <1>20, EngineAssumption DEF Bind, BootstrapFails, RequestStop, ActivateWorkers,
     Open
<1>21. CASE WorkersActivated
  BY <1>21, EngineAssumption DEF WorkersActivated, Activated, BootstrapFails,
     RequestStop, ActivatePublisher, Open
<1>22. CASE PublisherActivated
  BY <1>22, EngineAssumption DEF PublisherActivated, Activated, BootstrapFails,
     RequestStop, ActivateScheduler, Open
<1>23. CASE SchedulerActivated
  BY <1>23, EngineAssumption DEF SchedulerActivated, Activated, BootstrapFails,
     RequestStop
<1>24. CASE BootstrapRejects
  BY <1>24, EngineAssumption DEF BootstrapRejects
<1>25. CASE UNCHANGED vars
  BY <1>25, EngineAssumption DEF vars
<1> QED BY <1>1, <1>2, <1>3, <1>4, <1>5, <1>6, <1>7, <1>8, <1>9, <1>10, <1>11, <1>12,
    <1>13, <1>14, <1>15, <1>16, <1>17, <1>18, <1>19, <1>20, <1>21, <1>22, <1>23, <1>24,
    <1>25 DEF Next, Starts, Activates, Cleans, Closes, Hosts

(* A step of initialize finds what the steps before it made; nothing else   *)
(* touches it.                                                             *)
LEMMA NextStartInv ==
  ASSUME TypeOK, StopInv, StartInv, CloseInv, [Next]_vars
  PROVE  StartInv'
<1> USE DEF CloseInv, StartInv, StopInv, TypeOK, startVars, cleanVars, activityVars,
    hostVars, Settled, States
<1>1. CASE Bootstrap
  BY <1>1, EngineAssumption DEF Bootstrap
<1>2. CASE Destroy
  BY <1>2, EngineAssumption DEF Destroy, RequestStop
<1>3. CASE DestroySettles
  BY <1>3, EngineAssumption DEF DestroySettles
<1>4. ASSUME NEW ok \in BOOLEAN, Acquired(ok) PROVE StartInv'
  BY <1>4, EngineAssumption DEF Acquired, StartContinues, Cleanup
<1>5. ASSUME NEW ok \in BOOLEAN, RuntimeMade(ok) PROVE StartInv'
  BY <1>5, EngineAssumption DEF RuntimeMade, StartContinues, Cleanup
<1>6. ASSUME NEW ok \in BOOLEAN, Probed(ok) PROVE StartInv'
  BY <1>6, EngineAssumption DEF Probed, StartContinues, Cleanup
<1>7. CASE StartRejects
  BY <1>7, EngineAssumption DEF StartRejects
<1>8. ASSUME NEW ok \in BOOLEAN, Recovered(ok) PROVE StartInv'
  BY <1>8, EngineAssumption DEF Recovered
<1>9. ASSUME NEW ok \in BOOLEAN, WorkerStarted(ok) PROVE StartInv'
  BY <1>9, EngineAssumption DEF WorkerStarted
<1>10. ASSUME NEW ok \in BOOLEAN, PublisherStarted(ok) PROVE StartInv'
  BY <1>10, EngineAssumption DEF PublisherStarted
<1>11. ASSUME NEW ok \in BOOLEAN, SchedulerStarted(ok) PROVE StartInv'
  BY <1>11, EngineAssumption DEF SchedulerStarted
<1>12. ASSUME NEW ok \in BOOLEAN, Disposed(ok) PROVE StartInv'
  BY <1>12, EngineAssumption DEF Disposed
<1>13. ASSUME NEW ok \in BOOLEAN, Released(ok) PROVE StartInv'
  BY <1>13, EngineAssumption DEF Released
<1>14. CASE CleanupSettles
  BY <1>14, EngineAssumption DEF CleanupSettles
<1>15. CASE CloseAwaits
  BY <1>15, EngineAssumption DEF CloseAwaits, AwaitBefore, Cleanup
<1>16. CASE CloseSettles
  BY <1>16, EngineAssumption DEF CloseSettles
<1>17. ASSUME NEW ok \in BOOLEAN, Prepared(ok) PROVE StartInv'
  BY <1>17, EngineAssumption DEF Prepared
<1>18. CASE Started
  BY <1>18, EngineAssumption DEF Started, BootstrapFails, RequestStop
<1>19. ASSUME NEW ok \in BOOLEAN, Coordinate(ok) PROVE StartInv'
  BY <1>19, EngineAssumption DEF Coordinate, BootstrapFails, RequestStop
<1>20. ASSUME NEW ok \in BOOLEAN, Bind(ok) PROVE StartInv'
  BY <1>20, EngineAssumption DEF Bind, BootstrapFails, RequestStop, ActivateWorkers,
     Open
<1>21. CASE WorkersActivated
  BY <1>21, EngineAssumption DEF WorkersActivated, Activated, BootstrapFails,
     RequestStop, ActivatePublisher, Open
<1>22. CASE PublisherActivated
  BY <1>22, EngineAssumption DEF PublisherActivated, Activated, BootstrapFails,
     RequestStop, ActivateScheduler, Open
<1>23. CASE SchedulerActivated
  BY <1>23, EngineAssumption DEF SchedulerActivated, Activated, BootstrapFails,
     RequestStop
<1>24. CASE BootstrapRejects
  BY <1>24, EngineAssumption DEF BootstrapRejects
<1>25. CASE UNCHANGED vars
  BY <1>25, EngineAssumption DEF vars
<1> QED BY <1>1, <1>2, <1>3, <1>4, <1>5, <1>6, <1>7, <1>8, <1>9, <1>10, <1>11, <1>12,
    <1>13, <1>14, <1>15, <1>16, <1>17, <1>18, <1>19, <1>20, <1>21, <1>22, <1>23, <1>24,
    <1>25 DEF Next, Starts, Activates, Cleans, Closes, Hosts

(* Activation is only entered from the ready state, once.                  *)
LEMMA NextActivityInv ==
  ASSUME TypeOK, StopInv, StartInv, ActivityInv, [Next]_vars
  PROVE  ActivityInv'
<1> USE DEF ActivityInv, StartInv, StopInv, TypeOK, startVars, cleanVars, activityVars,
    hostVars, Settled, States
<1>1. CASE Bootstrap
  BY <1>1, EngineAssumption DEF Bootstrap
<1>2. CASE Destroy
  BY <1>2, EngineAssumption DEF Destroy, RequestStop
<1>3. CASE DestroySettles
  BY <1>3, EngineAssumption DEF DestroySettles
<1>4. ASSUME NEW ok \in BOOLEAN, Acquired(ok) PROVE ActivityInv'
  BY <1>4, EngineAssumption DEF Acquired, StartContinues, Cleanup
<1>5. ASSUME NEW ok \in BOOLEAN, RuntimeMade(ok) PROVE ActivityInv'
  BY <1>5, EngineAssumption DEF RuntimeMade, StartContinues, Cleanup
<1>6. ASSUME NEW ok \in BOOLEAN, Probed(ok) PROVE ActivityInv'
  BY <1>6, EngineAssumption DEF Probed, StartContinues, Cleanup
<1>7. CASE StartRejects
  BY <1>7, EngineAssumption DEF StartRejects
<1>8. ASSUME NEW ok \in BOOLEAN, Recovered(ok) PROVE ActivityInv'
  BY <1>8, EngineAssumption DEF Recovered
<1>9. ASSUME NEW ok \in BOOLEAN, WorkerStarted(ok) PROVE ActivityInv'
  BY <1>9, EngineAssumption DEF WorkerStarted
<1>10. ASSUME NEW ok \in BOOLEAN, PublisherStarted(ok) PROVE ActivityInv'
  BY <1>10, EngineAssumption DEF PublisherStarted
<1>11. ASSUME NEW ok \in BOOLEAN, SchedulerStarted(ok) PROVE ActivityInv'
  BY <1>11, EngineAssumption DEF SchedulerStarted
<1>12. ASSUME NEW ok \in BOOLEAN, Disposed(ok) PROVE ActivityInv'
  BY <1>12, EngineAssumption DEF Disposed
<1>13. ASSUME NEW ok \in BOOLEAN, Released(ok) PROVE ActivityInv'
  BY <1>13, EngineAssumption DEF Released
<1>14. CASE CleanupSettles
  BY <1>14, EngineAssumption DEF CleanupSettles
<1>15. CASE CloseAwaits
  BY <1>15, EngineAssumption DEF CloseAwaits, AwaitBefore, Cleanup
<1>16. CASE CloseSettles
  BY <1>16, EngineAssumption DEF CloseSettles
<1>17. ASSUME NEW ok \in BOOLEAN, Prepared(ok) PROVE ActivityInv'
  BY <1>17, EngineAssumption DEF Prepared
<1>18. CASE Started
  BY <1>18, EngineAssumption DEF Started, BootstrapFails, RequestStop
<1>19. ASSUME NEW ok \in BOOLEAN, Coordinate(ok) PROVE ActivityInv'
  BY <1>19, EngineAssumption DEF Coordinate, BootstrapFails, RequestStop
<1>20. ASSUME NEW ok \in BOOLEAN, Bind(ok) PROVE ActivityInv'
  BY <1>20, EngineAssumption DEF Bind, BootstrapFails, RequestStop, ActivateWorkers,
     Open
<1>21. CASE WorkersActivated
  BY <1>21, EngineAssumption DEF WorkersActivated, Activated, BootstrapFails,
     RequestStop, ActivatePublisher, Open
<1>22. CASE PublisherActivated
  BY <1>22, EngineAssumption DEF PublisherActivated, Activated, BootstrapFails,
     RequestStop, ActivateScheduler, Open
<1>23. CASE SchedulerActivated
  BY <1>23, EngineAssumption DEF SchedulerActivated, Activated, BootstrapFails,
     RequestStop
<1>24. CASE BootstrapRejects
  BY <1>24, EngineAssumption DEF BootstrapRejects
<1>25. CASE UNCHANGED vars
  BY <1>25, EngineAssumption DEF vars
<1> QED BY <1>1, <1>2, <1>3, <1>4, <1>5, <1>6, <1>7, <1>8, <1>9, <1>10, <1>11, <1>12,
    <1>13, <1>14, <1>15, <1>16, <1>17, <1>18, <1>19, <1>20, <1>21, <1>22, <1>23, <1>24,
    <1>25 DEF Next, Starts, Activates, Cleans, Closes, Hosts

(* No step begins what close has already waited for.                       *)
LEMMA NextCloseInv == ASSUME StopInv, StartInv, CloseInv, [Next]_vars PROVE CloseInv'
<1> USE DEF CloseInv, StartInv, StopInv, startVars, cleanVars, activityVars, hostVars,
    Settled, States
<1>1. CASE Bootstrap
  BY <1>1, EngineAssumption DEF Bootstrap
<1>2. CASE Destroy
  BY <1>2, EngineAssumption DEF Destroy, RequestStop
<1>3. CASE DestroySettles
  BY <1>3, EngineAssumption DEF DestroySettles
<1>4. ASSUME NEW ok \in BOOLEAN, Acquired(ok) PROVE CloseInv'
  BY <1>4, EngineAssumption DEF Acquired, StartContinues, Cleanup
<1>5. ASSUME NEW ok \in BOOLEAN, RuntimeMade(ok) PROVE CloseInv'
  BY <1>5, EngineAssumption DEF RuntimeMade, StartContinues, Cleanup
<1>6. ASSUME NEW ok \in BOOLEAN, Probed(ok) PROVE CloseInv'
  BY <1>6, EngineAssumption DEF Probed, StartContinues, Cleanup
<1>7. CASE StartRejects
  BY <1>7, EngineAssumption DEF StartRejects
<1>8. ASSUME NEW ok \in BOOLEAN, Recovered(ok) PROVE CloseInv'
  BY <1>8, EngineAssumption DEF Recovered
<1>9. ASSUME NEW ok \in BOOLEAN, WorkerStarted(ok) PROVE CloseInv'
  BY <1>9, EngineAssumption DEF WorkerStarted
<1>10. ASSUME NEW ok \in BOOLEAN, PublisherStarted(ok) PROVE CloseInv'
  BY <1>10, EngineAssumption DEF PublisherStarted
<1>11. ASSUME NEW ok \in BOOLEAN, SchedulerStarted(ok) PROVE CloseInv'
  BY <1>11, EngineAssumption DEF SchedulerStarted
<1>12. ASSUME NEW ok \in BOOLEAN, Disposed(ok) PROVE CloseInv'
  BY <1>12, EngineAssumption DEF Disposed
<1>13. ASSUME NEW ok \in BOOLEAN, Released(ok) PROVE CloseInv'
  BY <1>13, EngineAssumption DEF Released
<1>14. CASE CleanupSettles
  BY <1>14, EngineAssumption DEF CleanupSettles
<1>15. CASE CloseAwaits
  BY <1>15, EngineAssumption DEF CloseAwaits, AwaitBefore, Cleanup
<1>16. CASE CloseSettles
  BY <1>16, EngineAssumption DEF CloseSettles
<1>17. ASSUME NEW ok \in BOOLEAN, Prepared(ok) PROVE CloseInv'
  BY <1>17, EngineAssumption DEF Prepared
<1>18. CASE Started
  BY <1>18, EngineAssumption DEF Started, BootstrapFails, RequestStop
<1>19. ASSUME NEW ok \in BOOLEAN, Coordinate(ok) PROVE CloseInv'
  BY <1>19, EngineAssumption DEF Coordinate, BootstrapFails, RequestStop
<1>20. ASSUME NEW ok \in BOOLEAN, Bind(ok) PROVE CloseInv'
  BY <1>20, EngineAssumption DEF Bind, BootstrapFails, RequestStop, ActivateWorkers,
     Open
<1>21. CASE WorkersActivated
  BY <1>21, EngineAssumption DEF WorkersActivated, Activated, BootstrapFails,
     RequestStop, ActivatePublisher, Open
<1>22. CASE PublisherActivated
  BY <1>22, EngineAssumption DEF PublisherActivated, Activated, BootstrapFails,
     RequestStop, ActivateScheduler, Open
<1>23. CASE SchedulerActivated
  BY <1>23, EngineAssumption DEF SchedulerActivated, Activated, BootstrapFails,
     RequestStop
<1>24. CASE BootstrapRejects
  BY <1>24, EngineAssumption DEF BootstrapRejects
<1>25. CASE UNCHANGED vars
  BY <1>25, EngineAssumption DEF vars
<1> QED BY <1>1, <1>2, <1>3, <1>4, <1>5, <1>6, <1>7, <1>8, <1>9, <1>10, <1>11, <1>12,
    <1>13, <1>14, <1>15, <1>16, <1>17, <1>18, <1>19, <1>20, <1>21, <1>22, <1>23, <1>24,
    <1>25 DEF Next, Starts, Activates, Cleans, Closes, Hosts

(* Only cleanup releases, and nothing is acquired once it has begun.       *)
LEMMA NextResourceInv ==
  ASSUME TypeOK, ActivityInv, CloseInv, ResourceInv, [Next]_vars
  PROVE  ResourceInv'
<1> USE DEF ActivityInv, CloseInv, ResourceInv, TypeOK, startVars, cleanVars,
    activityVars, hostVars, Settled, States
<1>1. CASE Bootstrap
  BY <1>1, EngineAssumption DEF Bootstrap
<1>2. CASE Destroy
  BY <1>2, EngineAssumption DEF Destroy, RequestStop
<1>3. CASE DestroySettles
  BY <1>3, EngineAssumption DEF DestroySettles
<1>4. ASSUME NEW ok \in BOOLEAN, Acquired(ok) PROVE ResourceInv'
  BY <1>4, EngineAssumption DEF Acquired, StartContinues, Cleanup
<1>5. ASSUME NEW ok \in BOOLEAN, RuntimeMade(ok) PROVE ResourceInv'
  BY <1>5, EngineAssumption DEF RuntimeMade, StartContinues, Cleanup
<1>6. ASSUME NEW ok \in BOOLEAN, Probed(ok) PROVE ResourceInv'
  BY <1>6, EngineAssumption DEF Probed, StartContinues, Cleanup
<1>7. CASE StartRejects
  BY <1>7, EngineAssumption DEF StartRejects
<1>8. ASSUME NEW ok \in BOOLEAN, Recovered(ok) PROVE ResourceInv'
  BY <1>8, EngineAssumption DEF Recovered
<1>9. ASSUME NEW ok \in BOOLEAN, WorkerStarted(ok) PROVE ResourceInv'
  BY <1>9, EngineAssumption DEF WorkerStarted
<1>10. ASSUME NEW ok \in BOOLEAN, PublisherStarted(ok) PROVE ResourceInv'
  BY <1>10, EngineAssumption DEF PublisherStarted
<1>11. ASSUME NEW ok \in BOOLEAN, SchedulerStarted(ok) PROVE ResourceInv'
  BY <1>11, EngineAssumption DEF SchedulerStarted
<1>12. ASSUME NEW ok \in BOOLEAN, Disposed(ok) PROVE ResourceInv'
  BY <1>12, EngineAssumption DEF Disposed
<1>13. ASSUME NEW ok \in BOOLEAN, Released(ok) PROVE ResourceInv'
  BY <1>13, EngineAssumption DEF Released
<1>14. CASE CleanupSettles
  BY <1>14, EngineAssumption DEF CleanupSettles
<1>15. CASE CloseAwaits
  BY <1>15, EngineAssumption DEF CloseAwaits, AwaitBefore, Cleanup
<1>16. CASE CloseSettles
  BY <1>16, EngineAssumption DEF CloseSettles
<1>17. ASSUME NEW ok \in BOOLEAN, Prepared(ok) PROVE ResourceInv'
  BY <1>17, EngineAssumption DEF Prepared
<1>18. CASE Started
  BY <1>18, EngineAssumption DEF Started, BootstrapFails, RequestStop
<1>19. ASSUME NEW ok \in BOOLEAN, Coordinate(ok) PROVE ResourceInv'
  BY <1>19, EngineAssumption DEF Coordinate, BootstrapFails, RequestStop
<1>20. ASSUME NEW ok \in BOOLEAN, Bind(ok) PROVE ResourceInv'
  BY <1>20, EngineAssumption DEF Bind, BootstrapFails, RequestStop, ActivateWorkers,
     Open
<1>21. CASE WorkersActivated
  BY <1>21, EngineAssumption DEF WorkersActivated, Activated, BootstrapFails,
     RequestStop, ActivatePublisher, Open
<1>22. CASE PublisherActivated
  BY <1>22, EngineAssumption DEF PublisherActivated, Activated, BootstrapFails,
     RequestStop, ActivateScheduler, Open
<1>23. CASE SchedulerActivated
  BY <1>23, EngineAssumption DEF SchedulerActivated, Activated, BootstrapFails,
     RequestStop
<1>24. CASE BootstrapRejects
  BY <1>24, EngineAssumption DEF BootstrapRejects
<1>25. CASE UNCHANGED vars
  BY <1>25, EngineAssumption DEF vars
<1> QED BY <1>1, <1>2, <1>3, <1>4, <1>5, <1>6, <1>7, <1>8, <1>9, <1>10, <1>11, <1>12,
    <1>13, <1>14, <1>15, <1>16, <1>17, <1>18, <1>19, <1>20, <1>21, <1>22, <1>23, <1>24,
    <1>25 DEF Next, Starts, Activates, Cleans, Closes, Hosts

(* Clients bound after a stop stay on the way to the catch block.          *)
LEMMA NextBoundInv == ASSUME StopInv, BoundInv, [Next]_vars PROVE BoundInv'
<1> USE DEF BoundInv, StopInv, startVars, cleanVars, activityVars, hostVars, Settled,
    States
<1>1. CASE Bootstrap
  BY <1>1, EngineAssumption DEF Bootstrap
<1>2. CASE Destroy
  BY <1>2, EngineAssumption DEF Destroy, RequestStop
<1>3. CASE DestroySettles
  BY <1>3, EngineAssumption DEF DestroySettles
<1>4. ASSUME NEW ok \in BOOLEAN, Acquired(ok) PROVE BoundInv'
  BY <1>4, EngineAssumption DEF Acquired, StartContinues, Cleanup
<1>5. ASSUME NEW ok \in BOOLEAN, RuntimeMade(ok) PROVE BoundInv'
  BY <1>5, EngineAssumption DEF RuntimeMade, StartContinues, Cleanup
<1>6. ASSUME NEW ok \in BOOLEAN, Probed(ok) PROVE BoundInv'
  BY <1>6, EngineAssumption DEF Probed, StartContinues, Cleanup
<1>7. CASE StartRejects
  BY <1>7, EngineAssumption DEF StartRejects
<1>8. ASSUME NEW ok \in BOOLEAN, Recovered(ok) PROVE BoundInv'
  BY <1>8, EngineAssumption DEF Recovered
<1>9. ASSUME NEW ok \in BOOLEAN, WorkerStarted(ok) PROVE BoundInv'
  BY <1>9, EngineAssumption DEF WorkerStarted
<1>10. ASSUME NEW ok \in BOOLEAN, PublisherStarted(ok) PROVE BoundInv'
  BY <1>10, EngineAssumption DEF PublisherStarted
<1>11. ASSUME NEW ok \in BOOLEAN, SchedulerStarted(ok) PROVE BoundInv'
  BY <1>11, EngineAssumption DEF SchedulerStarted
<1>12. ASSUME NEW ok \in BOOLEAN, Disposed(ok) PROVE BoundInv'
  BY <1>12, EngineAssumption DEF Disposed
<1>13. ASSUME NEW ok \in BOOLEAN, Released(ok) PROVE BoundInv'
  BY <1>13, EngineAssumption DEF Released
<1>14. CASE CleanupSettles
  BY <1>14, EngineAssumption DEF CleanupSettles
<1>15. CASE CloseAwaits
  BY <1>15, EngineAssumption DEF CloseAwaits, AwaitBefore, Cleanup
<1>16. CASE CloseSettles
  BY <1>16, EngineAssumption DEF CloseSettles
<1>17. ASSUME NEW ok \in BOOLEAN, Prepared(ok) PROVE BoundInv'
  BY <1>17, EngineAssumption DEF Prepared
<1>18. CASE Started
  BY <1>18, EngineAssumption DEF Started, BootstrapFails, RequestStop
<1>19. ASSUME NEW ok \in BOOLEAN, Coordinate(ok) PROVE BoundInv'
  BY <1>19, EngineAssumption DEF Coordinate, BootstrapFails, RequestStop
<1>20. ASSUME NEW ok \in BOOLEAN, Bind(ok) PROVE BoundInv'
  BY <1>20, EngineAssumption DEF Bind, BootstrapFails, RequestStop, ActivateWorkers,
     Open
<1>21. CASE WorkersActivated
  BY <1>21, EngineAssumption DEF WorkersActivated, Activated, BootstrapFails,
     RequestStop, ActivatePublisher, Open
<1>22. CASE PublisherActivated
  BY <1>22, EngineAssumption DEF PublisherActivated, Activated, BootstrapFails,
     RequestStop, ActivateScheduler, Open
<1>23. CASE SchedulerActivated
  BY <1>23, EngineAssumption DEF SchedulerActivated, Activated, BootstrapFails,
     RequestStop
<1>24. CASE BootstrapRejects
  BY <1>24, EngineAssumption DEF BootstrapRejects
<1>25. CASE UNCHANGED vars
  BY <1>25, EngineAssumption DEF vars
<1> QED BY <1>1, <1>2, <1>3, <1>4, <1>5, <1>6, <1>7, <1>8, <1>9, <1>10, <1>11, <1>12,
    <1>13, <1>14, <1>15, <1>16, <1>17, <1>18, <1>19, <1>20, <1>21, <1>22, <1>23, <1>24,
    <1>25 DEF Next, Starts, Activates, Cleans, Closes, Hosts

(* The named parts are preserved together.                                 *)
LEMMA NextIInv == IInv /\ [Next]_vars => IInv'
  BY NextTypeOK, NextStopInv, NextStartInv, NextActivityInv, NextCloseInv,
     NextResourceInv
  DEF IInv

(* The invariant is inductive.                                             *)
THEOREM Inductive == Spec => []IInv
  BY InitIInv, NextIInv, PTL DEF Spec

-----------------------------------------------------------------------------
(* What follows from it.                                                   *)

(* Every variable of the session and its host keeps its type.              *)
THEOREM TypeCorrect == Spec => []TypeOK
<1>1. IInv => TypeOK
  BY DEF IInv
<1> QED
  BY <1>1, Inductive, PTL

(* A closed session, or a start that rolled back, left no open resource,   *)
(* no runtime and nothing running or still being started (finishClose,     *)
(* releaseResources and the catch block of initialize).                    *)
THEOREM NothingOutlivesCorrect == Spec => []NothingOutlives
<1>1. IInv => NothingOutlives
  <2> SUFFICES ASSUME IInv, state \in {"failed", "closed"} PROVE NothingOutlives
    BY DEF NothingOutlives
  <2>1. cleaning \in Settled /\ starting \in {"none"} \cup Settled
    BY DEF IInv, StopInv, CloseInv, Settled
  <2>2. {activating, publishing, scheduling} \subseteq {"none"} \cup Settled
    <3>1. CASE state = "closed"
      BY <3>1 DEF IInv, StopInv, CloseInv
    <3>2. CASE state = "failed"
      BY <3>2 DEF IInv, TypeOK, StopInv, ActivityInv, Settled
    <3> QED
      BY <3>1, <3>2
  <2> QED
    BY <2>1, <2>2 DEF IInv, ResourceInv, NothingOutlives, Settled
<1> QED
  BY <1>1, Inductive, PTL

(* Ready is published over a live runtime, open resources and probed       *)
(* stores, and withdrawn before any of them is released.                   *)
THEOREM ReadyIsLiveCorrect == Spec => []ReadyIsLive
<1>1. IInv => ReadyIsLive
  <2> SUFFICES ASSUME IInv, state = "ready" PROVE ReadyIsLive
    BY DEF ReadyIsLive
  <2>1. starting = "resolved" /\ closing = "none"
    BY DEF IInv, StopInv
  <2>2. cleaning = "none"
    BY <2>1 DEF IInv, CloseInv, Settled
  <2>3. acquired = Conns /\ probed = Probes /\ runtime = "live"
    BY <2>1, <2>2 DEF IInv, StartInv
  <2> QED
    BY <2>2, <2>3, EngineAssumption DEF IInv, ResourceInv, ReadyIsLive
<1> QED
  BY <1>1, Inductive, PTL

(* The published state is honest: ready serves, failed and closed left     *)
(* nothing behind, and a stop request is neither undone nor overwritten.   *)
THEOREM StateHonestCorrect == Spec => []StateHonest
<1>1. IInv => (stopRequested => state \in {"stopping", "closed"})
  BY DEF IInv, StopInv
<1> QED
  BY <1>1, Inductive, NothingOutlivesCorrect, ReadyIsLiveCorrect, PTL DEF StateHonest

(* Resources are released once, last acquired first, after the runtime.    *)
THEOREM ReleaseCorrect == Spec => []ReleasedInOrder
<1>1. IInv => ReleasedInOrder
  <2> SUFFICES ASSUME IInv PROVE ReleasedInOrder
    OBVIOUS
  <2>1. CASE cleaning \in {"none", "dispose"}
    BY <2>1 DEF IInv, ResourceInv, ReleasedInOrder
  <2>2. CASE cleaning = "release"
    BY <2>2, EngineAssumption DEF IInv, TypeOK, ResourceInv, ReleasedInOrder
  <2>3. CASE cleaning \in Settled
    BY <2>3 DEF IInv, ResourceInv, ReleasedInOrder, Settled
  <2> QED
    BY <2>1, <2>2, <2>3 DEF IInv, TypeOK
<1> QED
  BY <1>1, Inductive, PTL

(* Where workers, the publisher or the scheduler run, an overlapping close *)
(* leaves no contract bound to the closed engine: their activation rejects *)
(* and the bootstrap's catch block detaches what it bound too late.        *)
THEOREM DetachedCorrect ==
  ASSUME Plans # 0 \/ HasPublisher \/ HasScheduler
  PROVE  Spec => []DetachedWhenClosed
<1>1. Init => BoundInv
  BY DEF Init, BoundInv
<1>2. IInv /\ BoundInv /\ [Next]_vars => BoundInv'
  BY NextBoundInv DEF IInv
<1>3. IInv /\ BoundInv => DetachedWhenClosed
  BY DEF IInv, StopInv, BoundInv, DetachedWhenClosed
<1> QED
  BY <1>1, <1>2, <1>3, Inductive, PTL DEF Spec

(* A stop request is final: no step after it publishes ready or failed,    *)
(* and none reopens a closed session.                                      *)
THEOREM StopIsFinalCorrect == Spec => StopIsFinal
<1> DEFINE Final ==
      /\ stopRequested => state' \in {"stopping", "closed"}
      /\ state = "closed" => state' = "closed"
<1>1. IInv /\ IInv' /\ [Next]_vars => [Final]_vars
  <2> SUFFICES ASSUME IInv, IInv', Next PROVE Final
    OBVIOUS
  <2>1. (stopRequested => stopRequested') /\ (closing \in Settled => closing' = closing)
    <3>1. CASE Bootstrap \/ Destroy \/ DestroySettles
      BY <3>1 DEF IInv, StopInv, Settled, Bootstrap, Destroy, DestroySettles,
         RequestStop
    <3>2. CASE Starts \/ StartRejects \/ Activates \/ Cleans
      BY <3>2 DEF Starts, Acquired, RuntimeMade, Probed, StartRejects, Activates,
         Recovered,
         WorkerStarted, PublisherStarted, SchedulerStarted, Cleans, Disposed, Released,
         CleanupSettles
    <3>3. CASE Closes
      BY <3>3 DEF Closes, CloseAwaits, AwaitBefore, CloseSettles, Settled
    <3>4. CASE Hosts
      BY <3>4 DEF IInv, StopInv, Settled, Hosts, Prepared, Started, Coordinate, Bind,
         WorkersActivated, PublisherActivated, SchedulerActivated, Activated,
         BootstrapRejects, BootstrapFails, RequestStop
    <3> QED
      BY <3>1, <3>2, <3>3, <3>4 DEF Next
  <2> QED
    BY <2>1 DEF IInv, StopInv
<1> QED
  BY <1>1, Inductive, PTL DEF Spec, StopIsFinal
=============================================================================
