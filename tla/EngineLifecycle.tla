--------------------------- MODULE EngineLifecycle ---------------------------
(***************************************************************************)
(* One application's engine: EngineSession (start, activation, close and   *)
(* its memoized cleanup) driven by MqEngineHost (the Nest bootstrap and    *)
(* destroy hooks, which may overlap).  Connections, probes, plans and the  *)
(* coordinators' storage calls are numbered in the order the code awaits   *)
(* them; every await is a step of its own whose outcome is open.           *)
(***************************************************************************)
EXTENDS Integers

CONSTANTS
  Conns,          \* configured connections
  Probes,         \* stores resolved and probed before readiness
  Plans,          \* worker plans of this process
  HasPublisher,   \* the outbox publisher runs in this process
  HasScheduler,   \* the scheduler runs in this process
  Coordinated     \* storage calls of controls, schedules and flows at bootstrap

ASSUME EngineAssumption ==
  /\ Conns \in Nat \ {0}
  /\ Probes \in Nat \ {0}
  /\ Plans \in Nat
  /\ Coordinated \in Nat
  /\ HasPublisher \in BOOLEAN
  /\ HasScheduler \in BOOLEAN

VARIABLES
  state,          \* EngineSession.currentState
  stopRequested,
  starting,       \* await of initialize, or how its promise settled
  acquired,       \* length of EngineSession.acquired
  probed,         \* stores probed so far
  runtime,        \* "none", "live" or "disposed"
  cleaning,       \* await of releaseResources, or how its promise settled
  failures,       \* whether releaseResources collected a failure
  toRelease,      \* next resource of the reversed acquired list
  resource,       \* what became of each connection's resource
  closing,        \* await of finishClose, or how its promise settled
  activating,     \* await of activate, or how its promise settled
  activated,      \* plans recovered, then plans resolved
  publishing,     \* the activateOutboxPublisher promise
  scheduling,     \* the activateScheduler promise
  running,        \* workers, publisher and scheduler started and not disposed
  bootstrap,      \* await of onApplicationBootstrap
  coordinated,    \* coordinators' calls made so far
  bound,          \* the job contracts have a client of this application
  destroy         \* await of onModuleDestroy

startVars == <<starting, acquired, probed>>
cleanVars == <<failures, toRelease, resource>>
activityVars == <<activating, activated, publishing, scheduling>>
hostVars == <<bootstrap, coordinated, bound, destroy>>
vars == <<state, stopRequested, startVars, runtime, cleaning, cleanVars, closing,
          activityVars, running, hostVars>>

Settled == {"resolved", "rejected"}
States == {"idle", "starting", "ready", "failed", "stopping", "closed"}

TypeOK ==
  /\ state \in States
  /\ stopRequested \in BOOLEAN
  /\ starting \in {"none", "acquire", "runtime", "probe", "cleanup"} \cup Settled
  /\ acquired \in 0..Conns
  /\ probed \in 0..Probes
  /\ runtime \in {"none", "live", "disposed"}
  /\ cleaning \in {"none", "dispose", "release"} \cup Settled
  /\ failures \in BOOLEAN
  /\ toRelease \in 0..Conns
  /\ resource \in [1..Conns -> {"none", "open", "released"}]
  /\ closing \in {"none", "starting", "activating", "publishing", "scheduling",
                  "cleanup"} \cup Settled
  /\ activating \in {"none", "recover", "resolve"} \cup Settled
  /\ activated \in 0..Plans
  /\ publishing \in {"none", "pending"} \cup Settled
  /\ scheduling \in {"none", "pending"} \cup Settled
  /\ running \subseteq {"workers", "publisher", "scheduler"}
  /\ bootstrap \in {"idle", "prepare", "start", "coordinate", "workers", "publisher",
                    "scheduler", "closing"} \cup Settled
  /\ coordinated \in 0..Coordinated
  /\ bound \in BOOLEAN
  /\ destroy \in {"idle", "closing"} \cup Settled

Init ==
  /\ state = "idle"
  /\ stopRequested = FALSE
  /\ starting = "none" /\ acquired = 0 /\ probed = 0
  /\ runtime = "none"
  /\ cleaning = "none"
  /\ failures = FALSE /\ toRelease = 0 /\ resource = [i \in 1..Conns |-> "none"]
  /\ closing = "none"
  /\ activating = "none" /\ activated = 0
  /\ publishing = "none" /\ scheduling = "none"
  /\ running = {}
  /\ bootstrap = "idle" /\ coordinated = 0 /\ bound = FALSE
  /\ destroy = "idle"

-----------------------------------------------------------------------------
(* EngineSession.cleanup: one memoized releaseResources.                   *)

Cleanup == cleaning' = IF cleaning = "none" THEN "dispose" ELSE cleaning

(* runtime.dispose settles (at once without a runtime); either way the     *)
(* session forgets the runtime and everything that ran in it.              *)
Disposed(ok) ==
  /\ cleaning = "dispose"
  /\ runtime = "none" => ok
  /\ runtime' = IF runtime = "live" THEN "disposed" ELSE runtime
  /\ running' = {}
  /\ failures' = ~ok
  /\ toRelease' = acquired
  /\ cleaning' = "release"
  /\ UNCHANGED <<state, stopRequested, startVars, resource, closing, activityVars,
                 hostVars>>

(* Fault: resources are released in the order of their acquisition.        *)
ReleasedForward(ok) ==
  /\ cleaning = "release"
  /\ toRelease > 0
  /\ resource' = [resource EXCEPT ![acquired + 1 - toRelease] = "released"]
  /\ toRelease' = toRelease - 1
  /\ failures' = (failures \/ ~ok)
  /\ UNCHANGED <<state, stopRequested, startVars, runtime, cleaning, closing,
                 activityVars, running, hostVars>>

(* Resources are released from the last acquired to the first; a failing   *)
(* release does not keep the others.                                       *)
Released(ok) ==
  /\ cleaning = "release"
  /\ toRelease > 0
  /\ resource' = [resource EXCEPT ![toRelease] = "released"]
  /\ toRelease' = toRelease - 1
  /\ failures' = (failures \/ ~ok)
  /\ UNCHANGED <<state, stopRequested, startVars, runtime, cleaning, closing,
                 activityVars, running, hostVars>>

CleanupSettles ==
  /\ cleaning = "release"
  /\ toRelease = 0
  /\ cleaning' = IF failures THEN "rejected" ELSE "resolved"
  /\ acquired' = 0
  /\ UNCHANGED <<state, stopRequested, starting, probed, runtime, cleanVars, closing,
                 activityVars, running, hostVars>>

-----------------------------------------------------------------------------
(* EngineSession.initialize.                                               *)

(* Fault: a failed await of initialize is ignored.                         *)
StartIgnoresFailure(ok, next) ==
  IF ~stopRequested
    THEN starting' = next /\ UNCHANGED cleaning
    ELSE starting' = "cleanup" /\ Cleanup

(* An await of initialize settled: assertStarting guards the next one, and *)
(* a failure or a stop request leads to the rollback of the catch block.   *)
StartContinues(ok, next) ==
  IF ok /\ ~stopRequested
    THEN starting' = next /\ UNCHANGED cleaning
    ELSE starting' = "cleanup" /\ Cleanup

(* A resource acquired after a stop request is kept for cleanup.           *)
Acquired(ok) ==
  /\ starting = "acquire"
  /\ acquired' = IF ok THEN acquired + 1 ELSE acquired
  /\ resource' = IF ok THEN [resource EXCEPT ![acquired + 1] = "open"] ELSE resource
  /\ StartContinues(ok, IF acquired' = Conns THEN "runtime" ELSE "acquire")
  /\ UNCHANGED <<state, stopRequested, probed, runtime, failures, toRelease, closing,
                 activityVars, running, hostVars>>

RuntimeMade(ok) ==
  /\ starting = "runtime"
  /\ runtime' = IF ok THEN "live" ELSE "none"
  /\ StartContinues(ok, "probe")
  /\ UNCHANGED <<state, stopRequested, acquired, probed, cleanVars, closing,
                 activityVars, running, hostVars>>

(* The last probe publishes readiness in the same synchronous step.        *)
Probed(ok) ==
  /\ starting = "probe"
  /\ probed' = IF ok THEN probed + 1 ELSE probed
  /\ StartContinues(ok, IF probed' = Probes THEN "resolved" ELSE "probe")
  /\ state' = IF starting' = "resolved" THEN "ready" ELSE state
  /\ UNCHANGED <<stopRequested, acquired, runtime, cleanVars, closing, activityVars,
                 running, hostVars>>

(* Fault: a start stopped under way publishes failed.                      *)
StartAlwaysFails ==
  /\ starting = "cleanup"
  /\ cleaning \in Settled
  /\ starting' = "rejected"
  /\ state' = "failed"
  /\ UNCHANGED <<stopRequested, acquired, probed, runtime, cleaning, cleanVars,
                 closing, activityVars, running, hostVars>>

(* Fault: the failed start awaits close() instead of its own cleanup.      *)
StartAwaitsClose ==
  /\ starting = "cleanup"
  /\ closing \in Settled
  /\ starting' = "rejected"
  /\ state' = IF stopRequested THEN state ELSE "failed"
  /\ UNCHANGED <<stopRequested, acquired, probed, runtime, cleaning, cleanVars,
                 closing, activityVars, running, hostVars>>

(* The rollback settled: the start rejects, and fails unless it was stopped.*)
StartRejects ==
  /\ starting = "cleanup"
  /\ cleaning \in Settled
  /\ starting' = "rejected"
  /\ state' = IF stopRequested THEN state ELSE "failed"
  /\ UNCHANGED <<stopRequested, acquired, probed, runtime, cleaning, cleanVars,
                 closing, activityVars, running, hostVars>>

-----------------------------------------------------------------------------
(* EngineSession.close.                                                    *)

(* The synchronous part of close, once; later calls share its promise.     *)
RequestStop ==
  IF closing = "none"
    THEN /\ stopRequested' = TRUE
         /\ state' = "stopping"
         /\ closing' = "starting"
    ELSE UNCHANGED <<stopRequested, state, closing>>

(* Fault: finishClose does not wait for what is under way.                 *)
SkipsBefore(here, promise, next) ==
  /\ closing = here
  /\ closing' = next

(* finishClose awaits what was started before it, in this order; what was  *)
(* not started is skipped.                                                 *)
AwaitBefore(here, promise, next) ==
  /\ closing = here
  /\ promise \in {"none"} \cup Settled
  /\ closing' = next

CloseAwaits ==
  /\ \/ AwaitBefore("starting", starting, "activating") /\ UNCHANGED cleaning
     \/ AwaitBefore("activating", activating, "publishing") /\ UNCHANGED cleaning
     \/ AwaitBefore("publishing", publishing, "scheduling") /\ UNCHANGED cleaning
     \/ AwaitBefore("scheduling", scheduling, "cleanup") /\ Cleanup
  /\ UNCHANGED <<state, stopRequested, startVars, runtime, cleanVars, activityVars,
                 running, hostVars>>

CloseSettles ==
  /\ closing = "cleanup"
  /\ cleaning \in Settled
  /\ closing' = cleaning
  /\ state' = "closed"
  /\ UNCHANGED <<stopRequested, startVars, runtime, cleaning, cleanVars, activityVars,
                 running, hostVars>>

-----------------------------------------------------------------------------
(* Activation: workers, then publisher, then scheduler.  Each is inert when *)
(* there is nothing to run, and otherwise requires the ready state.         *)

Open(pending) == IF state = "ready" THEN pending ELSE "rejected"
ActivateWorkers == activating' = IF Plans = 0 THEN "resolved" ELSE Open("recover")
ActivatePublisher == publishing' = IF HasPublisher THEN Open("pending") ELSE "resolved"
ActivateScheduler == scheduling' = IF HasScheduler THEN Open("pending") ELSE "resolved"

(* plan.recover: every plan is recovered before the first is resolved.     *)
Recovered(ok) ==
  /\ activating = "recover"
  /\ IF ok /\ ~stopRequested
       THEN /\ activating' = IF activated + 1 = Plans THEN "resolve" ELSE "recover"
            /\ activated' = IF activated + 1 = Plans THEN 0 ELSE activated + 1
       ELSE activating' = "rejected" /\ UNCHANGED activated
  /\ UNCHANGED <<state, stopRequested, startVars, runtime, cleaning, cleanVars, closing,
                 publishing, scheduling, running, hostVars>>

(* A worker resolved after a stop request still runs until disposal.       *)
WorkerStarted(ok) ==
  /\ activating = "resolve"
  /\ running' = IF ok THEN running \cup {"workers"} ELSE running
  /\ activated' = IF ok THEN activated + 1 ELSE activated
  /\ activating' = IF ~ok \/ stopRequested THEN "rejected"
                   ELSE IF activated' = Plans THEN "resolved" ELSE "resolve"
  /\ UNCHANGED <<state, stopRequested, startVars, runtime, cleaning, cleanVars, closing,
                 publishing, scheduling, hostVars>>

PublisherStarted(ok) ==
  /\ publishing = "pending"
  /\ running' = IF ok THEN running \cup {"publisher"} ELSE running
  /\ publishing' = IF ok /\ ~stopRequested THEN "resolved" ELSE "rejected"
  /\ UNCHANGED <<state, stopRequested, startVars, runtime, cleaning, cleanVars, closing,
                 activating, activated, scheduling, hostVars>>

SchedulerStarted(ok) ==
  /\ scheduling = "pending"
  /\ running' = IF ok THEN running \cup {"scheduler"} ELSE running
  /\ scheduling' = IF ok /\ ~stopRequested THEN "resolved" ELSE "rejected"
  /\ UNCHANGED <<state, stopRequested, startVars, runtime, cleaning, cleanVars, closing,
                 activating, activated, publishing, hostVars>>

-----------------------------------------------------------------------------
(* MqEngineHost.                                                           *)

(* onApplicationBootstrap up to the await of schedules.prepare.            *)
Bootstrap ==
  /\ bootstrap = "idle"
  /\ bootstrap' = "prepare"
  /\ UNCHANGED <<state, stopRequested, startVars, runtime, cleaning, cleanVars, closing,
                 activityVars, running, coordinated, bound, destroy>>

(* Discovery or schedules.prepare failing rejects the hook outside its try *)
(* block; otherwise session.start, which refuses a session already asked   *)
(* to stop.                                                                *)
Prepared(ok) ==
  /\ bootstrap = "prepare"
  /\ IF ok
       THEN /\ bootstrap' = "start"
            /\ starting' = IF stopRequested THEN "rejected" ELSE "acquire"
            /\ state' = IF stopRequested THEN state ELSE "starting"
       ELSE bootstrap' = "rejected" /\ UNCHANGED <<starting, state>>
  /\ UNCHANGED <<stopRequested, acquired, probed, runtime, cleaning, cleanVars, closing,
                 activityVars, running, coordinated, bound, destroy>>

(* Fault: the catch block forgets to detach.                               *)
FailsWithoutDetach ==
  /\ bootstrap' = "closing"
  /\ UNCHANGED bound
  /\ RequestStop

(* Fault: the catch block awaits a close nobody asked for.                 *)
FailsWithoutClose ==
  /\ bound' = FALSE
  /\ bootstrap' = "closing"
  /\ UNCHANGED <<state, stopRequested, closing>>

(* The catch block: detach, then session.close().                          *)
BootstrapFails ==
  /\ bound' = FALSE
  /\ bootstrap' = "closing"
  /\ RequestStop

Started ==
  /\ bootstrap = "start"
  /\ \/ /\ starting = "resolved"
        /\ bootstrap' = IF state = "ready" THEN "coordinate" ELSE "resolved"
        /\ UNCHANGED <<state, stopRequested, closing, bound>>
     \/ starting = "rejected" /\ BootstrapFails
  /\ UNCHANGED <<startVars, runtime, cleaning, cleanVars, activityVars, running,
                 coordinated, destroy>>

(* controls, schedules and flows initialize: each storage call is admitted *)
(* by a ready session and settles even while the session is stopping.      *)
Coordinate(ok) ==
  /\ bootstrap = "coordinate"
  /\ coordinated < Coordinated
  /\ IF ok /\ state = "ready"
       THEN coordinated' = coordinated + 1
            /\ UNCHANGED <<bootstrap, bound, state, stopRequested, closing>>
       ELSE BootstrapFails /\ UNCHANGED coordinated
  /\ UNCHANGED <<startVars, runtime, cleaning, cleanVars, activityVars, running, destroy>>

(* After the last call the clients are bound, with no look at the state,   *)
(* and the workers are activated; a contract bound elsewhere fails it.     *)
Bind(ok) ==
  /\ bootstrap = "coordinate"
  /\ coordinated = Coordinated
  /\ IF ok
       THEN /\ bound' = TRUE
            /\ bootstrap' = "workers"
            /\ ActivateWorkers
            /\ UNCHANGED <<state, stopRequested, closing>>
       ELSE BootstrapFails /\ UNCHANGED activating
  /\ UNCHANGED <<startVars, runtime, cleaning, cleanVars, activated, publishing,
                 scheduling, running, coordinated, destroy>>

(* An awaited activation settled: the next one starts, or the catch block. *)
Activated(here, promise, next) ==
  /\ bootstrap = here
  /\ \/ /\ promise = "resolved"
        /\ bootstrap' = next
        /\ UNCHANGED <<bound, state, stopRequested, closing>>
     \/ promise = "rejected" /\ BootstrapFails

WorkersActivated ==
  /\ Activated("workers", activating, "publisher")
  /\ IF activating = "resolved" THEN ActivatePublisher ELSE UNCHANGED publishing
  /\ UNCHANGED <<startVars, runtime, cleaning, cleanVars, activating, activated,
                 scheduling, running, coordinated, destroy>>

PublisherActivated ==
  /\ Activated("publisher", publishing, "scheduler")
  /\ IF publishing = "resolved" THEN ActivateScheduler ELSE UNCHANGED scheduling
  /\ UNCHANGED <<startVars, runtime, cleaning, cleanVars, activating, activated,
                 publishing, running, coordinated, destroy>>

SchedulerActivated ==
  /\ Activated("scheduler", scheduling, "resolved")
  /\ UNCHANGED <<startVars, runtime, cleaning, cleanVars, activityVars, running,
                 coordinated, destroy>>

BootstrapRejects ==
  /\ bootstrap = "closing"
  /\ closing \in Settled
  /\ bootstrap' = "rejected"
  /\ UNCHANGED <<state, stopRequested, startVars, runtime, cleaning, cleanVars, closing,
                 activityVars, running, coordinated, bound, destroy>>

(* onModuleDestroy, at any time: detach, then session.close().             *)
Destroy ==
  /\ destroy = "idle"
  /\ destroy' = "closing"
  /\ bound' = FALSE
  /\ RequestStop
  /\ UNCHANGED <<startVars, runtime, cleaning, cleanVars, activityVars, running,
                 bootstrap, coordinated>>

DestroySettles ==
  /\ destroy = "closing"
  /\ closing \in Settled
  /\ destroy' = closing
  /\ UNCHANGED <<state, stopRequested, startVars, runtime, cleaning, cleanVars, closing,
                 activityVars, running, bootstrap, coordinated, bound>>

-----------------------------------------------------------------------------
Starts == \E ok \in BOOLEAN : Acquired(ok) \/ RuntimeMade(ok) \/ Probed(ok)
Activates ==
  \E ok \in BOOLEAN :
    Recovered(ok) \/ WorkerStarted(ok) \/ PublisherStarted(ok) \/ SchedulerStarted(ok)
Cleans == (\E ok \in BOOLEAN : Disposed(ok) \/ Released(ok)) \/ CleanupSettles
Closes == CloseAwaits \/ CloseSettles
Hosts ==
  \/ Started \/ (\E ok \in BOOLEAN : Prepared(ok) \/ Coordinate(ok) \/ Bind(ok))
  \/ WorkersActivated \/ PublisherActivated \/ SchedulerActivated \/ BootstrapRejects

Next ==
  \/ Bootstrap \/ Destroy \/ DestroySettles
  \/ Starts \/ StartRejects \/ Activates \/ Cleans \/ Closes \/ Hosts

Spec == Init /\ [][Next]_vars

(* Every external await settles (drivers answer or fail, disposal honours   *)
(* its grace period) and the event loop runs resumed continuations.  Nest   *)
(* need not call either hook.                                              *)
Fairness ==
  /\ WF_vars(Starts) /\ WF_vars(StartRejects) /\ WF_vars(Activates)
  /\ WF_vars(Cleans) /\ WF_vars(Closes) /\ WF_vars(Hosts) /\ WF_vars(DestroySettles)
FairSpec == Spec /\ Fairness

-----------------------------------------------------------------------------
(* Properties.                                                             *)

(* A stop request is final: neither a start that was under way nor its     *)
(* rollback publishes ready or failed afterwards, and closed is the end.   *)
StopIsFinal ==
  [][ /\ stopRequested => state' \in {"stopping", "closed"}
      /\ state = "closed" => state' = "closed" ]_vars

(* Resources are released once each, after the runtime they serve, and     *)
(* never while one acquired later is still open.                           *)
ReleasedInOrder ==
  /\ cleaning = "release" => \A i \in 1..toRelease : resource[i] = "open"
  /\ \A i \in 1..Conns : resource[i] = "released" =>
       /\ runtime # "live"
       /\ \A j \in i..Conns : resource[j] # "open"

(* Nothing outlives a closed session or a start that rolled back: no open  *)
(* resource, no runtime, no worker, publisher or scheduler, and no start   *)
(* or activation under way that could still make one.                      *)
NothingOutlives ==
  state \in {"failed", "closed"} =>
    /\ \A i \in 1..Conns : resource[i] # "open"
    /\ runtime # "live"
    /\ running = {}
    /\ {starting, activating, publishing, scheduling} \subseteq {"none"} \cup Settled

(* Ready means every store answered its probe, in a live runtime over open *)
(* resources, and nothing is being released.                               *)
ReadyIsLive ==
  state = "ready" =>
    /\ probed = Probes
    /\ \A i \in 1..Conns : resource[i] = "open"
    /\ runtime = "live"
    /\ cleaning = "none"

(* What the session's state says of the engine is so, also while a close   *)
(* overlaps a start or an activation: ready serves, failed and closed left *)
(* nothing behind, and a requested stop is neither undone nor overwritten. *)
StateHonest ==
  /\ ReadyIsLive
  /\ NothingOutlives
  /\ stopRequested => state \in {"stopping", "closed"}

(* Once the session is closed and the bootstrap finished, no contract is   *)
(* left with a client of the closed engine.                                *)
DetachedWhenClosed ==
  state = "closed" /\ bootstrap \in {"resolved", "rejected"} => ~bound

(* A requested stop always ends with a closed session, whatever fails or   *)
(* is still starting: close never waits for itself through a bootstrap     *)
(* that is itself waiting for close.                                       *)
CloseTerminates == stopRequested ~> state = "closed"

(* A bootstrap that was begun settles, whatever stops it on the way.       *)
BootstrapSettles == bootstrap = "prepare" ~> bootstrap \in {"resolved", "rejected"}

(* Neither of Nest's hooks hangs, although each awaits the other's work:   *)
(* onModuleDestroy the start it overtakes, the failed bootstrap the close. *)
HooksSettle == CloseTerminates /\ BootstrapSettles
=============================================================================
