----------------------------- MODULE Deployment -----------------------------
(***************************************************************************)
(* What an application declares, brought to the stores: the queue policies *)
(* of QueueControlsCoordinator, the schedules of SchedulesCoordinator and  *)
(* the demands FlowsCoordinator makes on policies, in the order of the     *)
(* bootstrap, and the administrative calls of the running application.  A  *)
(* deploying application checks, then writes; a validating one only        *)
(* checks.  Each storage call is a step, and other deployments may write   *)
(* between any two of them.                                                *)
(***************************************************************************)
EXTENDS Integers, Sequences, Functions

CONSTANTS
  Queues,     \* queues of the stores
  Addresses,  \* addresses of schedules in the groups this application serves
  Conns,      \* number of connections
  Conn,       \* the connection of each queue
  Declared,   \* the queues it declares a policy for, in order
  Keyed,      \* those with a limit per key
  Planned,    \* the schedules it declares, in order
  Target,     \* the queue each schedule emits to
  Roles,      \* the queues of its flows, in order, and whether of a parent
  Found       \* the policies others may give to each queue

Absent == [group |-> "none"]
Policy == {Absent} \cup
  {p \in [group : {"own", "other"}, enabled : BOOLEAN, keyed : BOOLEAN] :
     p.keyed => p.enabled}
Missing == [job |-> "none"]
Schedule == {Missing, [job |-> "other"]} \cup
  [job : {"own"}, same : BOOLEAN, paused : BOOLEAN]

ASSUME DeploymentAssumption ==
  /\ Conns \in Nat
  /\ Conn \in [Queues -> 1..Conns]
  /\ Declared \in Seq(Queues)
  /\ Planned \in Seq(Addresses)
  /\ Target \in [Addresses -> Queues]
  /\ Keyed \subseteq Range(Declared)
  /\ Roles \in Seq([queue : Queues, parent : BOOLEAN])
  /\ Found \in [Queues -> SUBSET Policy]
  /\ \A s \in Range(Planned) : Target[s] \notin Keyed

VARIABLES
  policy,    \* the persisted policy of each queue
  schedule,  \* the persisted schedule at each address
  mode,      \* what each coordinator may do: "validate" or "reconcile"
  task,      \* what the application is doing
  items,     \* the schedules the task is about
  stage,     \* how far it is in its plan
  at,        \* how far it is in the list that stage goes through
  half,      \* whether the first of the two calls about an item is over
  listed,    \* listed schedules whose queue is still to be checked
  answer,    \* how the task ended
  wrote,     \* what it wrote (history)
  disturbed  \* whether others wrote since it began (history)

stored == <<policy, schedule>>
vars == <<stored, mode, task, items, stage, at, half, listed, answer, wrote, disturbed>>

Modes == {"validate", "reconcile"}
Mutations == {"pause", "resume", "remove"}
Tasks == {"bootstrap", "controls", "schedules", "upsert"} \cup Mutations

(* The storage calls of a task, stage by stage.                            *)
Plan ==
  CASE task = "bootstrap" -> <<"check", "deploy", "list", "preflight", "apply", "flows">>
    [] task = "controls" -> <<"check", "deploy">>
    [] task \in {"schedules", "upsert"} -> <<"preflight", "apply">>
    [] OTHER -> <<"mutate">>

(* How many calls a stage makes: a validating coordinator writes nothing.  *)
Length(calls) ==
  CASE calls = "check" -> Len(Declared)
    [] calls = "deploy" -> IF mode.controls = "reconcile" THEN Conns ELSE 0
    [] calls = "apply" -> IF mode.schedules = "reconcile" THEN Len(items) ELSE 0
    [] calls = "flows" -> Len(Roles)
    [] calls = "list" -> 1
    [] OTHER -> Len(items)

TypeOK ==
  /\ policy \in [Queues -> Policy]
  /\ schedule \in [Addresses -> Schedule]
  /\ mode \in [controls : Modes, schedules : Modes]
  /\ task \in Tasks
  /\ items \in Seq(Addresses)
  /\ stage \in 1..(Len(Plan) + 1)
  /\ at \in Nat
  /\ half \in BOOLEAN
  /\ listed \subseteq Addresses
  /\ answer \in {"none", "done", "refused", "failed"}
  /\ wrote \subseteq {"policy", "schedule"}
  /\ disturbed \in BOOLEAN

Init ==
  /\ policy \in {f \in [Queues -> Policy] : \A q \in Queues : f[q] \in Found[q]}
  /\ schedule \in [Addresses -> Schedule]
  /\ mode \in [controls : Modes, schedules : Modes]
  /\ task = "bootstrap" /\ items = Planned
  /\ stage = 1 /\ at = 1 /\ half = FALSE /\ listed = {}
  /\ answer = "none"
  /\ wrote = {} /\ disturbed = FALSE

-----------------------------------------------------------------------------
(* Going through the plan.                                                 *)

At(calls) ==
  /\ answer = "none"
  /\ stage <= Len(Plan)
  /\ Plan[stage] = calls
  /\ at <= Length(calls)

NextCall == at' = at + 1 /\ half' = FALSE /\ UNCHANGED <<stage, answer>>
SameItem == half' = TRUE /\ UNCHANGED <<stage, at, answer>>
End(how) == answer' = how /\ UNCHANGED <<stage, at, half>>
PassIf(check) == IF check THEN NextCall ELSE End("refused")

KeptRun == UNCHANGED <<mode, task, items, disturbed>>

(* A loop is over: the next stage begins, or the task is done.             *)
NextStage ==
  /\ answer = "none"
  /\ at > Length(Plan[stage])
  /\ listed = {}
  /\ stage' = stage + 1
  /\ at' = 1
  /\ answer' = IF stage = Len(Plan) THEN "done" ELSE "none"
  /\ UNCHANGED <<stored, half, listed, wrote>>
  /\ KeptRun

(* A storage call fails, or the engine is not ready any more.              *)
Fail ==
  /\ answer = "none"
  /\ End("failed")
  /\ UNCHANGED <<stored, listed, wrote>>
  /\ KeptRun

-----------------------------------------------------------------------------
(* Queue policies.                                                         *)

Enabled(q) == policy[q] # Absent /\ policy[q].enabled
PerKey(q) == Enabled(q) /\ policy[q].keyed
Desired(q) == [group |-> "own", enabled |-> TRUE, keyed |-> q \in Keyed]

(* A queue of another group is refused; a validating application also      *)
(* refuses a missing policy and one that differs.                          *)
Acceptable(q) ==
  /\ policy[q].group # "other"
  /\ mode.controls = "validate" => policy[q] = Desired(q)

(* Fault: each queue is written as soon as it was checked.                 *)
CheckQueueEagerly ==
  /\ At("check")
  /\ LET q == Declared[at]
     IN /\ PassIf(Acceptable(q))
        /\ IF Acceptable(q) /\ mode.controls = "reconcile"
             THEN policy' = [policy EXCEPT ![q] = Desired(q)] /\ wrote' = wrote \cup {"policy"}
             ELSE UNCHANGED <<policy, wrote>>
  /\ UNCHANGED <<schedule, listed>>
  /\ KeptRun

CheckQueue ==
  /\ At("check")
  /\ PassIf(Acceptable(Declared[at]))
  /\ UNCHANGED <<stored, listed, wrote>>
  /\ KeptRun

(* The adapter reconciles one connection's policies.  What it does with a  *)
(* policy another group took meanwhile is its own; when it fails, any part *)
(* may be written.                                                         *)
Deploy(written, ok) ==
  LET own == {q \in Range(Declared) : Conn[q] = at}
  IN /\ At("deploy")
     /\ written \subseteq own
     /\ ok => {q \in own : policy[q].group # "other"} \subseteq written
     /\ policy' = [q \in Queues |-> IF q \in written THEN Desired(q) ELSE policy[q]]
     /\ wrote' = IF written = {} THEN wrote ELSE wrote \cup {"policy"}
     /\ IF ok THEN NextCall ELSE End("failed")
     /\ UNCHANGED <<schedule, listed>>
     /\ KeptRun

-----------------------------------------------------------------------------
(* Schedules.                                                              *)

Existing == {s \in Addresses : schedule[s] # Missing}

(* Fault: only the declared schedules are looked at.                       *)
ListDeclared ==
  /\ At("list")
  /\ listed' = Existing \cap Range(Planned)
  /\ NextCall
  /\ UNCHANGED <<stored, wrote>>
  /\ KeptRun

(* The persisted schedules of every served group are listed, also those    *)
(* this release does not declare.                                          *)
List ==
  /\ At("list")
  /\ listed' = Existing
  /\ NextCall
  /\ UNCHANGED <<stored, wrote>>
  /\ KeptRun

(* A listed schedule must not emit to a queue limited per key.             *)
CheckListed(s) ==
  /\ answer = "none" /\ s \in listed
  /\ listed' = listed \ {s}
  /\ IF PerKey(Target[s]) THEN End("refused") ELSE UNCHANGED <<stage, at, half, answer>>
  /\ UNCHANGED <<stored, wrote>>
  /\ KeptRun

PreflightPolicy ==
  /\ At("preflight") /\ ~half
  /\ IF PerKey(Target[items[at]]) THEN End("refused") ELSE SameItem
  /\ UNCHANGED <<stored, listed, wrote>>
  /\ KeptRun

Matching(s) == schedule[s].job = "own" /\ schedule[s].same

(* Fault: the identity is only looked at when it is not written.           *)
PreflightUnidentified ==
  /\ At("preflight") /\ half
  /\ PassIf(mode.schedules = "validate" => Matching(items[at]))
  /\ UNCHANGED <<stored, listed, wrote>>
  /\ KeptRun

(* The address must not belong to another job; a validating application    *)
(* also refuses a missing schedule and one that differs.                   *)
PreflightRecord ==
  /\ At("preflight") /\ half
  /\ PassIf(/\ schedule[items[at]].job # "other"
            /\ mode.schedules = "validate" => Matching(items[at]))
  /\ UNCHANGED <<stored, listed, wrote>>
  /\ KeptRun

(* A reconciled schedule keeps its operator's pause.                       *)
Reconciled(s) ==
  [job |-> "own", same |-> TRUE,
   paused |-> schedule[s].job = "own" /\ schedule[s].paused]

(* The adapter reconciles one declaration; its answer may be an error.     *)
Apply(ok) ==
  /\ At("apply")
  /\ schedule' = [schedule EXCEPT ![items[at]] = Reconciled(items[at])]
  /\ wrote' = wrote \cup {"schedule"}
  /\ IF ok THEN NextCall ELSE End("failed")
  /\ UNCHANGED <<policy, listed>>
  /\ KeptRun

(* Fault: pause, resume and remove go by the address alone.                *)
MutateReadsNothing ==
  /\ At("mutate") /\ ~half
  /\ IF schedule[items[at]] = Missing
       THEN End(IF task = "remove" THEN "done" ELSE "refused")
       ELSE SameItem
  /\ UNCHANGED <<stored, listed, wrote>>
  /\ KeptRun

(* pause, resume and remove read the schedule and its identity first.      *)
MutateRead ==
  /\ At("mutate") /\ ~half
  /\ CASE schedule[items[at]] = Missing -> End(IF task = "remove" THEN "done" ELSE "refused")
       [] schedule[items[at]].job = "other" -> End("refused")
       [] OTHER -> SameItem
  /\ UNCHANGED <<stored, listed, wrote>>
  /\ KeptRun

(* The write goes to the address, whatever is there by now.                *)
MutateWrite(ok) ==
  LET s == items[at]
  IN /\ At("mutate") /\ half
     /\ schedule' = [schedule EXCEPT ![s] =
          CASE task = "remove" -> Missing
            [] task # "remove" /\ @.job = "own" -> [@ EXCEPT !.paused = task = "pause"]
            [] OTHER -> @]
     /\ wrote' = wrote \cup {"schedule"}
     /\ IF ok THEN NextCall ELSE End("failed")
     /\ UNCHANGED <<policy, listed>>
     /\ KeptRun

-----------------------------------------------------------------------------
(* Flows: neither a parent's permits nor a child's dispatch key may be     *)
(* bypassed.                                                               *)
CheckRole ==
  /\ At("flows")
  /\ PassIf(IF Roles[at].parent THEN ~Enabled(Roles[at].queue) ELSE ~PerKey(Roles[at].queue))
  /\ UNCHANGED <<stored, listed, wrote>>
  /\ KeptRun

-----------------------------------------------------------------------------
(* An administrative call of the application, once it runs.  Definitions   *)
(* are only written in reconcile mode.                                     *)
Administer(call, s) ==
  /\ answer # "none"
  /\ task = "bootstrap" => answer = "done"
  /\ call = "controls" => mode.controls = "reconcile"
  /\ call \in {"schedules", "upsert"} => mode.schedules = "reconcile"
  /\ call = "upsert" => Target[s] \notin Keyed
  /\ task' = call
  /\ items' = IF call = "schedules" THEN Planned ELSE <<s>>
  /\ stage' = 1 /\ at' = 1 /\ half' = FALSE /\ listed' = {}
  /\ answer' = "none"
  /\ wrote' = {} /\ disturbed' = FALSE
  /\ UNCHANGED <<stored, mode>>

(* Another deployment writes.                                              *)
Elsewhere ==
  /\ \/ \E q \in Queues : \E p \in Found[q] :
          policy' = [policy EXCEPT ![q] = p] /\ UNCHANGED schedule
     \/ \E s \in Addresses, r \in Schedule :
          schedule' = [schedule EXCEPT ![s] = r] /\ UNCHANGED policy
  /\ disturbed' = TRUE
  /\ UNCHANGED <<mode, task, items, stage, at, half, listed, answer, wrote>>

Next ==
  \/ CheckQueue \/ List \/ PreflightPolicy \/ PreflightRecord \/ MutateRead \/ CheckRole
  \/ \E s \in Addresses : CheckListed(s)
  \/ \E ok \in BOOLEAN, written \in SUBSET Queues : Deploy(written, ok)
  \/ \E ok \in BOOLEAN : Apply(ok) \/ MutateWrite(ok)
  \/ NextStage \/ Fail
  \/ \E call \in Tasks \ {"bootstrap"}, s \in Addresses : Administer(call, s)
  \/ Elsewhere

Spec == Init /\ [][Next]_vars

-----------------------------------------------------------------------------
(* Properties.                                                             *)

(* An application that came up undisturbed found or made what it declares, *)
(* and nothing it serves bypasses a limit: no schedule of its groups emits *)
(* to a queue limited per key, declared here, there or in an earlier       *)
(* release, and no flow runs over a policy it would bypass.                *)
StartsConsistent ==
  task = "bootstrap" /\ answer = "done" /\ ~disturbed =>
    /\ \A q \in Range(Declared) : policy[q] = Desired(q)
    /\ \A s \in Range(Planned) : Matching(s)
    /\ \A s \in Existing : ~PerKey(Target[s])
    /\ \A i \in DOMAIN Roles :
         ~PerKey(Roles[i].queue) /\ (Roles[i].parent => ~Enabled(Roles[i].queue))

(* All checks of the policies finish before the first policy is written,   *)
(* and all checks of the schedules before the first schedule: what refuses *)
(* one of them has written none of its kind, whoever else writes.          *)
RefusedUnwritten ==
  answer = "refused" /\ stage <= Len(Plan) =>
    /\ Plan[stage] = "check" => wrote = {}
    /\ Plan[stage] \in {"list", "preflight", "mutate"} => "schedule" \notin wrote

(* As long as no other deployment writes meanwhile, no task ever writes    *)
(* the policy of another group or the schedule of another job.             *)
ForeignKept ==
  [][ ~disturbed' =>
        /\ \A q \in Queues : policy[q].group = "other" => policy'[q] = policy[q]
        /\ \A s \in Addresses : schedule[s].job = "other" => schedule'[s] = schedule[s]
    ]_vars
=============================================================================
