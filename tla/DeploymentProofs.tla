-------------------------- MODULE DeploymentProofs --------------------------
(***************************************************************************)
(* Proofs about the deployment of policies and schedules, for any queues,  *)
(* connections, declarations and roles: what an undisturbed bootstrap has  *)
(* established when it is done, what a refusal leaves unwritten, and whose *)
(* policies and schedules are never written.                               *)
(***************************************************************************)
EXTENDS Deployment, TLAPS

Calls == {"mutate", "check", "deploy", "list", "preflight", "apply", "flows"}

(* The order of the stages, in whatever plan they occur.                   *)
Rank(calls) ==
  CASE calls = "mutate" -> 0
    [] calls = "check" -> 1
    [] calls = "deploy" -> 2
    [] calls = "list" -> 3
    [] calls = "preflight" -> 4
    [] calls = "apply" -> 5
    [] OTHER -> 6

(* The task is in the stage, has come to it, has dealt with an item of it. *)
Now(calls) == stage <= Len(Plan) /\ Plan[stage] = calls
Reached(calls) == \E k \in 1..Len(Plan) : Plan[k] = calls /\ k <= stage
Dealt(calls, i) ==
  \E k \in 1..Len(Plan) : Plan[k] = calls /\ (k < stage \/ (k = stage /\ i < at))

(* Where a task is: it is over at the end of its plan, the second call     *)
(* about an item follows the first one, listed schedules are checked in    *)
(* their stage, a mutation is about one schedule and a bootstrap about all *)
(* that are declared.                                                      *)
PlaceInv ==
  /\ at >= 1
  /\ answer = "none" => stage <= Len(Plan)
  /\ task = "bootstrap" /\ answer = "done" => stage > Len(Plan)
  /\ half => (Now("preflight") \/ Now("mutate")) /\ at <= Len(items)
  /\ listed # {} => Now("list")
  /\ task \in Mutations => Len(items) = 1
  /\ task = "bootstrap" => items = Planned

(* What was written, was written in its stage, by a mutation only at last. *)
WroteInv ==
  /\ "policy" \in wrote => Reached("deploy")
  /\ "schedule" \in wrote =>
       \/ Reached("apply")
       \/ /\ task \in Mutations
          /\ \/ stage > Len(Plan) \/ answer = "failed"
             \/ answer = "none" /\ at > Len(items)

(* What the policies and schedules dealt with are, while nobody else       *)
(* writes: of no other group, as declared, checked, as wanted by flows.    *)
CheckedInv == \A i \in 1..Len(Declared) : Dealt("check", i) => Acceptable(Declared[i])
DeployedInv ==
  mode.controls = "reconcile" =>
    \A q \in Range(Declared) : Dealt("deploy", Conn[q]) => policy[q] = Desired(q)
ListedInv ==
  answer # "refused" /\ Dealt("list", 1) =>
    \A s \in Existing : s \in listed \/ ~PerKey(Target[s])
Preflighted(s) ==
  /\ ~PerKey(Target[s]) /\ schedule[s].job # "other"
  /\ mode.schedules = "validate" => Matching(s)
PreflightInv ==
  /\ \A i \in 1..Len(items) : Dealt("preflight", i) => Preflighted(items[i])
  /\ Now("preflight") /\ half => ~PerKey(Target[items[at]])
AppliedInv ==
  mode.schedules = "reconcile" =>
    \A i \in 1..Len(items) : Dealt("apply", i) => Matching(items[i])
FlowsInv ==
  \A i \in 1..Len(Roles) : Dealt("flows", i) =>
    ~PerKey(Roles[i].queue) /\ (Roles[i].parent => ~Enabled(Roles[i].queue))
MutateInv ==
  Now("mutate") /\ half /\ answer = "none" => schedule[items[at]].job = "own"

EstablishedInv ==
  ~disturbed => /\ CheckedInv /\ DeployedInv /\ ListedInv /\ PreflightInv
                /\ AppliedInv /\ FlowsInv /\ MutateInv

IInv == TypeOK /\ PlaceInv /\ WroteInv /\ EstablishedInv

-----------------------------------------------------------------------------
(* The plans.                                                              *)

(* The stages of a bootstrap.                                              *)
LEMMA PlanOfBootstrap ==
  ASSUME task = "bootstrap"
  PROVE  /\ Len(Plan) = 6
         /\ Plan[1] = "check" /\ Plan[2] = "deploy" /\ Plan[3] = "list"
         /\ Plan[4] = "preflight" /\ Plan[5] = "apply" /\ Plan[6] = "flows"
  BY DEF Plan

(* The stages of an administrative call about policies.                    *)
LEMMA PlanOfControls ==
  ASSUME task = "controls"
  PROVE  Len(Plan) = 2 /\ Plan[1] = "check" /\ Plan[2] = "deploy"
  BY DEF Plan

(* The stages of an administrative call about schedules.                   *)
LEMMA PlanOfSchedules ==
  ASSUME task \in {"schedules", "upsert"}
  PROVE  Len(Plan) = 2 /\ Plan[1] = "preflight" /\ Plan[2] = "apply"
  BY DEF Plan

(* The stages of a call about one schedule.                                *)
LEMMA PlanOfMutation ==
  ASSUME task \in Mutations
  PROVE  Len(Plan) = 1 /\ Plan[1] = "mutate"
  BY DEF Plan, Mutations

(* The stages of a plan follow each other in the order of their ranks.     *)
LEMMA PlanOrder ==
  ASSUME task \in Tasks
  PROVE  /\ Len(Plan) \in Nat /\ Len(Plan) >= 1
         /\ \A k \in 1..Len(Plan) : Plan[k] \in Calls
         /\ \A j, k \in 1..Len(Plan) : j < k => Rank(Plan[j]) < Rank(Plan[k])
<1>1. CASE task = "bootstrap"
  <2>0. Len(Plan) = 6
    BY <1>1, PlanOfBootstrap
  <2>1. \A k \in 1..Len(Plan) : k = 1 \/ k = 2 \/ k = 3 \/ k = 4 \/ k = 5 \/ k = 6
    BY <2>0
  <2>2. \A k \in 1..Len(Plan) : Plan[k] \in Calls /\ Rank(Plan[k]) = k
    BY <1>1, <2>1, PlanOfBootstrap DEF Rank, Calls
  <2> QED BY <2>0, <2>2
<1>2. CASE task = "controls"
  <2>0. Len(Plan) = 2
    BY <1>2, PlanOfControls
  <2>1. \A k \in 1..Len(Plan) : k = 1 \/ k = 2
    BY <2>0
  <2> QED BY <1>2, <2>1, PlanOfControls DEF Rank, Calls
<1>3. CASE task \in {"schedules", "upsert"}
  <2>0. Len(Plan) = 2
    BY <1>3, PlanOfSchedules
  <2>1. \A k \in 1..Len(Plan) : k = 1 \/ k = 2
    BY <2>0
  <2> QED BY <1>3, <2>1, PlanOfSchedules DEF Rank, Calls
<1>4. CASE task \in Mutations
  <2>0. Len(Plan) = 1
    BY <1>4, PlanOfMutation
  <2>1. \A k \in 1..Len(Plan) : k = 1
    BY <2>0
  <2> QED BY <1>4, <2>1, PlanOfMutation DEF Rank, Calls
<1> QED BY <1>1, <1>2, <1>3, <1>4 DEF Tasks

(* Which stages a plan has: schedules are only applied after a preflight,  *)
(* and a mutation is a plan of its own.                                    *)
LEMMA PlanStages ==
  ASSUME task \in Tasks, NEW k \in 1..Len(Plan)
  PROVE  /\ Plan[k] = "apply" => \E j \in 1..Len(Plan) : j < k /\ Plan[j] = "preflight"
         /\ Plan[k] = "mutate" <=> task \in Mutations
         /\ Plan[k] = "deploy" => \E j \in 1..Len(Plan) : j < k /\ Plan[j] = "check"
         /\ Plan[k] \in {"list", "flows"} => task = "bootstrap"
<1>1. CASE task = "bootstrap"
  <2>0. Len(Plan) = 6
    BY <1>1, PlanOfBootstrap
  <2>1. k = 1 \/ k = 2 \/ k = 3 \/ k = 4 \/ k = 5 \/ k = 6
    BY <2>0
  <2> QED BY <1>1, <2>1, PlanOfBootstrap DEF Mutations
<1>2. CASE task = "controls"
  <2>0. Len(Plan) = 2
    BY <1>2, PlanOfControls
  <2>1. k = 1 \/ k = 2
    BY <2>0
  <2> QED BY <1>2, <2>1, PlanOfControls DEF Mutations
<1>3. CASE task \in {"schedules", "upsert"}
  <2>0. Len(Plan) = 2
    BY <1>3, PlanOfSchedules
  <2>1. k = 1 \/ k = 2
    BY <2>0
  <2> QED BY <1>3, <2>1, PlanOfSchedules DEF Mutations
<1>4. CASE task \in Mutations
  <2>0. Len(Plan) = 1
    BY <1>4, PlanOfMutation
  <2>1. k = 1
    BY <2>0
  <2> QED BY <1>4, <2>1, PlanOfMutation DEF Mutations
<1> QED BY <1>1, <1>2, <1>3, <1>4 DEF Tasks

(* A task that runs keeps its plan.                                        *)
LEMMA KeptPlan ==
  ASSUME KeptRun
  PROVE  Plan' = Plan /\ \A c : Length(c)' = Length(c)
<1>1. Plan' = Plan
  BY DEF KeptRun, Plan
<1>2. ASSUME NEW c PROVE Length(c)' = Length(c)
  BY DEF KeptRun, Length
<1> QED BY <1>1, <1>2

(* A plan has a length.                                                    *)
LEMMA LengthNat ==
  ASSUME TypeOK, NEW c
  PROVE  Length(c) \in Nat
<1>1. Len(Declared) \in Nat /\ Conns \in Nat /\ Len(Roles) \in Nat
  BY DeploymentAssumption
<1>2. Len(items) \in Nat
  BY DEF TypeOK
<1> QED BY <1>1, <1>2 DEF Length

-----------------------------------------------------------------------------
(* Where a step leaves a task in its plan.                                 *)

(* A stage that has been reached is not after the one the task is in.      *)
LEMMA NotLater ==
  ASSUME TypeOK, NEW c, Now(c), NEW d, Reached(d)
  PROVE  Rank(d) <= Rank(c)
<1>1. stage \in 1..Len(Plan)
  BY PlanOrder DEF TypeOK, Now
<1>2. PICK k \in 1..Len(Plan) : Plan[k] = d /\ k <= stage
  BY DEF Reached
<1>3. CASE k = stage
  <2>1. c = d
    BY <1>2, <1>3 DEF Now
  <2>2. d \in Calls
    BY <1>2, PlanOrder DEF TypeOK
  <2>3. Rank(d) \in Nat
    BY <2>2 DEF Rank, Calls
  <2> QED BY <2>1, <2>3
<1>4. CASE k < stage
  <2>1. Rank(Plan[k]) < Rank(Plan[stage])
    BY <1>1, <1>4, PlanOrder DEF TypeOK
  <2>2. Plan[k] \in Calls /\ Plan[stage] \in Calls
    BY <1>1, PlanOrder DEF TypeOK
  <2>3. Rank(Plan[k]) \in Nat /\ Rank(Plan[stage]) \in Nat
    BY <2>2 DEF Rank, Calls
  <2> QED BY <1>2, <2>1, <2>3 DEF Now
<1> QED BY <1>1, <1>2, <1>3, <1>4

(* What a task has dealt with it has reached.                              *)
LEMMA DealtReached ==
  ASSUME TypeOK, NEW d, NEW i, Dealt(d, i)
  PROVE  Reached(d)
<1>1. stage \in Nat /\ Len(Plan) \in Nat
  BY PlanOrder DEF TypeOK
<1> QED BY <1>1 DEF Dealt, Reached

(* A task that stays where it is has dealt with the same.                  *)
LEMMA StaysPut ==
  ASSUME KeptRun, UNCHANGED <<stage, at>>
  PROVE  /\ \A d : (Now(d)' <=> Now(d)) /\ (Reached(d)' <=> Reached(d))
         /\ \A d, i : Dealt(d, i)' <=> Dealt(d, i)
  BY KeptPlan DEF Now, Reached, Dealt

(* A task that moves on within a stage has dealt with one more.            *)
LEMMA MovesOn ==
  ASSUME TypeOK, KeptRun, NEW c, At(c), NextCall
  PROVE  /\ \A d : (Now(d)' <=> Now(d)) /\ (Reached(d)' <=> Reached(d))
         /\ \A d : \A i \in Nat : Dealt(d, i)' => Dealt(d, i) \/ (d = c /\ i = at)
<1>1. stage' = stage /\ at' = at + 1 /\ at \in Nat /\ Plan' = Plan
  BY KeptPlan DEF NextCall, TypeOK
<1>2. \A d : (Now(d)' <=> Now(d)) /\ (Reached(d)' <=> Reached(d))
  BY <1>1 DEF Now, Reached
<1>3. ASSUME NEW d, NEW i \in Nat, Dealt(d, i)', ~Dealt(d, i)
      PROVE  d = c /\ i = at
  <2>1. PICK k \in 1..Len(Plan) : Plan[k] = d /\ (k < stage \/ (k = stage /\ i < at + 1))
    BY <1>1, <1>3 DEF Dealt
  <2>2. k = stage /\ ~(i < at)
    BY <1>3, <2>1 DEF Dealt
  <2> QED BY <1>1, <2>1, <2>2 DEF At
<1> QED BY <1>2, <1>3

(* A task in its next stage has dealt with all of the one before.          *)
LEMMA NextStageDealt ==
  ASSUME TypeOK, NextStage, NEW d, NEW i \in Nat, 1 <= i, i <= Length(d), Dealt(d, i)'
  PROVE  Dealt(d, i)
<1>1. /\ stage' = stage + 1 /\ at' = 1 /\ Plan' = Plan
      /\ at > Length(Plan[stage]) /\ at \in Nat
  BY KeptPlan DEF NextStage, TypeOK
<1>2. stage \in Nat /\ Len(Plan) \in Nat /\ Length(d) \in Nat
  BY PlanOrder, LengthNat DEF TypeOK
<1>3. PICK k \in 1..Len(Plan) : Plan[k] = d /\ (k < stage + 1 \/ (k = stage + 1 /\ i < 1))
  BY <1>1 DEF Dealt
<1>4. CASE k < stage
  BY <1>3, <1>4 DEF Dealt
<1>5. CASE k = stage
  <2>1. i < at
    BY <1>1, <1>2, <1>3, <1>5
  <2> QED BY <1>3, <1>5, <2>1 DEF Dealt
<1> QED BY <1>2, <1>3, <1>4, <1>5

-----------------------------------------------------------------------------
(* Types.                                                                  *)

(* A declared policy is of the own group.                                  *)
LEMMA OwnPolicy ==
  ASSUME NEW q
  PROVE  Desired(q) \in Policy /\ Desired(q).group = "own"
<1>1. CASE q \in Keyed
  <2>1. Desired(q) = [group |-> "own", enabled |-> TRUE, keyed |-> TRUE]
    BY <1>1 DEF Desired
  <2> QED BY <2>1 DEF Policy
<1>2. CASE q \notin Keyed
  <2>1. (q \in Keyed) = FALSE
    BY <1>2
  <2>2. Desired(q) = [group |-> "own", enabled |-> TRUE, keyed |-> FALSE]
    BY <2>1, Zenon DEF Desired
  <2> QED BY <2>2 DEF Policy
<1> QED BY <1>1, <1>2

(* A reconciled schedule is of the own job.                                *)
LEMMA OwnSchedule ==
  ASSUME NEW s
  PROVE  Reconciled(s) \in Schedule /\ Reconciled(s).job = "own" /\ Reconciled(s).same
<1>1. CASE schedule[s].job = "own" /\ schedule[s].paused
  <2>1. Reconciled(s) = [job |-> "own", same |-> TRUE, paused |-> TRUE]
    BY <1>1 DEF Reconciled
  <2> QED BY <2>1 DEF Schedule
<1>2. CASE ~(schedule[s].job = "own" /\ schedule[s].paused)
  <2>1. Reconciled(s) = [job |-> "own", same |-> TRUE, paused |-> FALSE]
    BY <1>2 DEF Reconciled
  <2> QED BY <2>1 DEF Schedule
<1> QED BY <1>1, <1>2

(* What the application declares.                                          *)
LEMMA Declarations ==
  /\ Len(Declared) \in Nat /\ Len(Roles) \in Nat /\ Len(Planned) \in Nat
  /\ \A i \in 1..Len(Declared) : Declared[i] \in Queues /\ Declared[i] \in Range(Declared)
  /\ \A i \in 1..Len(Roles) : Roles[i].queue \in Queues
  /\ \A q \in Range(Declared) : q \in Queues /\ \E i \in 1..Len(Declared) : Declared[i] = q
  /\ \A s \in Range(Planned) : s \in Addresses /\ \E i \in 1..Len(Planned) : Planned[i] = s
<1>1. Len(Declared) \in Nat /\ DOMAIN Declared = 1..Len(Declared)
  BY DeploymentAssumption
<1>2. Len(Planned) \in Nat /\ DOMAIN Planned = 1..Len(Planned)
  BY DeploymentAssumption
<1>3. Len(Roles) \in Nat /\ \A i \in 1..Len(Roles) : Roles[i].queue \in Queues
  <2> DEFINE Role == [queue : Queues, parent : BOOLEAN]
  <2>1. Roles \in Seq(Role)
    BY DeploymentAssumption
  <2>2. \A r \in Role : r.queue \in Queues
    OBVIOUS
  <2> HIDE DEF Role
  <2> QED BY <2>1, <2>2
<1>4. \A i \in 1..Len(Declared) : Declared[i] \in Queues
  BY DeploymentAssumption
<1>5. \A i \in 1..Len(Planned) : Planned[i] \in Addresses
  BY DeploymentAssumption
<1> QED BY <1>1, <1>2, <1>3, <1>4, <1>5 DEF Range

(* What a mutation writes is a schedule.                                   *)
LEMMA WrittenSchedule ==
  ASSUME TypeOK, NEW ok, MutateWrite(ok)
  PROVE  schedule' \in [Addresses -> Schedule]
<1> DEFINE s == items[at]
           now == CASE task = "remove" -> Missing
                    [] task # "remove" /\ schedule[s].job = "own" ->
                         [schedule[s] EXCEPT !.paused = task = "pause"]
                    [] OTHER -> schedule[s]
<1>1. schedule' = [schedule EXCEPT ![s] = now]
  BY DEF MutateWrite
<1>2. s \in Addresses => now \in Schedule
  <2> SUFFICES ASSUME s \in Addresses PROVE now \in Schedule
    OBVIOUS
  <2>1. schedule[s] \in Schedule
    BY DEF TypeOK
  <2>2. CASE task = "remove"
    BY <2>2 DEF Schedule
  <2>3. CASE task # "remove" /\ schedule[s].job = "own"
    <3>1. schedule[s] \in [job : {"own"}, same : BOOLEAN, paused : BOOLEAN]
      BY <2>1, <2>3 DEF Schedule, Missing
    <3>2. [schedule[s] EXCEPT !.paused = task = "pause"] \in [job : {"own"}, same : BOOLEAN, paused : BOOLEAN]
      BY <3>1
    <3> QED BY <2>3, <3>2 DEF Schedule
  <2>4. CASE task # "remove" /\ schedule[s].job # "own"
    BY <2>1, <2>4
  <2> QED BY <2>2, <2>3, <2>4
<1> HIDE DEF now, s
<1> QED BY <1>1, <1>2 DEF TypeOK

(* The plan after a step is a plan of the task.                            *)
LEMMA NextPlan ==
  ASSUME task' \in Tasks
  PROVE  (Len(Plan) \in Nat /\ Len(Plan) >= 1)'
<1>1. CASE task' = "bootstrap"
  BY <1>1 DEF Plan
<1>2. CASE task' \in {"controls", "schedules", "upsert"}
  BY <1>2 DEF Plan
<1>3. CASE task' \in Mutations
  BY <1>3 DEF Plan, Mutations
<1> QED BY <1>1, <1>2, <1>3 DEF Tasks

(* What a step may leave of the place in the plan.                         *)
LEMMA PlaceType ==
  ASSUME TypeOK, KeptRun, NEW how \in {"done", "refused", "failed"},
         NextCall \/ SameItem \/ End(how) \/ UNCHANGED <<stage, at, half, answer>>
  PROVE  /\ stage' \in 1..(Len(Plan') + 1) /\ at' \in Nat /\ half' \in BOOLEAN
         /\ answer' \in {"none", "done", "refused", "failed"}
         /\ mode' \in [controls : Modes, schedules : Modes] /\ task' \in Tasks
         /\ items' \in Seq(Addresses) /\ disturbed' \in BOOLEAN
<1>1. Plan' = Plan
  BY KeptPlan
<1>2. stage' = stage /\ at' \in Nat
  BY DEF TypeOK, NextCall, SameItem, End
<1>3. half' \in BOOLEAN
  BY Zenon DEF TypeOK, NextCall, SameItem, End
<1>4. answer' \in {"none", "done", "refused", "failed"}
  BY DEF TypeOK, NextCall, SameItem, End
<1> QED BY <1>1, <1>2, <1>3, <1>4 DEF TypeOK, KeptRun

(* Everything is well-typed at first.                                      *)
LEMMA InitType == Init => TypeOK
<1> SUFFICES ASSUME Init PROVE TypeOK
  OBVIOUS
<1>1. policy \in [Queues -> Policy]
  BY DEF Init
<1>2. stage = 1 /\ task = "bootstrap" /\ Len(Plan) = 6
  BY PlanOfBootstrap DEF Init
<1>3. items \in Seq(Addresses)
  BY DeploymentAssumption DEF Init
<1>4. stage \in 1..(Len(Plan) + 1)
  BY <1>2
<1>5. half \in BOOLEAN /\ disturbed \in BOOLEAN
  BY DEF Init
<1> QED BY <1>1, <1>2, <1>3, <1>4, <1>5 DEF Init, TypeOK, Tasks, Modes

(* Every step keeps the types.                                             *)
LEMMA NextType == TypeOK /\ PlaceInv /\ [Next]_vars => TypeOK'
<1> SUFFICES ASSUME TypeOK, PlaceInv, [Next]_vars PROVE TypeOK'
  OBVIOUS
<1>1. CASE CheckQueue
  <2>1. (NextCall \/ SameItem \/ End("refused") \/ UNCHANGED <<stage, at, half, answer>>) /\ KeptRun
    BY <1>1 DEF CheckQueue, PassIf
  <2> QED BY <1>1, <2>1, PlaceType DEF CheckQueue, TypeOK, stored
<1>2. CASE List
  <2>1. NextCall /\ KeptRun /\ listed' \subseteq Addresses
    BY <1>2 DEF List, Existing
  <2> QED BY <1>2, <2>1, PlaceType DEF List, TypeOK, stored
<1>3. CASE PreflightPolicy
  <2>1. (NextCall \/ SameItem \/ End("refused") \/ UNCHANGED <<stage, at, half, answer>>) /\ KeptRun
    BY <1>3 DEF PreflightPolicy
  <2> QED BY <1>3, <2>1, PlaceType DEF PreflightPolicy, TypeOK, stored
<1>4. CASE PreflightRecord
  <2>1. (NextCall \/ SameItem \/ End("refused") \/ UNCHANGED <<stage, at, half, answer>>) /\ KeptRun
    BY <1>4 DEF PreflightRecord, PassIf
  <2> QED BY <1>4, <2>1, PlaceType DEF PreflightRecord, TypeOK, stored
<1>5. CASE MutateRead
  <2>1. /\ \/ SameItem \/ End("refused") \/ End("done")
        /\ KeptRun
    BY <1>5 DEF MutateRead
  <2> QED BY <1>5, <2>1, PlaceType DEF MutateRead, TypeOK, stored
<1>6. CASE CheckRole
  <2>1. (NextCall \/ SameItem \/ End("refused") \/ UNCHANGED <<stage, at, half, answer>>) /\ KeptRun
    BY <1>6 DEF CheckRole, PassIf
  <2> QED BY <1>6, <2>1, PlaceType DEF CheckRole, TypeOK, stored
<1>7. ASSUME NEW s \in Addresses, CheckListed(s) PROVE TypeOK'
  <2>1. /\ \/ End("refused") \/ UNCHANGED <<stage, at, half, answer>>
        /\ KeptRun /\ listed' = listed \ {s}
    BY <1>7 DEF CheckListed
  <2> QED BY <1>7, <2>1, PlaceType DEF CheckListed, TypeOK, stored
<1>8. ASSUME NEW ok \in BOOLEAN, NEW written \in SUBSET Queues, Deploy(written, ok) PROVE TypeOK'
  <2>1. (NextCall \/ End("failed")) /\ KeptRun
    BY <1>8 DEF Deploy
  <2>2. policy' = [q \in Queues |-> IF q \in written THEN Desired(q) ELSE policy[q]]
    BY <1>8 DEF Deploy
  <2>3. policy' \in [Queues -> Policy]
    BY <2>2, OwnPolicy DEF TypeOK
  <2>4. wrote' \subseteq {"policy", "schedule"} /\ schedule' = schedule /\ listed' = listed
    BY <1>8 DEF Deploy, TypeOK
  <2> QED BY <2>1, <2>3, <2>4, PlaceType DEF TypeOK
<1>9. ASSUME NEW ok \in BOOLEAN, Apply(ok) PROVE TypeOK'
  <2>1. (NextCall \/ End("failed")) /\ KeptRun
    BY <1>9 DEF Apply
  <2>2. schedule' = [schedule EXCEPT ![items[at]] = Reconciled(items[at])]
    BY <1>9 DEF Apply
  <2>3. schedule' \in [Addresses -> Schedule]
    BY <2>2, OwnSchedule DEF TypeOK
  <2>4. wrote' \subseteq {"policy", "schedule"} /\ policy' = policy /\ listed' = listed
    BY <1>9 DEF Apply, TypeOK
  <2> QED BY <2>1, <2>3, <2>4, PlaceType DEF TypeOK
<1>10. ASSUME NEW ok \in BOOLEAN, MutateWrite(ok) PROVE TypeOK'
  <2>1. (NextCall \/ End("failed")) /\ KeptRun
    BY <1>10 DEF MutateWrite
  <2>2. schedule' \in [Addresses -> Schedule]
    BY <1>10, WrittenSchedule
  <2>3. wrote' \subseteq {"policy", "schedule"} /\ policy' = policy /\ listed' = listed
    BY <1>10 DEF MutateWrite, TypeOK
  <2> QED BY <2>1, <2>2, <2>3, PlaceType DEF TypeOK
<1>11. CASE NextStage
  <2>1. stage \in 1..Len(Plan) /\ Plan' = Plan /\ Len(Plan) \in Nat
    BY <1>11, PlanOrder, KeptPlan DEF NextStage, TypeOK, PlaceInv
  <2> QED BY <1>11, <2>1 DEF NextStage, KeptRun, TypeOK, stored
<1>12. CASE Fail
  <2>1. End("failed") /\ KeptRun
    BY <1>12 DEF Fail
  <2> QED BY <1>12, <2>1, PlaceType DEF Fail, TypeOK, stored
<1>13. ASSUME NEW call \in Tasks \ {"bootstrap"}, NEW s \in Addresses, Administer(call, s) PROVE TypeOK'
  <2>1. items' \in Seq(Addresses)
    BY <1>13, DeploymentAssumption DEF Administer
  <2>2. task' \in Tasks /\ (Len(Plan) \in Nat /\ Len(Plan) >= 1)'
    BY <1>13, NextPlan DEF Administer
  <2>3. stage' \in 1..(Len(Plan') + 1)
    BY <1>13, <2>2 DEF Administer
  <2> QED BY <1>13, <2>1, <2>2, <2>3 DEF Administer, TypeOK, stored
<1>14. CASE Elsewhere
  <2>1. Plan' = Plan
    BY <1>14 DEF Elsewhere, Plan
  <2>2. policy' \in [Queues -> Policy] /\ schedule' \in [Addresses -> Schedule]
    BY <1>14, DeploymentAssumption DEF Elsewhere, TypeOK
  <2> QED BY <1>14, <2>1, <2>2 DEF Elsewhere, TypeOK
<1>15. CASE UNCHANGED vars
  <2>1. Plan' = Plan
    BY <1>15 DEF vars, Plan
  <2> QED BY <1>15, <2>1 DEF vars, stored, TypeOK
<1> QED
  BY <1>1, <1>2, <1>3, <1>4, <1>5, <1>6, <1>7, <1>8, <1>9, <1>10, <1>11, <1>12, <1>13, <1>14, <1>15
  DEF Next

-----------------------------------------------------------------------------
(* The place in the plan, and what was written there.                      *)

(* How a call of stage c moves its task.                                   *)
Moves(c) ==
  /\ At(c) /\ KeptRun
  /\ \/ NextCall
     \/ c \in {"preflight", "mutate"} /\ SameItem
     \/ End("refused") \/ End("failed")
     \/ task = "remove" /\ End("done")

(* A storage call moves its own task only.                                 *)
LEMMA CallsMove ==
  /\ CheckQueue => Moves("check")
  /\ \A ok, written : Deploy(written, ok) => Moves("deploy")
  /\ List => Moves("list")
  /\ PreflightPolicy \/ PreflightRecord => Moves("preflight")
  /\ \A ok : Apply(ok) => Moves("apply")
  /\ CheckRole => Moves("flows")
  /\ MutateRead => Moves("mutate")
  /\ \A ok : MutateWrite(ok) => Moves("mutate")
<1>1. CheckQueue => Moves("check")
  BY DEF CheckQueue, Moves, PassIf
<1>2. \A ok, written : Deploy(written, ok) => Moves("deploy")
  BY DEF Deploy, Moves
<1>3. List => Moves("list")
  BY DEF List, Moves
<1>4. PreflightPolicy => Moves("preflight")
  BY DEF PreflightPolicy, Moves
<1>5. PreflightRecord => Moves("preflight")
  BY DEF PreflightRecord, Moves, PassIf
<1>6. \A ok : Apply(ok) => Moves("apply")
  BY DEF Apply, Moves
<1>7. CheckRole => Moves("flows")
  BY DEF CheckRole, Moves, PassIf
<1>8. MutateRead => Moves("mutate")
  BY DEF MutateRead, Moves
<1>9. \A ok : MutateWrite(ok) => Moves("mutate")
  BY DEF MutateWrite, Moves
<1> QED BY <1>1, <1>2, <1>3, <1>4, <1>5, <1>6, <1>7, <1>8, <1>9

(* A task that moves is in a stage of its plan.                            *)
LEMMA MovePlace ==
  ASSUME TypeOK, PlaceInv, NEW c, Moves(c), listed' # {} => Now("list")
  PROVE  PlaceInv'
<1>1. /\ Plan' = Plan /\ stage' = stage /\ task' = task /\ items' = items
      /\ answer = "none" /\ stage <= Len(Plan) /\ at \in Nat
  BY KeptPlan DEF Moves, At, KeptRun, NextCall, SameItem, End, TypeOK
<1>2. at' >= 1
  BY <1>1 DEF Moves, NextCall, SameItem, End, PlaceInv
<1>3. task' = "bootstrap" /\ answer' = "done" => FALSE
  BY <1>1 DEF Moves, NextCall, SameItem, End
<1>4. half' => (Now("preflight") \/ Now("mutate"))' /\ at' <= Len(items')
  <2>1. CASE NextCall
    BY <2>1 DEF NextCall
  <2>2. CASE c \in {"preflight", "mutate"} /\ SameItem
    <3>1. Now("preflight") \/ Now("mutate")
      BY <1>1, <2>2 DEF Moves, At, Now
    <3>2. at <= Len(items)
      BY <2>2 DEF Moves, At, Length
    <3> QED BY <1>1, <2>2, <3>1, <3>2 DEF SameItem, Now
  <2>3. CASE UNCHANGED <<stage, at, half>>
    BY <1>1, <2>3 DEF PlaceInv, Now
  <2> QED BY <2>1, <2>2, <2>3 DEF Moves, End
<1>5. listed' # {} => Now("list")'
  BY <1>1 DEF Now
<1> QED BY <1>1, <1>2, <1>3, <1>4, <1>5 DEF PlaceInv

(* At first every task is at its beginning and has written nothing.        *)
LEMMA InitPlace == Init => PlaceInv /\ WroteInv
<1> SUFFICES ASSUME Init PROVE PlaceInv /\ WroteInv
  OBVIOUS
<1>1. stage = 1 /\ task = "bootstrap" /\ Len(Plan) = 6 /\ at = 1
  BY PlanOfBootstrap DEF Init
<1>2. half = FALSE /\ listed = {} /\ answer = "none" /\ wrote = {}
  BY DEF Init
<1>3. items = Planned /\ task \notin Mutations
  BY DEF Init, Mutations
<1> QED BY <1>1, <1>2, <1>3 DEF PlaceInv, WroteInv

(* A stage ends between two items.                                         *)
LEMMA StageIdle ==
  ASSUME TypeOK, PlaceInv, NextStage
  PROVE  half = FALSE
<1>1. SUFFICES ASSUME half PROVE FALSE
  BY DEF TypeOK
<1>2. (Now("preflight") \/ Now("mutate")) /\ at <= Len(items)
  BY <1>1 DEF PlaceInv
<1>3. Length(Plan[stage]) = Len(items)
  BY <1>2 DEF Now, Length
<1>4. at > Length(Plan[stage])
  BY DEF NextStage
<1> QED BY <1>2, <1>3, <1>4 DEF TypeOK

(* Every step keeps the tasks in their plans.                              *)
LEMMA NextPlace == TypeOK /\ PlaceInv /\ [Next]_vars => PlaceInv'
<1> SUFFICES ASSUME TypeOK, PlaceInv, [Next]_vars PROVE PlaceInv'
  OBVIOUS
<1>1. ASSUME NEW c, Moves(c), UNCHANGED listed PROVE PlaceInv'
  BY <1>1, MovePlace DEF PlaceInv
<1>2. CASE CheckQueue
  BY <1>1, <1>2, CallsMove DEF CheckQueue
<1>3. CASE List
  BY <1>3, CallsMove, MovePlace DEF Moves, At, Now
<1>4. CASE PreflightPolicy
  BY <1>1, <1>4, CallsMove DEF PreflightPolicy
<1>5. CASE PreflightRecord
  BY <1>1, <1>5, CallsMove DEF PreflightRecord
<1>6. CASE MutateRead
  BY <1>1, <1>6, CallsMove DEF MutateRead
<1>7. CASE CheckRole
  BY <1>1, <1>7, CallsMove DEF CheckRole
<1>8. ASSUME NEW ok \in BOOLEAN, NEW written \in SUBSET Queues, Deploy(written, ok) PROVE PlaceInv'
  BY <1>1, <1>8, CallsMove DEF Deploy
<1>9. ASSUME NEW ok \in BOOLEAN, Apply(ok) PROVE PlaceInv'
  BY <1>1, <1>9, CallsMove DEF Apply
<1>10. ASSUME NEW ok \in BOOLEAN, MutateWrite(ok) PROVE PlaceInv'
  BY <1>1, <1>10, CallsMove DEF MutateWrite
<1>11. ASSUME NEW s \in Addresses, CheckListed(s) PROVE PlaceInv'
  <2>1. /\ Plan' = Plan /\ items' = items /\ task' = task
        /\ UNCHANGED <<stage, at, half>> /\ answer = "none"
    BY <1>11, KeptPlan DEF CheckListed, KeptRun, End
  <2>2. Now("list") /\ answer' # "done"
    BY <1>11 DEF CheckListed, PlaceInv, End
  <2> QED BY <2>1, <2>2 DEF PlaceInv, Now
<1>12. CASE NextStage
  <2>1. /\ Plan' = Plan /\ items' = items /\ task' = task /\ listed' = {}
        /\ stage' = stage + 1 /\ at' = 1 /\ half' = half
        /\ answer' = IF stage = Len(Plan) THEN "done" ELSE "none"
        /\ answer = "none" /\ at > Length(Plan[stage])
    BY <1>12, KeptPlan DEF NextStage, KeptRun
  <2>2. stage \in 1..Len(Plan) /\ Len(Plan) \in Nat
    BY <2>1, PlanOrder DEF TypeOK, PlaceInv
  <2>3. ~half
    BY <1>12, StageIdle
  <2> QED BY <2>1, <2>2, <2>3 DEF PlaceInv
<1>13. CASE Fail
  <2>1. /\ Plan' = Plan /\ items' = items /\ task' = task /\ listed' = listed
        /\ UNCHANGED <<stage, at, half>> /\ answer' = "failed"
    BY <1>13, KeptPlan DEF Fail, KeptRun, End
  <2> QED BY <2>1 DEF PlaceInv, Now
<1>14. ASSUME NEW call \in Tasks \ {"bootstrap"}, NEW s \in Addresses, Administer(call, s) PROVE PlaceInv'
  <2>1. task' = call /\ stage' = 1 /\ at' = 1 /\ half' = FALSE /\ listed' = {} /\ answer' = "none"
    BY <1>14 DEF Administer
  <2>2. (Len(Plan) \in Nat /\ Len(Plan) >= 1)'
    BY <2>1, NextPlan
  <2>3. task' \in Mutations => Len(items') = 1
    BY <1>14 DEF Administer, Mutations
  <2> QED BY <2>1, <2>2, <2>3 DEF PlaceInv
<1>15. CASE Elsewhere
  <2>1. Plan' = Plan /\ UNCHANGED <<task, items, stage, at, half, listed, answer>>
    BY <1>15 DEF Elsewhere, Plan
  <2> QED BY <2>1 DEF PlaceInv, Now
<1>16. CASE UNCHANGED vars
  <2>1. Plan' = Plan /\ UNCHANGED <<task, items, stage, at, half, listed, answer>>
    BY <1>16 DEF vars, Plan
  <2> QED BY <2>1 DEF PlaceInv, Now
<1> QED
  BY <1>2, <1>3, <1>4, <1>5, <1>6, <1>7, <1>8, <1>9, <1>10, <1>11, <1>12, <1>13, <1>14, <1>15, <1>16
  DEF Next

(* A task that moves without writing keeps what it wrote.                  *)
LEMMA MoveWrote ==
  ASSUME TypeOK, PlaceInv, WroteInv, NEW c, Moves(c),
         "policy" \in wrote' => "policy" \in wrote \/ c = "deploy",
         "schedule" \in wrote' =>
           "schedule" \in wrote \/ c = "apply" \/ (c = "mutate" /\ (NextCall \/ End("failed")))
  PROVE  WroteInv'
<1>1. /\ Plan' = Plan /\ stage' = stage /\ task' = task /\ items' = items
      /\ answer = "none" /\ stage \in 1..Len(Plan) /\ Plan[stage] = c /\ Len(Plan) \in Nat
  BY KeptPlan, PlanOrder DEF Moves, At, KeptRun, NextCall, SameItem, End, TypeOK
<1>2. Reached(c) /\ \A d : Reached(d)' <=> Reached(d)
  BY <1>1 DEF Reached
<1>3. "policy" \in wrote' => Reached("deploy")'
  BY <1>2 DEF WroteInv
<1>4. task \in Mutations => c = "mutate" /\ Len(items) = 1 /\ at <= 1
  BY <1>1, PlanStages DEF Moves, At, Length, PlaceInv, TypeOK
<1>5. ASSUME "schedule" \in wrote' PROVE WroteInv!2!2'
  <2>1. CASE "schedule" \in wrote
    <3>1. ~(task \in Mutations /\ (stage > Len(Plan) \/ answer = "failed"
                                     \/ (answer = "none" /\ at > Len(items))))
      <4>1. at \in Nat /\ stage \in Nat
        BY DEF TypeOK
      <4> QED BY <1>1, <1>4, <4>1
    <3> QED BY <1>2, <2>1, <3>1 DEF WroteInv
  <2>2. CASE c = "apply"
    BY <1>2, <2>2
  <2>3. CASE c = "mutate" /\ (NextCall \/ End("failed"))
    <3>1. task \in Mutations
      BY <1>1, <2>3, PlanStages DEF TypeOK
    <3>2. CASE NextCall
      <4>1. at' = at + 1 /\ answer' = "none" /\ at \in Nat /\ at >= 1
        BY <1>1, <3>2 DEF NextCall, PlaceInv, TypeOK
      <4>2. Len(items) = 1
        BY <1>4, <3>1
      <4>3. at' > Len(items')
        BY <1>1, <4>1, <4>2
      <4> QED BY <1>1, <3>1, <4>1, <4>3
    <3>3. CASE End("failed")
      BY <1>1, <3>1, <3>3 DEF End
    <3> QED BY <2>3, <3>2, <3>3
  <2> QED BY <1>5, <2>1, <2>2, <2>3
<1> QED BY <1>3, <1>5 DEF WroteInv

(* Every step keeps what is known of the writes.                           *)
LEMMA NextWrote == TypeOK /\ PlaceInv /\ WroteInv /\ [Next]_vars => WroteInv'
<1> SUFFICES ASSUME TypeOK, PlaceInv, WroteInv, [Next]_vars PROVE WroteInv'
  OBVIOUS
<1>1. ASSUME NEW c, Moves(c), UNCHANGED wrote PROVE WroteInv'
  BY <1>1, MoveWrote
<1>2. CASE CheckQueue
  BY <1>1, <1>2, CallsMove DEF CheckQueue
<1>3. CASE List
  BY <1>1, <1>3, CallsMove DEF List
<1>4. CASE PreflightPolicy
  BY <1>1, <1>4, CallsMove DEF PreflightPolicy
<1>5. CASE PreflightRecord
  BY <1>1, <1>5, CallsMove DEF PreflightRecord
<1>6. CASE MutateRead
  BY <1>1, <1>6, CallsMove DEF MutateRead
<1>7. CASE CheckRole
  BY <1>1, <1>7, CallsMove DEF CheckRole
<1>8. ASSUME NEW ok \in BOOLEAN, NEW written \in SUBSET Queues, Deploy(written, ok) PROVE WroteInv'
  <2>1. wrote' \subseteq wrote \cup {"policy"}
    BY <1>8 DEF Deploy
  <2> QED BY <1>8, <2>1, CallsMove, MoveWrote
<1>9. ASSUME NEW ok \in BOOLEAN, Apply(ok) PROVE WroteInv'
  <2>1. wrote' \subseteq wrote \cup {"schedule"}
    BY <1>9 DEF Apply
  <2> QED BY <1>9, <2>1, CallsMove, MoveWrote
<1>10. ASSUME NEW ok \in BOOLEAN, MutateWrite(ok) PROVE WroteInv'
  <2>1. wrote' \subseteq wrote \cup {"schedule"} /\ (NextCall \/ End("failed"))
    BY <1>10 DEF MutateWrite
  <2> QED BY <1>10, <2>1, CallsMove, MoveWrote
<1>11. ASSUME NEW s \in Addresses, CheckListed(s) PROVE WroteInv'
  <2>1. /\ Plan' = Plan /\ items' = items /\ task' = task /\ wrote' = wrote
        /\ UNCHANGED <<stage, at>> /\ answer = "none"
    BY <1>11, KeptPlan DEF CheckListed, KeptRun, End
  <2>2. Now("list")
    BY <1>11 DEF CheckListed, PlaceInv
  <2>3. task \notin Mutations
    <3>1. stage \in 1..Len(Plan) /\ Plan[stage] = "list"
      BY <2>2, PlanOrder DEF Now, TypeOK
    <3> QED BY <3>1, PlanStages DEF TypeOK, Mutations
  <2> QED BY <2>1, <2>3 DEF WroteInv, Reached
<1>12. CASE NextStage
  <2>1. /\ Plan' = Plan /\ items' = items /\ task' = task /\ wrote' = wrote
        /\ stage' = stage + 1 /\ answer = "none"
    BY <1>12, KeptPlan DEF NextStage, KeptRun
  <2>2. stage \in 1..Len(Plan) /\ Len(Plan) \in Nat
    BY <2>1, PlanOrder DEF TypeOK, PlaceInv
  <2>3. \A d : Reached(d) => Reached(d)'
    BY <2>1, <2>2 DEF Reached
  <2>4. task \in Mutations => stage' > Len(Plan')
    <3>1. task \in Mutations => Len(Plan) = 1
      BY PlanOfMutation
    <3> QED BY <2>1, <2>2, <3>1
  <2> QED BY <2>1, <2>3, <2>4 DEF WroteInv
<1>13. CASE Fail
  <2>1. /\ Plan' = Plan /\ items' = items /\ task' = task /\ wrote' = wrote
        /\ UNCHANGED <<stage, at>> /\ answer' = "failed"
    BY <1>13, KeptPlan DEF Fail, KeptRun, End
  <2> QED BY <2>1 DEF WroteInv, Reached
<1>14. ASSUME NEW call \in Tasks \ {"bootstrap"}, NEW s \in Addresses, Administer(call, s) PROVE WroteInv'
  BY <1>14 DEF Administer, WroteInv
<1>15. CASE Elsewhere
  <2>1. Plan' = Plan /\ UNCHANGED <<task, items, stage, at, answer, wrote>>
    BY <1>15 DEF Elsewhere, Plan
  <2> QED BY <2>1 DEF WroteInv, Reached
<1>16. CASE UNCHANGED vars
  <2>1. Plan' = Plan /\ UNCHANGED <<task, items, stage, at, answer, wrote>>
    BY <1>16 DEF vars, Plan
  <2> QED BY <2>1 DEF WroteInv, Reached
<1> QED
  BY <1>2, <1>3, <1>4, <1>5, <1>6, <1>7, <1>8, <1>9, <1>10, <1>11, <1>12, <1>13, <1>14, <1>15, <1>16
  DEF Next

(* The invariant shows that what is refused is unwritten.                  *)
LEMMA Unwritten == TypeOK /\ PlaceInv /\ WroteInv => RefusedUnwritten
<1> SUFFICES ASSUME TypeOK, PlaceInv, WroteInv, answer = "refused", stage <= Len(Plan)
             PROVE  /\ Plan[stage] = "check" => wrote = {}
                    /\ Plan[stage] \in {"list", "preflight", "mutate"} => "schedule" \notin wrote
  BY DEF RefusedUnwritten
<1>1. Now(Plan[stage])
  BY DEF Now
<1>2. \A d : Reached(d) => Rank(d) <= Rank(Plan[stage])
  BY <1>1, NotLater
<1>3. Plan[stage] = "check" => ~Reached("deploy")
  BY <1>2 DEF Rank
<1>4. Plan[stage] \in {"check", "list", "preflight", "mutate"} => ~Reached("apply")
  BY <1>2 DEF Rank
<1>5. Plan[stage] \in {"check", "list", "preflight", "mutate"} => "schedule" \notin wrote
  <2>1. ~(stage > Len(Plan))
    BY PlanOrder DEF TypeOK
  <2> QED BY <1>4, <2>1 DEF WroteInv
<1>6. wrote \subseteq {"policy", "schedule"}
  BY DEF TypeOK
<1> QED BY <1>3, <1>5, <1>6 DEF WroteInv

-----------------------------------------------------------------------------
(* What has been established on the way.                                   *)

(* A task that begins has dealt with nothing.                              *)
LEMMA Fresh == stage = 1 /\ at = 1 /\ half = FALSE => EstablishedInv
<1> SUFFICES ASSUME stage = 1, at = 1, half = FALSE PROVE EstablishedInv
  OBVIOUS
<1>1. ASSUME NEW d, NEW i \in Nat, 1 <= i PROVE ~Dealt(d, i)
  BY <1>1 DEF Dealt
<1>2. CheckedInv
  BY <1>1 DEF CheckedInv
<1>3. DeployedInv
  <2>1. \A q \in Range(Declared) : Conn[q] \in Nat /\ 1 <= Conn[q]
    BY Declarations, DeploymentAssumption
  <2> QED BY <1>1, <2>1 DEF DeployedInv
<1>4. ListedInv
  BY <1>1 DEF ListedInv
<1>5. PreflightInv
  BY <1>1 DEF PreflightInv
<1>6. AppliedInv
  BY <1>1 DEF AppliedInv
<1>7. FlowsInv
  BY <1>1 DEF FlowsInv
<1>8. MutateInv
  BY DEF MutateInv
<1> QED BY <1>2, <1>3, <1>4, <1>5, <1>6, <1>7, <1>8 DEF EstablishedInv

(* A call deals with the item it is about, when the task goes on.          *)
LEMMA MoveDealt ==
  ASSUME TypeOK, NEW c, Moves(c)
  PROVE  /\ answer = "none" /\ Now(c) /\ Reached(c)
         /\ \A d : (Now(d)' <=> Now(d)) /\ (Reached(d)' <=> Reached(d))
         /\ \A d : \A i \in Nat :
              Dealt(d, i)' => Dealt(d, i) \/ (d = c /\ i = at /\ NextCall)
<1>1. answer = "none" /\ Now(c) /\ Reached(c)
  <2>1. stage \in 1..Len(Plan) /\ Plan[stage] = c
    BY PlanOrder DEF Moves, At, TypeOK
  <2> QED BY <2>1 DEF Moves, At, Now, Reached
<1>2. CASE NextCall
  BY <1>1, <1>2, MovesOn DEF Moves
<1>3. CASE ~NextCall
  BY <1>1, <1>3, StaysPut DEF Moves, SameItem, End
<1> QED BY <1>2, <1>3

(* A step that writes nothing keeps what is established.                   *)
LEMMA MoveQuiet ==
  ASSUME TypeOK, EstablishedInv, ~disturbed, NEW c, Moves(c), UNCHANGED stored
  PROVE  /\ c # "check" => CheckedInv'
         /\ c # "deploy" => DeployedInv'
         /\ c # "list" /\ UNCHANGED listed => ListedInv'
         /\ c # "preflight" => PreflightInv'
         /\ c # "apply" => AppliedInv'
         /\ c # "flows" => FlowsInv'
         /\ c # "mutate" => MutateInv'
<1>1. /\ policy' = policy /\ schedule' = schedule /\ mode' = mode /\ items' = items
      /\ answer = "none" /\ Len(items) \in Nat
  BY DEF stored, Moves, At, KeptRun, TypeOK
<1>2. \A d : \A i \in Nat : d # c /\ Dealt(d, i)' => Dealt(d, i)
  BY MoveDealt
<1>3. \A d : d # c => ~Now(d)'
  BY MoveDealt DEF Now
<1>4. c # "check" => CheckedInv'
  BY <1>1, <1>2, Declarations DEF EstablishedInv, CheckedInv, Acceptable, Desired
<1>5. c # "deploy" => DeployedInv'
  <2>1. \A q \in Range(Declared) : Conn[q] \in Nat
    BY Declarations, DeploymentAssumption
  <2> QED BY <1>1, <1>2, <2>1 DEF EstablishedInv, DeployedInv, Desired
<1>6. c # "list" /\ UNCHANGED listed => ListedInv'
  BY <1>1, <1>2 DEF EstablishedInv, ListedInv, Existing, PerKey, Enabled
<1>7. c # "preflight" => PreflightInv'
  BY <1>1, <1>2, <1>3 DEF EstablishedInv, PreflightInv, Preflighted, Matching, PerKey, Enabled
<1>8. c # "apply" => AppliedInv'
  BY <1>1, <1>2 DEF EstablishedInv, AppliedInv, Matching
<1>9. c # "flows" => FlowsInv'
  BY <1>1, <1>2, Declarations DEF EstablishedInv, FlowsInv, PerKey, Enabled
<1>10. c # "mutate" => MutateInv'
  BY <1>3 DEF MutateInv
<1> QED BY <1>4, <1>5, <1>6, <1>7, <1>8, <1>9, <1>10

(* The queues that were checked have policies that may be taken over.      *)
LEMMA CheckQueueStep ==
  ASSUME TypeOK, EstablishedInv, ~disturbed, CheckQueue
  PROVE  EstablishedInv'
<1>1. Moves("check") /\ UNCHANGED stored /\ UNCHANGED listed
  BY CallsMove DEF CheckQueue
<1>2. CheckedInv'
  <2>1. ASSUME NEW i \in 1..Len(Declared), Dealt("check", i)' PROVE Acceptable(Declared[i])
    <3>1. Dealt("check", i) \/ (i = at /\ NextCall)
      BY <1>1, <2>1, MoveDealt
    <3>2. NextCall => Acceptable(Declared[at])
      BY DEF CheckQueue, PassIf, NextCall, End, TypeOK
    <3> QED BY <3>1, <3>2 DEF EstablishedInv, CheckedInv
  <2>2. \A q : Acceptable(q) => Acceptable(q)'
    BY <1>1 DEF Acceptable, Desired, stored, Moves, KeptRun
  <2> QED BY <2>1, <2>2 DEF CheckedInv
<1> QED BY <1>1, <1>2, MoveQuiet DEF EstablishedInv

(* A stage has dealt with every item of the stages before it.              *)
LEMMA Before ==
  ASSUME TypeOK, NEW c, Now(c)
  PROVE  /\ c = "deploy" => \A i : Dealt("check", i)
         /\ c = "apply" => \A i : Dealt("preflight", i)
<1>1. stage \in 1..Len(Plan) /\ Plan[stage] = c /\ Len(Plan) \in Nat
  BY PlanOrder DEF Now, TypeOK
<1>2. /\ c = "deploy" => \E j \in 1..Len(Plan) : j < stage /\ Plan[j] = "check"
      /\ c = "apply" => \E j \in 1..Len(Plan) : j < stage /\ Plan[j] = "preflight"
  BY <1>1, PlanStages DEF TypeOK
<1> QED BY <1>2 DEF Dealt

(* Policies are written before schedules and flows are looked at; a queue  *)
(* gets its declared policy, or keeps the one it has.                      *)
LEMMA DeployStep ==
  ASSUME TypeOK, PlaceInv, EstablishedInv, ~disturbed, NEW ok \in BOOLEAN, NEW written \in SUBSET Queues,
         Deploy(written, ok)
  PROVE  EstablishedInv'
<1> DEFINE own == {q \in Range(Declared) : Conn[q] = at}
<1>1. Moves("deploy") /\ Now("deploy") /\ answer = "none"
  BY CallsMove, MoveDealt
<1>2. /\ written \subseteq own
      /\ ok => {q \in own : policy[q].group # "other"} \subseteq written
      /\ policy' = [q \in Queues |-> IF q \in written THEN Desired(q) ELSE policy[q]]
      /\ IF ok THEN NextCall ELSE End("failed")
  BY DEF Deploy
<1>3. schedule' = schedule /\ mode' = mode /\ items' = items
  BY <1>1 DEF Deploy, Moves, KeptRun
<1>4. mode.controls = "reconcile"
  <2>1. at \in Nat /\ at >= 1 /\ at <= Length("deploy")
    BY <1>1 DEF Moves, At, TypeOK, PlaceInv
  <2> QED BY <2>1 DEF Length
<1>5. \A d : \A i \in Nat :
        Dealt(d, i)' => Dealt(d, i) \/ (d = "deploy" /\ i = at /\ NextCall)
  BY <1>1, MoveDealt
<1>6. \A d \in {"list", "preflight", "apply", "flows"} : \A i \in Nat : ~Dealt(d, i)'
  <2>1. \A d : Reached(d) => Rank(d) <= Rank("deploy")
    BY <1>1, NotLater
  <2>2. \A d \in {"list", "preflight", "apply", "flows"} : ~Reached(d)
    BY <2>1 DEF Rank
  <2>3. \A d \in {"list", "preflight", "apply", "flows"} : \A i \in Nat : ~Dealt(d, i)
    BY <2>2, DealtReached
  <2> QED BY <1>5, <2>3
<1>7. \A q \in Queues : Acceptable(q) => Acceptable(q)'
  <2> SUFFICES ASSUME NEW q \in Queues, Acceptable(q) PROVE Acceptable(q)'
    OBVIOUS
  <2>1. policy'[q] = Desired(q) \/ policy'[q] = policy[q]
    BY <1>2
  <2>2. Desired(q).group = "own"
    BY OwnPolicy
  <2> QED BY <1>3, <1>4, <2>1, <2>2 DEF Acceptable, Modes, TypeOK
<1>8. \A i \in 1..Len(Declared) : Acceptable(Declared[i])
  BY <1>1, Before DEF EstablishedInv, CheckedInv
<1>9. CheckedInv'
  BY <1>7, <1>8, Declarations DEF CheckedInv
<1>10. DeployedInv'
  <2> SUFFICES ASSUME NEW q \in Range(Declared), Dealt("deploy", Conn[q])'
               PROVE  policy'[q] = Desired(q)
    BY DEF DeployedInv, Desired
  <2>1. q \in Queues /\ Conn[q] \in Nat
    BY Declarations, DeploymentAssumption
  <2>2. CASE Dealt("deploy", Conn[q])
    BY <1>2, <1>4, <2>1, <2>2 DEF EstablishedInv, DeployedInv
  <2>3. CASE Conn[q] = at /\ NextCall
    <3>1. ok
      BY <1>1, <1>2, <2>3 DEF NextCall, End
    <3>2. policy[q].group # "other"
      BY <1>8, Declarations DEF Acceptable
    <3>3. q \in written
      BY <1>2, <2>3, <3>1, <3>2
    <3> QED BY <1>2, <2>1, <3>3
  <2> QED BY <1>5, <2>1, <2>2, <2>3
<1>11. ListedInv'
  BY <1>6 DEF ListedInv
<1>12. PreflightInv' /\ AppliedInv'
  <2>1. ~Now("preflight")'
    BY <1>1, MoveDealt DEF Now
  <2> QED BY <1>3, <1>6, <2>1 DEF PreflightInv, AppliedInv
<1>13. FlowsInv'
  BY <1>6 DEF FlowsInv
<1>14. MutateInv'
  BY <1>1, MoveDealt DEF MutateInv, Now
<1> QED BY <1>9, <1>10, <1>11, <1>12, <1>13, <1>14 DEF EstablishedInv

(* The listed schedules are the stored ones.                               *)
LEMMA ListStep ==
  ASSUME TypeOK, EstablishedInv, ~disturbed, List
  PROVE  EstablishedInv'
<1>1. Moves("list") /\ UNCHANGED stored
  BY CallsMove DEF List
<1>2. ListedInv'
  BY <1>1 DEF ListedInv, List, Existing, stored
<1> QED BY <1>1, <1>2, MoveQuiet DEF EstablishedInv

(* A listed schedule is compared with the declared ones.                   *)
LEMMA CheckListedStep ==
  ASSUME TypeOK, PlaceInv, EstablishedInv, ~disturbed, NEW s \in Addresses, CheckListed(s)
  PROVE  EstablishedInv'
<1>1. /\ policy' = policy /\ schedule' = schedule /\ KeptRun /\ listed' = listed \ {s}
      /\ UNCHANGED <<stage, at, half>> /\ answer = "none"
  BY DEF CheckListed, stored, End
<1>2. /\ \A d : Now(d)' <=> Now(d)
      /\ \A d, i : Dealt(d, i)' <=> Dealt(d, i)
  BY <1>1, StaysPut
<1>3. mode' = mode /\ items' = items
  BY <1>1 DEF KeptRun
<1>4. ListedInv'
  <2>1. answer' # "refused" => ~PerKey(Target[s])
    BY DEF CheckListed, End
  <2> QED BY <1>1, <1>2, <2>1 DEF EstablishedInv, ListedInv, Existing, PerKey, Enabled
<1>5. CheckedInv' /\ DeployedInv'
  BY <1>1, <1>2, <1>3 DEF EstablishedInv, CheckedInv, Acceptable, DeployedInv, Desired
<1>6. PreflightInv' /\ AppliedInv' /\ FlowsInv'
  BY <1>1, <1>2, <1>3
  DEF EstablishedInv, PreflightInv, Preflighted, AppliedInv, Matching, FlowsInv, PerKey, Enabled
<1>7. MutateInv'
  BY <1>1, <1>2, <1>3 DEF EstablishedInv, MutateInv
<1> QED BY <1>4, <1>5, <1>6, <1>7 DEF EstablishedInv

(* A schedule needs a queue that it may use.                               *)
LEMMA PreflightPolicyStep ==
  ASSUME TypeOK, EstablishedInv, ~disturbed, PreflightPolicy
  PROVE  EstablishedInv'
<1>1. Moves("preflight") /\ UNCHANGED stored /\ UNCHANGED listed
  BY CallsMove DEF PreflightPolicy
<1>2. /\ policy' = policy /\ schedule' = schedule /\ mode' = mode /\ items' = items
      /\ UNCHANGED <<stage, at>> /\ ~half
  BY <1>1 DEF stored, Moves, KeptRun, PreflightPolicy, SameItem, End
<1>3. half' => ~PerKey(Target[items[at]])
  BY <1>2 DEF PreflightPolicy, SameItem, End
<1>4. \A d, i : Dealt(d, i)' <=> Dealt(d, i)
  BY <1>1, <1>2, StaysPut DEF Moves
<1>5. PreflightInv'
  BY <1>2, <1>3, <1>4 DEF EstablishedInv, PreflightInv, Preflighted, Matching, PerKey, Enabled
<1> QED BY <1>1, <1>5, MoveQuiet DEF EstablishedInv

(* A schedule's record is checked before it is written.                    *)
LEMMA PreflightRecordStep ==
  ASSUME TypeOK, EstablishedInv, ~disturbed, PreflightRecord
  PROVE  EstablishedInv'
<1>1. Moves("preflight") /\ UNCHANGED stored /\ UNCHANGED listed
  BY CallsMove DEF PreflightRecord
<1>2. /\ policy' = policy /\ schedule' = schedule /\ mode' = mode /\ items' = items
      /\ half /\ Now("preflight") /\ at \in Nat /\ Len(items) \in Nat
  BY <1>1, MoveDealt DEF stored, Moves, KeptRun, PreflightRecord, TypeOK
<1>3. \A s : PerKey(s)' <=> PerKey(s)
  BY <1>2 DEF PerKey, Enabled
<1>4. \A s : Preflighted(s)' <=> Preflighted(s)
  BY <1>2, <1>3 DEF Preflighted, Matching
<1>5. ~PerKey(Target[items[at]])
  BY <1>2 DEF EstablishedInv, PreflightInv
<1>6. CASE NextCall
  <2>1. Preflighted(items[at])
    BY <1>5, <1>6 DEF PreflightRecord, PassIf, NextCall, End, Preflighted, TypeOK
  <2>2. half' = FALSE
    BY <1>6 DEF NextCall
  <2>3. \A i \in 1..Len(items) : Dealt("preflight", i)' => Preflighted(items[i])
    BY <1>1, <2>1, MoveDealt DEF EstablishedInv, PreflightInv
  <2>4. PreflightInv'
    BY <1>2, <1>4, <2>2, <2>3 DEF PreflightInv
  <2> QED BY <1>1, <2>4, MoveQuiet DEF EstablishedInv
<1>7. CASE End("refused")
  <2>1. \A d, i : Dealt(d, i)' <=> Dealt(d, i)
    BY <1>1, <1>7, StaysPut DEF Moves, End
  <2>2. at' = at
    BY <1>7 DEF End
  <2>3. PreflightInv'
    BY <1>2, <1>3, <1>4, <1>5, <2>1, <2>2 DEF EstablishedInv, PreflightInv
  <2> QED BY <1>1, <2>3, MoveQuiet DEF EstablishedInv
<1> QED BY <1>6, <1>7 DEF PreflightRecord, PassIf

(* The first call of a mutation writes nothing.                            *)
LEMMA MutateReadStep ==
  ASSUME TypeOK, PlaceInv, EstablishedInv, ~disturbed, MutateRead
  PROVE  EstablishedInv'
<1>1. Moves("mutate") /\ UNCHANGED stored /\ UNCHANGED listed
  BY CallsMove DEF MutateRead
<1>2. /\ schedule' = schedule /\ items' = items /\ at' = at /\ ~half
      /\ at \in 1..Len(items) /\ items[at] \in Addresses
  <2>1. at \in Nat /\ at <= Len(items)
    BY DEF MutateRead, At, Length, TypeOK
  <2>2. at \in 1..Len(items)
    BY <2>1 DEF PlaceInv, TypeOK
  <2>3. items[at] \in Addresses
    BY <2>2 DEF TypeOK
  <2> QED BY <1>1, <2>2, <2>3 DEF stored, Moves, KeptRun, MutateRead, SameItem, End
<1>3. half' => schedule[items[at]] # Missing /\ schedule[items[at]].job # "other"
  BY <1>2 DEF MutateRead, SameItem, End
<1>4. half' => schedule[items[at]].job = "own"
  <2>1. schedule[items[at]] \in Schedule
    BY <1>2 DEF TypeOK
  <2>2. \A r \in Schedule : r = Missing \/ r.job = "other" \/ r.job = "own"
    BY DEF Schedule
  <2> QED BY <1>3, <2>1, <2>2
<1>5. MutateInv'
  BY <1>2, <1>4 DEF MutateInv
<1> QED BY <1>1, <1>5, MoveQuiet DEF EstablishedInv

(* A flow's queues are not limited per key.                                *)
LEMMA CheckRoleStep ==
  ASSUME TypeOK, EstablishedInv, ~disturbed, CheckRole
  PROVE  EstablishedInv'
<1>1. Moves("flows") /\ UNCHANGED stored /\ UNCHANGED listed
  BY CallsMove DEF CheckRole
<1> DEFINE Fit(i) == IF Roles[i].parent THEN ~Enabled(Roles[i].queue) ELSE ~PerKey(Roles[i].queue)
<1>2. NextCall => Fit(at)
  BY DEF CheckRole, PassIf, NextCall, End, TypeOK
<1>3. \A i : Fit(i) => ~PerKey(Roles[i].queue) /\ (Roles[i].parent => ~Enabled(Roles[i].queue))
  BY DEF PerKey
<1> HIDE DEF Fit
<1>4. \A q : (Enabled(q)' <=> Enabled(q)) /\ (PerKey(q)' <=> PerKey(q))
  BY <1>1 DEF stored, Enabled, PerKey
<1>5. FlowsInv'
  <2>1. \A i \in 1..Len(Roles) : Dealt("flows", i)' => Dealt("flows", i) \/ (i = at /\ NextCall)
    BY <1>1, MoveDealt, Declarations
  <2> QED BY <1>2, <1>3, <1>4, <2>1 DEF EstablishedInv, FlowsInv
<1> QED BY <1>1, <1>5, MoveQuiet DEF EstablishedInv

(* A schedule is applied after its preflight.                              *)
LEMMA ApplyStep ==
  ASSUME TypeOK, PlaceInv, EstablishedInv, ~disturbed, NEW ok \in BOOLEAN, Apply(ok)
  PROVE  EstablishedInv'
<1>0. PICK t : t = items[at]
  OBVIOUS
<1>1. Moves("apply") /\ Now("apply") /\ answer = "none"
  BY CallsMove, MoveDealt
<1>2. /\ schedule' = [schedule EXCEPT ![t] = Reconciled(t)]
      /\ policy' = policy /\ listed' = listed /\ mode' = mode /\ items' = items
      /\ NextCall \/ End("failed")
  BY <1>0, <1>1 DEF Apply, Moves, KeptRun
<1>3. at \in 1..Len(items) /\ t \in Addresses /\ mode.schedules = "reconcile"
  <2>1. at \in Nat /\ at <= Length("apply")
    BY <1>1 DEF Moves, At, TypeOK
  <2>2. mode.schedules = "reconcile" /\ at <= Len(items)
    BY <2>1 DEF Length, PlaceInv
  <2> QED BY <1>0, <2>1, <2>2 DEF PlaceInv, TypeOK
<1>4. \A d : \A i \in Nat :
        Dealt(d, i)' => Dealt(d, i) \/ (d = "apply" /\ i = at /\ NextCall)
  BY <1>1, MoveDealt
<1>5. Preflighted(t)
  BY <1>0, <1>1, <1>3, Before DEF EstablishedInv, PreflightInv
<1>6. \A s \in Addresses : schedule'[s] = IF s = t THEN Reconciled(t) ELSE schedule[s]
  BY <1>2, <1>3 DEF TypeOK
<1>7. \A q : (Enabled(q)' <=> Enabled(q)) /\ (PerKey(q)' <=> PerKey(q))
  BY <1>2 DEF Enabled, PerKey
<1>8. \A i \in 1..Len(items) : items[i] \in Addresses
  BY DEF TypeOK
<1>9. Matching(t)' /\ schedule'[t].job = "own"
  BY <1>3, <1>6, OwnSchedule DEF Matching
<1>10. \A s \in Addresses : Matching(s) => Matching(s)'
  BY <1>6, <1>9 DEF Matching
<1>11. CheckedInv'
  BY <1>2, <1>4, Declarations DEF EstablishedInv, CheckedInv, Acceptable, Desired
<1>12. DeployedInv'
  <2>1. \A q \in Range(Declared) : Conn[q] \in Nat
    BY Declarations, DeploymentAssumption
  <2> QED BY <1>2, <1>4, <2>1 DEF EstablishedInv, DeployedInv, Desired
<1>13. ListedInv'
  <2>1. \A s \in Existing' : s \in Existing \/ s = t
    BY <1>6 DEF Existing
  <2>2. ~PerKey(Target[t])
    BY <1>5 DEF Preflighted
  <2> QED BY <1>1, <1>2, <1>4, <1>7, <2>1, <2>2 DEF EstablishedInv, ListedInv
<1>14. PreflightInv'
  <2>1. \A s \in Addresses : Preflighted(s) => Preflighted(s)'
    BY <1>2, <1>6, <1>7, <1>9, <1>10 DEF Preflighted
  <2>2. ~Now("preflight")'
    BY <1>1, MoveDealt DEF Now
  <2>3. Len(items) \in Nat
    BY DEF TypeOK
  <2> QED BY <1>2, <1>4, <1>8, <2>1, <2>2, <2>3 DEF EstablishedInv, PreflightInv
<1>15. AppliedInv'
  <2>1. ASSUME NEW i \in 1..Len(items), Dealt("apply", i)', NEW s, s = items[i]
        PROVE  Matching(s)'
    <3>1. CASE Dealt("apply", i)
      BY <1>3, <1>8, <1>10, <2>1, <3>1 DEF EstablishedInv, AppliedInv
    <3>2. CASE i = at
      BY <1>0, <1>9, <2>1, <3>2
    <3> QED BY <1>4, <2>1, <3>1, <3>2
  <2> QED BY <1>2, <2>1 DEF AppliedInv, Matching
<1>16. FlowsInv'
  BY <1>4, <1>7, Declarations DEF EstablishedInv, FlowsInv
<1>17. MutateInv'
  BY <1>1, MoveDealt DEF MutateInv, Now
<1> QED BY <1>11, <1>12, <1>13, <1>14, <1>15, <1>16, <1>17 DEF EstablishedInv

(* A mutation is a plan of its own, with nothing checked before.           *)
LEMMA MutateWriteStep ==
  ASSUME TypeOK, EstablishedInv, ~disturbed, NEW ok \in BOOLEAN, MutateWrite(ok)
  PROVE  EstablishedInv'
<1>1. Moves("mutate") /\ Now("mutate") /\ answer = "none"
  BY CallsMove, MoveDealt
<1>2. task \in Mutations
  <2>1. stage \in 1..Len(Plan) /\ Plan[stage] = "mutate"
    BY <1>1, PlanOrder DEF Now, TypeOK
  <2> QED BY <2>1, PlanStages DEF TypeOK
<1>3. Plan' = Plan /\ stage' = stage /\ Len(Plan) = 1 /\ Plan[1] = "mutate" /\ stage = 1
  <2>1. Len(Plan) = 1 /\ Plan[1] = "mutate"
    BY <1>2, PlanOfMutation
  <2>2. Plan' = Plan /\ stage' = stage
    BY <1>1, KeptPlan DEF Moves, NextCall, SameItem, End
  <2>3. stage = 1
    BY <1>1, <2>1 DEF TypeOK, Now
  <2> QED BY <2>1, <2>2, <2>3
<1>4. \A d, i : Dealt(d, i)' => d = "mutate"
  BY <1>3 DEF Dealt
<1>5. CheckedInv' /\ DeployedInv' /\ ListedInv' /\ AppliedInv' /\ FlowsInv'
  BY <1>4 DEF CheckedInv, DeployedInv, ListedInv, AppliedInv, FlowsInv
<1>6. PreflightInv'
  BY <1>3, <1>4 DEF PreflightInv, Now
<1>7. MutateInv'
  BY <1>1 DEF MutateWrite, MutateInv, NextCall, End
<1> QED BY <1>5, <1>6, <1>7 DEF EstablishedInv

(* A task that enters its next stage has established the last.             *)
LEMMA NextStageStep ==
  ASSUME TypeOK, PlaceInv, EstablishedInv, ~disturbed, NextStage
  PROVE  EstablishedInv'
<1>1. /\ policy' = policy /\ schedule' = schedule /\ mode' = mode /\ items' = items
      /\ half' = half /\ listed' = listed /\ answer = "none" /\ Len(items) \in Nat
  BY DEF NextStage, KeptRun, stored, TypeOK
<1>2. half' = FALSE
  BY <1>1, StageIdle
<1>3. \A d : \A i \in Nat : 1 <= i /\ i <= Length(d) /\ Dealt(d, i)' => Dealt(d, i)
  BY NextStageDealt
<1>4. CheckedInv'
  BY <1>1, <1>3, Declarations DEF EstablishedInv, CheckedInv, Acceptable, Desired, Length
<1>5. DeployedInv'
  <2>1. \A q \in Range(Declared) : Conn[q] \in Nat /\ 1 <= Conn[q] /\ Conn[q] <= Conns
    BY Declarations, DeploymentAssumption
  <2>2. mode.controls = "reconcile" => Length("deploy") = Conns
    BY DEF Length
  <2> QED BY <1>1, <1>3, <2>1, <2>2 DEF EstablishedInv, DeployedInv, Desired
<1>6. ListedInv'
  <2>1. Length("list") = 1
    BY DEF Length
  <2> QED BY <1>1, <1>3, <2>1 DEF EstablishedInv, ListedInv, Existing, PerKey, Enabled
<1>7. PreflightInv'
  <2>1. Length("preflight") = Len(items)
    BY DEF Length
  <2> QED BY <1>1, <1>2, <1>3, <2>1
         DEF EstablishedInv, PreflightInv, Preflighted, Matching, PerKey, Enabled
<1>8. AppliedInv'
  <2>1. mode.schedules = "reconcile" => Length("apply") = Len(items)
    BY DEF Length
  <2> QED BY <1>1, <1>3, <2>1 DEF EstablishedInv, AppliedInv, Matching
<1>9. FlowsInv'
  <2>1. Length("flows") = Len(Roles)
    BY DEF Length
  <2> QED BY <1>1, <1>3, <2>1, Declarations DEF EstablishedInv, FlowsInv, PerKey, Enabled
<1>10. MutateInv'
  BY <1>2 DEF MutateInv
<1> QED BY <1>4, <1>5, <1>6, <1>7, <1>8, <1>9, <1>10 DEF EstablishedInv

(* A task that fails promises nothing.                                     *)
LEMMA FailStep ==
  ASSUME TypeOK, EstablishedInv, ~disturbed, Fail
  PROVE  EstablishedInv'
<1>1. /\ policy' = policy /\ schedule' = schedule /\ KeptRun /\ listed' = listed
      /\ UNCHANGED <<stage, at, half>> /\ answer = "none" /\ answer' = "failed"
  BY DEF Fail, stored, End
<1>2. /\ \A d : Now(d)' <=> Now(d)
      /\ \A d, i : Dealt(d, i)' <=> Dealt(d, i)
  BY <1>1, StaysPut
<1>3. mode' = mode /\ items' = items
  BY <1>1 DEF KeptRun
<1>4. CheckedInv' /\ DeployedInv' /\ ListedInv'
  BY <1>1, <1>2, <1>3
  DEF EstablishedInv, CheckedInv, Acceptable, DeployedInv, Desired, ListedInv, Existing, PerKey, Enabled
<1>5. PreflightInv' /\ AppliedInv' /\ FlowsInv'
  BY <1>1, <1>2, <1>3
  DEF EstablishedInv, PreflightInv, Preflighted, AppliedInv, Matching, FlowsInv, PerKey, Enabled
<1>6. MutateInv'
  BY <1>1 DEF MutateInv
<1> QED BY <1>4, <1>5, <1>6 DEF EstablishedInv

(* At first nothing has to be established.                                 *)
LEMMA InitEstablished == Init => EstablishedInv
  BY Fresh DEF Init

(* Every step keeps what is established.                                   *)
LEMMA NextEstablished == TypeOK /\ PlaceInv /\ EstablishedInv /\ [Next]_vars => EstablishedInv'
<1> SUFFICES ASSUME TypeOK, PlaceInv, EstablishedInv, [Next]_vars PROVE EstablishedInv'
  OBVIOUS
<1>1. CASE disturbed'
  BY <1>1 DEF EstablishedInv
<1>2. ASSUME NEW call \in Tasks \ {"bootstrap"}, NEW s \in Addresses, Administer(call, s)
      PROVE  EstablishedInv'
  <2>1. (stage = 1 /\ at = 1 /\ half = FALSE)'
    BY <1>2 DEF Administer
  <2> QED BY <2>1, Fresh, PTL
<1>3. CASE UNCHANGED vars
  <2>1. UNCHANGED <<policy, schedule, mode, task, items, stage, at, half, listed, answer, disturbed>>
    BY <1>3 DEF vars, stored
  <2>2. Plan' = Plan
    BY <2>1 DEF Plan
  <2>3. /\ \A d : Now(d)' <=> Now(d)
        /\ \A d, i : Dealt(d, i)' <=> Dealt(d, i)
    BY <2>1, <2>2 DEF Now, Dealt
  <2>4. (CheckedInv <=> CheckedInv') /\ (DeployedInv <=> DeployedInv') /\ (ListedInv <=> ListedInv')
    BY <2>1, <2>3
    DEF CheckedInv, Acceptable, DeployedInv, Desired, ListedInv, Existing, PerKey, Enabled
  <2>5. (PreflightInv <=> PreflightInv') /\ (AppliedInv <=> AppliedInv') /\ (FlowsInv <=> FlowsInv')
    BY <2>1, <2>3
    DEF PreflightInv, Preflighted, AppliedInv, Matching, FlowsInv, PerKey, Enabled
  <2>6. MutateInv <=> MutateInv'
    BY <2>1, <2>3 DEF MutateInv
  <2> QED BY <2>1, <2>4, <2>5, <2>6 DEF EstablishedInv
<1>4. CASE Elsewhere
  BY <1>1, <1>4 DEF Elsewhere
<1>5. ASSUME ~disturbed', KeptRun PROVE ~disturbed
  BY <1>5 DEF KeptRun
<1>6. ASSUME ~disturbed', CheckQueue PROVE EstablishedInv'
  BY <1>5, <1>6, CheckQueueStep DEF CheckQueue
<1>7. ASSUME ~disturbed', List PROVE EstablishedInv'
  BY <1>5, <1>7, ListStep DEF List
<1>8. ASSUME ~disturbed', PreflightPolicy PROVE EstablishedInv'
  BY <1>5, <1>8, PreflightPolicyStep DEF PreflightPolicy
<1>9. ASSUME ~disturbed', PreflightRecord PROVE EstablishedInv'
  BY <1>5, <1>9, PreflightRecordStep DEF PreflightRecord
<1>10. ASSUME ~disturbed', MutateRead PROVE EstablishedInv'
  BY <1>5, <1>10, MutateReadStep DEF MutateRead
<1>11. ASSUME ~disturbed', CheckRole PROVE EstablishedInv'
  BY <1>5, <1>11, CheckRoleStep DEF CheckRole
<1>12. ASSUME ~disturbed', NEW s \in Addresses, CheckListed(s) PROVE EstablishedInv'
  BY <1>5, <1>12, CheckListedStep DEF CheckListed
<1>13. ASSUME ~disturbed', NEW ok \in BOOLEAN, NEW written \in SUBSET Queues, Deploy(written, ok)
       PROVE  EstablishedInv'
  BY <1>5, <1>13, DeployStep DEF Deploy
<1>14. ASSUME ~disturbed', NEW ok \in BOOLEAN, Apply(ok) PROVE EstablishedInv'
  BY <1>5, <1>14, ApplyStep DEF Apply
<1>15. ASSUME ~disturbed', NEW ok \in BOOLEAN, MutateWrite(ok) PROVE EstablishedInv'
  BY <1>5, <1>15, MutateWriteStep DEF MutateWrite
<1>16. ASSUME ~disturbed', NextStage PROVE EstablishedInv'
  BY <1>5, <1>16, NextStageStep DEF NextStage
<1>17. ASSUME ~disturbed', Fail PROVE EstablishedInv'
  BY <1>5, <1>17, FailStep DEF Fail
<1> QED
  BY <1>1, <1>2, <1>3, <1>4, <1>6, <1>7, <1>8, <1>9, <1>10, <1>11, <1>12, <1>13, <1>14, <1>15,
     <1>16, <1>17 DEF Next

-----------------------------------------------------------------------------
(* The theorems.                                                           *)

(* In every reachable state what a task has dealt with is as it found or   *)
(* made it, as long as nobody else writes, and what it wrote was written   *)
(* in the stage that writes.                                               *)
THEOREM Invariant == Spec => []IInv
<1>1. Init => IInv
  BY InitType, InitPlace, InitEstablished DEF IInv
<1>2. IInv /\ [Next]_vars => IInv'
  BY NextType, NextPlace, NextWrote, NextEstablished DEF IInv
<1> QED BY <1>1, <1>2, PTL DEF Spec

(* An application that came up undisturbed runs over the policies and      *)
(* schedules it declares, and over nothing that bypasses a limit.          *)
THEOREM StartsConsistentCorrect == Spec => []StartsConsistent
<1>1. IInv => StartsConsistent
  <2>1. SUFFICES ASSUME IInv, task = "bootstrap", answer = "done", ~disturbed
                 PROVE  /\ \A q \in Range(Declared) : policy[q] = Desired(q)
                        /\ \A s \in Range(Planned) : Matching(s)
                        /\ \A s \in Existing : ~PerKey(Target[s])
                        /\ \A i \in DOMAIN Roles :
                             ~PerKey(Roles[i].queue) /\ (Roles[i].parent => ~Enabled(Roles[i].queue))
    BY DEF StartsConsistent
  <2>2. /\ CheckedInv /\ DeployedInv /\ ListedInv /\ PreflightInv /\ AppliedInv /\ FlowsInv
        /\ items = Planned /\ TypeOK /\ stage > Len(Plan)
    BY <2>1 DEF IInv, EstablishedInv, PlaceInv
  <2>3. listed = {}
    <3>1. ~Now("list")
      BY <2>2, PlanOrder DEF Now, TypeOK
    <3> QED BY <2>1, <3>1 DEF IInv, PlaceInv
  <2>4. \A i : /\ Dealt("check", i) /\ Dealt("deploy", i) /\ Dealt("list", i)
               /\ Dealt("preflight", i) /\ Dealt("apply", i) /\ Dealt("flows", i)
    <3>1. Len(Plan) = 6 /\ stage > 6 /\ stage \in Nat
      <4>1. Len(Plan) = 6
        BY <2>1, PlanOfBootstrap
      <4> QED BY <2>2, <4>1 DEF TypeOK
    <3> QED BY <2>1, <3>1, PlanOfBootstrap DEF Dealt
  <2>5. mode.controls \in Modes /\ mode.schedules \in Modes
    BY <2>2 DEF TypeOK
  <2>6. ASSUME NEW q \in Range(Declared) PROVE policy[q] = Desired(q)
    <3>1. CASE mode.controls = "validate"
      BY <2>2, <2>4, <2>6, <3>1, Declarations DEF CheckedInv, Acceptable
    <3>2. CASE mode.controls = "reconcile"
      BY <2>2, <2>4, <2>6, <3>2 DEF DeployedInv
    <3> QED BY <2>5, <3>1, <3>2 DEF Modes
  <2>7. ASSUME NEW s \in Range(Planned) PROVE Matching(s)
    <3>1. PICK i \in 1..Len(items) : items[i] = s
      BY <2>2, <2>7, Declarations
    <3>2. CASE mode.schedules = "validate"
      BY <2>2, <2>4, <3>1, <3>2 DEF PreflightInv, Preflighted
    <3>3. CASE mode.schedules = "reconcile"
      BY <2>2, <2>4, <3>1, <3>3 DEF AppliedInv
    <3> QED BY <2>5, <3>2, <3>3 DEF Modes
  <2>8. \A s \in Existing : ~PerKey(Target[s])
    BY <2>1, <2>2, <2>3, <2>4 DEF ListedInv
  <2>9. \A i \in DOMAIN Roles :
          ~PerKey(Roles[i].queue) /\ (Roles[i].parent => ~Enabled(Roles[i].queue))
    <3>1. DOMAIN Roles = 1..Len(Roles)
      BY DeploymentAssumption
    <3> QED BY <2>2, <2>4, <3>1 DEF FlowsInv
  <2> QED BY <2>6, <2>7, <2>8, <2>9
<1> QED BY <1>1, Invariant, PTL

(* What refuses a policy has written no policy, what refuses a schedule no *)
(* schedule, whoever else writes meanwhile.                                *)
THEOREM RefusedUnwrittenCorrect == Spec => []RefusedUnwritten
<1>1. IInv => RefusedUnwritten
  BY Unwritten DEF IInv
<1> QED BY <1>1, Invariant, PTL

(* As long as nobody else writes, no step of any task writes the policy of *)
(* another group or the schedule of another job.                           *)
THEOREM ForeignKeptCorrect == Spec => ForeignKept
<1> DEFINE Kept ==
      ~disturbed' =>
        /\ \A q \in Queues : policy[q].group = "other" => policy'[q] = policy[q]
        /\ \A s \in Addresses : schedule[s].job = "other" => schedule'[s] = schedule[s]
<1>1. IInv /\ [Next]_vars => [Kept]_vars
  <2>1. SUFFICES ASSUME IInv, Next, ~disturbed'
                 PROVE  /\ \A q \in Queues : policy[q].group = "other" => policy'[q] = policy[q]
                        /\ \A s \in Addresses : schedule[s].job = "other" => schedule'[s] = schedule[s]
    OBVIOUS
  <2>2. TypeOK /\ PlaceInv
    BY <2>1 DEF IInv
  <2>3. ASSUME UNCHANGED stored PROVE Kept
    BY <2>3 DEF stored
  <2>4. ASSUME NEW ok \in BOOLEAN, NEW written \in SUBSET Queues, Deploy(written, ok) PROVE Kept
    <3>1. ~disturbed /\ Now("deploy") /\ schedule' = schedule
      BY <2>1, <2>2, <2>4, CallsMove, MoveDealt DEF Deploy, KeptRun
    <3>2. \A q \in Range(Declared) : policy[q].group # "other"
      BY <2>1, <2>2, <3>1, Before, Declarations DEF IInv, EstablishedInv, CheckedInv, Acceptable
    <3>3. \A q \in Queues : q \in Range(Declared) \/ policy'[q] = policy[q]
      BY <2>4 DEF Deploy
    <3> QED BY <3>1, <3>2, <3>3
  <2>5. ASSUME NEW ok \in BOOLEAN, Apply(ok) PROVE Kept
    <3>1. ~disturbed /\ Now("apply") /\ policy' = policy /\ Moves("apply")
      BY <2>1, <2>2, <2>5, CallsMove, MoveDealt DEF Apply, KeptRun
    <3>2. at \in 1..Len(items)
      BY <2>2, <3>1 DEF Moves, At, Length, PlaceInv, TypeOK
    <3>3. Preflighted(items[at])
      BY <2>1, <2>2, <3>1, <3>2, Before DEF IInv, EstablishedInv, PreflightInv
    <3>4. \A s \in Addresses : s = items[at] \/ schedule'[s] = schedule[s]
      BY <2>2, <2>5 DEF Apply, TypeOK
    <3> QED BY <3>1, <3>3, <3>4 DEF Preflighted
  <2>6. ASSUME NEW ok \in BOOLEAN, MutateWrite(ok) PROVE Kept
    <3>1. ~disturbed /\ Now("mutate") /\ half /\ answer = "none" /\ policy' = policy
      BY <2>1, <2>2, <2>6, CallsMove, MoveDealt DEF MutateWrite, KeptRun
    <3>2. schedule[items[at]].job = "own"
      BY <2>1, <3>1 DEF IInv, EstablishedInv, MutateInv
    <3>3. \A s \in Addresses : s = items[at] \/ schedule'[s] = schedule[s]
      BY <2>2, <2>6 DEF MutateWrite, TypeOK
    <3> QED BY <3>1, <3>2, <3>3
  <2>7. CASE CheckQueue \/ List \/ PreflightPolicy \/ PreflightRecord \/ MutateRead \/ CheckRole
    <3>1. policy' = policy /\ schedule' = schedule
      BY <2>7
      DEF CheckQueue, List, PreflightPolicy, PreflightRecord, MutateRead, CheckRole, stored
    <3> QED BY <3>1
  <2>8. CASE NextStage \/ Fail
    <3>1. policy' = policy /\ schedule' = schedule
      BY <2>8 DEF NextStage, Fail, stored
    <3> QED BY <3>1
  <2>9. ASSUME NEW s \in Addresses, CheckListed(s) PROVE Kept
    BY <2>3, <2>9 DEF CheckListed
  <2>10. ASSUME NEW call, NEW s, Administer(call, s) PROVE Kept
    BY <2>3, <2>10 DEF Administer
  <2>11. CASE Elsewhere
    BY <2>1, <2>11 DEF Elsewhere
  <2>12. Kept
    BY <2>1, <2>4, <2>5, <2>6, <2>7, <2>8, <2>9, <2>10, <2>11 DEF Next
  <2> QED BY <2>1, <2>12
<1> QED BY <1>1, Invariant, PTL DEF Spec, ForeignKept

=============================================================================
