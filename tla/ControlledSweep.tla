--------------------------- MODULE ControlledSweep ---------------------------
(***************************************************************************)
(* The recovery of stalled jobs through the operation view of a store:     *)
(* recoverStalled without a queue visits the registered queues one by one, *)
(* recovers those with an enabled policy under its revision, and leaves    *)
(* the others to one native sweep of the whole namespace.  Policies are    *)
(* redeployed and other processes recover jobs while it runs.              *)
(***************************************************************************)
EXTENDS Integers, Sequences, Functions

CONSTANTS
  Queues,       \* queues of the namespace, of any application
  Registered,   \* this application's queues, in the order of the visit
  Limits,       \* limits a sweep may have; one above every count is none
  MaxStalled,   \* stalled jobs of a queue at the sweep's time
  MaxRevisions  \* bound of the revisions of a policy

ASSUME SweepAssumption ==
  /\ Registered \in Seq(Queues)
  /\ Limits \subseteq Nat \ {0}
  /\ MaxStalled \in Nat /\ MaxRevisions \in Nat \ {0}

VARIABLES
  policies,   \* the persisted policy of each queue
  stalled,    \* its stalled jobs
  limit,      \* the limit of the sweep
  pc,         \* the await of the sweep
  at,         \* the registered queue it visits
  revision,   \* the revision it read there
  plain,      \* the queues it found without an enabled policy
  recovered   \* the jobs it recovered

sweepVars == <<policies, stalled, limit, pc, at, revision, plain, recovered>>

Policy == [enabled : BOOLEAN, revision : 1..MaxRevisions]
SweepTypeOK ==
  /\ policies \in [Queues -> Policy]
  /\ stalled \in [Queues -> 0..MaxStalled]
  /\ limit \in Limits
  /\ pc \in {"policy", "recover", "sweep", "recovered", "failed"}
  /\ at \in 1..(Len(Registered) + 1)
  /\ revision \in 0..MaxRevisions
  /\ plain \subseteq Range(Registered)
  /\ recovered \in 0..limit

SweepInit ==
  /\ policies \in [Queues -> {p \in Policy : p.revision = 1}]
  /\ stalled \in [Queues -> 0..MaxStalled]
  /\ limit \in Limits
  /\ pc = IF Registered = <<>> THEN "sweep" ELSE "policy"
  /\ at = 1
  /\ revision = 0
  /\ plain = {}
  /\ recovered = 0

Left == limit - recovered
Least(a, b) == IF a < b THEN a ELSE b
Total(f) == FoldFunction(+, 0, f)

-----------------------------------------------------------------------------
(* Fault: a queue without a policy is passed over.                         *)
VisitForgets(q) ==
  IF ~policies[q].enabled
    THEN at' = at + 1 /\ UNCHANGED <<pc, revision, plain>>
    ELSE /\ pc' = IF Left = 0 THEN "recovered" ELSE "recover"
         /\ revision' = policies[q].revision
         /\ UNCHANGED <<plain, at>>

(* policy(queue): an ordinary queue is left to the native sweep, a         *)
(* controlled one is recovered while the limit is not reached.             *)
Visit(q) ==
  IF ~policies[q].enabled
    THEN /\ plain' = plain \cup {q}
         /\ at' = at + 1
         /\ UNCHANGED <<pc, revision>>
    ELSE /\ pc' = IF Left = 0 THEN "recovered" ELSE "recover"
         /\ revision' = policies[q].revision
         /\ UNCHANGED <<plain, at>>

VisitNext(ok) ==
  /\ pc = "policy"
  /\ at <= Len(Registered)
  /\ IF ok THEN Visit(Registered[at])
           ELSE pc' = "failed" /\ UNCHANGED <<plain, at, revision>>
  /\ UNCHANGED <<policies, stalled, limit, recovered>>

(* Fault: each queue is recovered up to the whole limit.                   *)
FencedWhole(q) == Least(limit, stalled[q])

(* The fenced recovery takes as many of the queue's jobs as the limit      *)
(* leaves.                                                                 *)
Fenced(q) == Least(Left, stalled[q])

(* Fault: a refused queue is passed over.                                  *)
RecoverContinues(answered) ==
  LET q == Registered[at]
      current == policies[q] = [enabled |-> TRUE, revision |-> revision]
  IN /\ pc = "recover"
     /\ IF current
          THEN /\ stalled' = [stalled EXCEPT ![q] = @ - Fenced(q)]
               /\ recovered' = recovered + Fenced(q)
          ELSE UNCHANGED <<stalled, recovered>>
     /\ pc' = "policy" /\ at' = at + 1
     /\ UNCHANGED <<policies, limit, revision, plain>>

(* recoverStalledControlled: refused when the revision is not the policy's *)
(* any more; its answer may be lost.                                       *)
Recover(answered) ==
  LET q == Registered[at]
      current == policies[q] = [enabled |-> TRUE, revision |-> revision]
  IN /\ pc = "recover"
     /\ IF current
          THEN /\ stalled' = [stalled EXCEPT ![q] = @ - Fenced(q)]
               /\ recovered' = recovered + Fenced(q)
          ELSE UNCHANGED <<stalled, recovered>>
     /\ IF current /\ answered
          THEN pc' = "policy" /\ at' = at + 1
          ELSE pc' = "failed" /\ UNCHANGED at
     /\ UNCHANGED <<policies, limit, revision, plain>>

(* Every queue was visited.                                                *)
Visited ==
  /\ pc = "policy"
  /\ at > Len(Registered)
  /\ pc' = IF plain # {} /\ Left # 0 THEN "sweep" ELSE "recovered"
  /\ UNCHANGED <<policies, stalled, limit, at, revision, plain, recovered>>

(* The native sweep takes stalled jobs of any queue of the namespace: as   *)
(* many as the limit leaves, fewer only when it takes all there are.       *)
Swept(taken) ==
  /\ \A q \in Queues : taken[q] <= stalled[q]
  /\ Total(taken) \in 0..Left
  /\ Total(taken) = Left \/ taken = stalled

Sweep(answered, taken) ==
  /\ pc = "sweep"
  /\ Swept(taken)
  /\ stalled' = [q \in Queues |-> stalled[q] - taken[q]]
  /\ recovered' = recovered + Total(taken)
  /\ pc' = IF answered THEN "recovered" ELSE "failed"
  /\ UNCHANGED <<policies, limit, at, revision, plain>>

(* The store is not reached.                                               *)
Unreached ==
  /\ pc \in {"recover", "sweep"}
  /\ pc' = "failed"
  /\ UNCHANGED <<policies, stalled, limit, at, revision, plain, recovered>>

-----------------------------------------------------------------------------
Redeploy(q, enabled) ==
  /\ policies[q].revision < MaxRevisions
  /\ policies' = [policies EXCEPT ![q] = [enabled |-> enabled, revision |-> @.revision + 1]]
  /\ UNCHANGED <<stalled, limit, pc, at, revision, plain, recovered>>

(* Another process recovers or settles one of the jobs.                    *)
TakenElsewhere(q) ==
  /\ stalled[q] > 0
  /\ stalled' = [stalled EXCEPT ![q] = @ - 1]
  /\ UNCHANGED <<policies, limit, pc, at, revision, plain, recovered>>

SweepNext ==
  \/ \E ok \in BOOLEAN : VisitNext(ok) \/ Recover(ok)
  \/ \E ok \in BOOLEAN, taken \in [Queues -> 0..MaxStalled] : Sweep(ok, taken)
  \/ Visited \/ Unreached
  \/ \E q \in Queues : TakenElsewhere(q) \/ \E enabled \in BOOLEAN : Redeploy(q, enabled)

SweepSpec == SweepInit /\ [][SweepNext]_sweepVars

-----------------------------------------------------------------------------
(* Properties.                                                             *)

(* However its way was split over the queues, a sweep never recovers more  *)
(* than its limit, and one that reports fewer has left none of this        *)
(* application's queues with a stalled job.                                *)
LimitSpent ==
  /\ recovered <= limit
  /\ pc = "recovered" /\ recovered < limit => \A q \in Range(Registered) : stalled[q] = 0

(* The native sweep takes a job of a registered queue only if the queue    *)
(* had no enabled policy when it was visited: a controlled queue has       *)
(* already gone through its fenced recovery.                               *)
FencedBeforeSweep ==
  [][ pc = "sweep" /\ recovered' # recovered =>
        \A q \in Range(Registered) : stalled'[q] # stalled[q] => q \in plain ]_sweepVars

(* What the comment on the native sweep says: when it runs, every          *)
(* controlled queue of the namespace has gone through its fenced recovery. *)
ControlledFenced ==
  pc = "sweep" => \A q \in Queues : policies[q].enabled => q \in Range(Registered) \ plain
=============================================================================
