--------------------------- MODULE ControlledClock ---------------------------
(***************************************************************************)
(* The operation view of a store, dispatchStore, on one job of one queue.  *)
(* A claim, a settlement, a release, a cancellation or a recovery reads    *)
(* the persisted policy, then mutates the store under its revision.  A     *)
(* mutation whose sampled time an update overtook is refreshed and sent    *)
(* again, three times at most.  Meanwhile other hosts, whose clocks are    *)
(* not synchronized, mutate the job, leases expire, policies are           *)
(* redeployed and answers are lost.                                        *)
(***************************************************************************)
EXTENDS Integers

CONSTANTS
  MaxTime,       \* bound of the clocks
  MaxDeliveries, \* bound of the deliveries of the job
  MaxRevision,   \* bound of the policy's revisions
  Lease,         \* duration of a lease
  Delay          \* delay of a retry

ASSUME ClockAssumption ==
  /\ MaxTime \in Nat /\ MaxDeliveries \in Nat /\ MaxRevision \in Nat \ {0}
  /\ Lease \in Nat \ {0} /\ Delay \in Nat

VARIABLES
  job,       \* the durable job
  policy,    \* its queue's persisted policy
  clock,     \* this host's clock
  op,        \* the dispatcher's operation
  effective  \* whether the store applied its mutation

vars == <<job, policy, clock, op, effective>>

Times == 0..MaxTime
Tokens == 0..MaxDeliveries
Settles == {"complete", "retry"}
Leased == Settles \cup {"release"}
Refreshed == Leased \cup {"cancel"}
Kinds == Refreshed \cup {"claim", "recover"}
Refusals == {"fence", "clock", "revision"}

Job == [state : {"waiting", "active", "delayed", "completed", "cancelled"},
        token : Tokens, settled : Tokens, updated : Times,
        expires : 0..(MaxTime + Lease), runAt : 0..(MaxTime + Delay)]
Op == [pc : {"idle", "policy", "mutate", "reread", "resume"},
       kind : Kinds, declared : BOOLEAN, token : Tokens, sampled : Times, now : Times,
       revision : 0..MaxRevision, refresh : 0..3, seen : Times, prepared : Times,
       answer : {"none", "applied", "disabled", "unknown"} \cup Refusals]

TypeOK ==
  /\ job \in Job
  /\ policy \in [enabled : BOOLEAN, revision : 1..MaxRevision]
  /\ clock \in Times
  /\ op \in Op
  /\ effective \in BOOLEAN

Init ==
  /\ job = [state |-> "waiting", token |-> 0, settled |-> 0, updated |-> 0,
            expires |-> 0, runAt |-> 0]
  /\ policy = [enabled |-> TRUE, revision |-> 1]
  /\ clock = 0
  /\ op = [pc |-> "idle", kind |-> "claim", declared |-> FALSE, token |-> 0,
           sampled |-> 0, now |-> 0, revision |-> 0, refresh |-> 0, seen |-> 0,
           prepared |-> 0, answer |-> "none"]
  /\ effective = FALSE

Later(a, b) == IF a > b THEN a ELSE b

-----------------------------------------------------------------------------
(* What the store does with a request.  Only an active job has a lease and *)
(* only a delayed one a time it is due.                                    *)

(* A settlement sent again is acknowledged, not applied again.             *)
Repeated(q) == q.kind \in Settles /\ job.settled = q.token

Permitted(q) ==
  CASE q.kind = "claim" ->
         /\ job.token < MaxDeliveries
         /\ \/ job.state = "waiting"
            \/ job.state = "delayed" /\ job.runAt <= q.now
    [] q.kind = "recover" -> job.state = "active" /\ job.expires <= q.now
    [] q.kind = "cancel" -> job.state \in {"waiting", "delayed", "active"}
    [] OTHER -> job.state = "active" /\ job.token = q.token /\ q.now < job.expires

Mutated(q) ==
  [job EXCEPT
     !.state = CASE q.kind = "claim" -> "active"
                 [] q.kind = "complete" -> "completed"
                 [] q.kind = "retry" -> "delayed"
                 [] q.kind \in {"release", "recover"} -> "waiting"
                 [] OTHER -> IF @ = "active" THEN @ ELSE "cancelled",
     !.token = IF q.kind = "claim" THEN @ + 1 ELSE @,
     !.settled = IF q.kind \in Settles THEN q.token ELSE @,
     !.updated = q.now,
     !.expires = CASE q.kind = "claim" -> q.now + Lease [] q.kind = "cancel" -> @ [] OTHER -> 0,
     !.runAt = CASE q.kind = "retry" -> q.runAt [] q.kind = "cancel" -> @ [] OTHER -> 0]

-----------------------------------------------------------------------------
(* The dispatcher.                                                         *)

(* The answer; what the operation no longer needs is forgotten.            *)
Answered(answer) ==
  op' = [op EXCEPT !.pc = "idle", !.answer = answer, !.token = 0, !.now = 0,
                   !.refresh = 0, !.seen = 0, !.prepared = 0]

(* A worker's or an administrator's request.  The time of a mutation of a  *)
(* delivery was sampled on this host, that of a claim or a sweep anywhere. *)
Start(kind, declared, token, now) ==
  /\ op.pc = "idle" /\ op.answer = "none"
  /\ IF kind \in Leased THEN token \in 1..job.token ELSE token = 0
  /\ declared => kind = "claim"
  /\ kind \in Refreshed => now <= clock
  /\ op' = [pc |-> "policy", kind |-> kind, declared |-> declared, token |-> token,
            sampled |-> now, now |-> now,
            revision |-> 0, refresh |-> 0, seen |-> 0, prepared |-> 0, answer |-> "none"]
  /\ effective' = FALSE
  /\ UNCHANGED <<job, policy, clock>>

(* Fault: a claim of a declared queue whose policy is disabled goes plain. *)
FailOpen == FALSE

FailClosed == op.kind = "claim" /\ op.declared /\ ~policy.enabled

(* policy or jobPolicy: the revision to mutate under, 0 for a plain call.  *)
ReadPolicy(ok) ==
  /\ op.pc = "policy"
  /\ IF ~ok THEN Answered("unknown")
     ELSE IF FailClosed THEN Answered("disabled")
     ELSE op' = [op EXCEPT !.pc = "mutate",
                           !.revision = IF policy.enabled THEN policy.revision ELSE 0]
  /\ UNCHANGED <<job, policy, clock, effective>>

(* Fault: the schedule of a retry stays where the first sample put it.     *)
RunAtSampled == op.sampled + Delay

(* The schedule of a retry moves with the refreshed time.                  *)
RunAt == (op.sampled + Delay) + (op.now - op.sampled)

Request == [kind |-> op.kind, token |-> op.token, now |-> op.now, runAt |-> RunAt]

(* Its refusals; when there are several, any may be the one reported.      *)
Refused(r) ==
  /\ ~Repeated(Request)
  /\ \/ r = "fence" /\ ~Permitted(Request)
     \/ r = "clock" /\ op.now < job.updated
     \/ /\ r = "revision"
        /\ op.revision # 0
        /\ policy # [enabled |-> TRUE, revision |-> op.revision]

(* The store executes the mutation; its answer arrives or is lost.         *)
Apply(answered) ==
  /\ op.pc = "mutate"
  /\ \A r \in Refusals : ~Refused(r)
  /\ IF Repeated(Request)
       THEN UNCHANGED <<job, effective>>
       ELSE job' = Mutated(Request) /\ effective' = TRUE
  /\ Answered(IF answered THEN "applied" ELSE "unknown")
  /\ UNCHANGED <<policy, clock>>

(* withFreshControlledClock wraps the controlled mutations of a delivery.  *)
Refreshable == op.revision # 0 /\ op.kind \in Refreshed /\ op.refresh < 3

Refuse(r) ==
  /\ op.pc = "mutate"
  /\ Refused(r)
  /\ IF r = "clock" /\ Refreshable
       THEN op' = [op EXCEPT !.pc = "reread"]
       ELSE Answered(r)
  /\ UNCHANGED <<job, policy, clock, effective>>

(* Fault: a lost answer is taken for a stale sample.                       *)
LoseAndRefresh ==
  /\ op.pc = "mutate"
  /\ \/ UNCHANGED <<job, effective>>
     \/ /\ \A r \in Refusals : ~Refused(r)
        /\ ~Repeated(Request)
        /\ job' = Mutated(Request)
        /\ effective' = TRUE
  /\ op' = [op EXCEPT !.pc = "reread"]
  /\ UNCHANGED <<policy, clock>>

(* The mutation never reaches the store, or its refusal is lost.           *)
Lose ==
  /\ op.pc = "mutate"
  /\ Answered("unknown")
  /\ UNCHANGED <<job, policy, clock, effective>>

-----------------------------------------------------------------------------
(* The refresh.                                                            *)

Reread(ok) ==
  /\ op.pc = "reread"
  /\ IF ok THEN op' = [op EXCEPT !.pc = "resume", !.seen = job.updated]
           ELSE Answered("unknown")
  /\ UNCHANGED <<job, policy, clock, effective>>

(* Fault: the wall clock is not read again.                                *)
FreshWithoutClock == Later(op.now, op.seen)

(* Fault: the job's time that was read is not used.                        *)
FreshWithoutSeen == Later(op.now, clock)

Fresh == Later(Later(op.now, op.seen), clock)

Resume ==
  /\ op.pc = "resume"
  /\ IF Fresh <= op.now THEN Answered("clock")
     ELSE op' = [op EXCEPT !.pc = "mutate", !.now = Fresh, !.refresh = @ + 1,
                           !.prepared = clock]
  /\ UNCHANGED <<job, policy, clock, effective>>

-----------------------------------------------------------------------------
(* The environment.                                                        *)

(* An operation of any other process, at the moment the store applies it.  *)
Elsewhere(q) ==
  /\ q.runAt = q.now + Delay
  /\ q.token = IF q.kind \in Leased THEN job.token ELSE 0
  /\ Permitted(q)
  /\ ~Repeated(q)
  /\ job.updated <= q.now
  /\ job' = Mutated(q)
  /\ UNCHANGED <<policy, clock, op, effective>>

Heartbeat(now) ==
  /\ job.state = "active"
  /\ job.updated <= now
  /\ now < job.expires
  /\ job' = [job EXCEPT !.updated = now, !.expires = now + Lease]
  /\ UNCHANGED <<policy, clock, op, effective>>

Deploy(enabled) ==
  /\ policy.revision < MaxRevision
  /\ policy' = [enabled |-> enabled, revision |-> policy.revision + 1]
  /\ UNCHANGED <<job, clock, op, effective>>

Tick ==
  /\ clock < MaxTime
  /\ clock' = clock + 1
  /\ UNCHANGED <<job, policy, op, effective>>

-----------------------------------------------------------------------------
Proceed ==
  \/ \E ok \in BOOLEAN : ReadPolicy(ok) \/ Apply(ok) \/ Reread(ok)
  \/ \E r \in Refusals : Refuse(r)
  \/ Lose
  \/ Resume

Others ==
  \/ \E kind \in Kinds, token \in Tokens, now \in Times :
       Elsewhere([kind |-> kind, token |-> token, now |-> now, runAt |-> now + Delay])
  \/ \E now \in Times : Heartbeat(now)
  \/ \E enabled \in BOOLEAN : Deploy(enabled)
  \/ Tick

Next ==
  \/ \E kind \in Kinds, declared \in BOOLEAN, token \in Tokens, now \in Times :
       Start(kind, declared, token, now)
  \/ Proceed
  \/ Others

Spec == Init /\ [][Next]_vars

-----------------------------------------------------------------------------
(* Properties.                                                             *)

(* A finished handler is not sent back for a race it could win: a          *)
(* controlled mutation gives up as stale only if the job's time has moved  *)
(* past four of its samples, each later than the last.                     *)
GivesUpBeaten ==
  op.answer = "clock" /\ op.revision # 0 /\ op.kind \in Refreshed =>
    job.updated >= op.sampled + 4

(* A mutation that is refused was not applied, by this or by an earlier    *)
(* sending: only an unknown answer leaves it open.                         *)
HonestAnswer == op.answer \in Refusals \cup {"disabled"} => ~effective

(* What a refreshed mutation applies is still what was asked for: a leased *)
(* one had its lease on the host's clock at the refresh, a retry has the   *)
(* delay it was declared with, and a declared queue's claim is made under  *)
(* the policy it read, even if that is disabled or replaced meanwhile.     *)
AppliedAsAsked ==
  [][effective' /\ ~effective =>
       /\ op.kind \in Leased /\ op.refresh > 0 => op.prepared < job.expires
       /\ job'.state = "delayed" => job'.runAt = job'.updated + Delay
       /\ op.kind = "claim" /\ op.declared
            => policy = [enabled |-> TRUE, revision |-> op.revision]]_vars

(* However often it is refreshed and sent, an operation of the dispatcher  *)
(* is one atomic operation on the job, answered with its effect.           *)
Operation == INSTANCE AtomicOperation WITH
  asked <- IF op.pc = "idle" THEN {}
           ELSE {[kind |-> op.kind, token |-> op.token, sampled |-> op.sampled]},
  answer <- op.answer
AtomicOperationSpec == Operation!Spec

=============================================================================
