-------------------------- MODULE AtomicOperation --------------------------
(***************************************************************************)
(* What dispatchStore promises the caller of one operation on one job,     *)
(* whatever it reads, refreshes and sends again on the way: the operation  *)
(* takes effect at most once and in the very step that answers it, at a    *)
(* time no earlier than its sample; a refusal has a reason and no effect,  *)
(* and only an unknown answer leaves open whether there was one.           *)
(***************************************************************************)
EXTENDS Integers

CONSTANTS Times, MaxDeliveries, Lease, Delay

VARIABLES
  job,        \* the durable job, which other processes change too
  asked,      \* the request under way: a set of at most one
  effective,  \* whether the operation had its effect
  answer      \* what the caller was told, or "none"

vars == <<job, asked, effective, answer>>

Settles == {"complete", "retry"}
Handlers == Settles \cup {"release"}
Refusals == {"disabled", "fence", "clock", "revision"}

Init ==
  /\ job = [state |-> "waiting", token |-> 0, settled |-> 0, updated |-> 0,
            expires |-> 0, runAt |-> 0]
  /\ asked = {} /\ ~effective /\ answer = "none"

Ask ==
  /\ asked = {} /\ answer = "none" /\ ~effective'
  /\ \E q \in asked' : asked' = {q}
  /\ UNCHANGED <<job, answer>>

(* Only an operation that answers for a delivery or a cancellation may be  *)
(* served later than it was sampled.                                       *)
Moment(q, now) ==
  IF q.kind \in Handlers \cup {"cancel"} THEN q.sampled <= now ELSE q.sampled = now

Repeated(q) == q.kind \in Settles /\ job.settled = q.token

Allowed(q, now) ==
  /\ q.kind = "claim" =>
       /\ job.token < MaxDeliveries
       /\ job.state = "waiting" \/ (job.state = "delayed" /\ job.runAt <= now)
  /\ q.kind = "cancel" => job.state \in {"waiting", "delayed", "active"}
  /\ q.kind = "recover" => job.state = "active" /\ job.expires <= now
  /\ q.kind \in Handlers => job.state = "active" /\ job.token = q.token /\ now < job.expires

Becomes(kind) ==
  CASE kind = "claim" -> "active"
    [] kind = "complete" -> "completed"
    [] kind = "retry" -> "delayed"
    [] kind = "cancel" -> IF job.state = "active" THEN "active" ELSE "cancelled"
    [] OTHER -> "waiting"

(* Effect and answer are one step.                                         *)
TakeEffect(q, now) ==
  /\ ~Repeated(q) /\ Allowed(q, now) /\ job.updated <= now
  /\ job'.state = Becomes(q.kind) /\ job'.updated = now
  /\ job'.token = job.token + (IF q.kind = "claim" THEN 1 ELSE 0)
  /\ job'.settled = IF q.kind \in Settles THEN q.token ELSE job.settled
  /\ q.kind = "claim" => job'.expires = now + Lease
  /\ q.kind = "retry" => job'.runAt = now + Delay
  /\ effective'
  /\ answer' \in {"applied", "unknown"}

Decline(q, now) ==
  /\ answer' \in {"unknown"} \cup Refusals \cup (IF Repeated(q) THEN {"applied"} ELSE {})
  /\ answer' = "fence" => ~Allowed(q, now)
  /\ answer' = "clock" => now < job.updated
  /\ answer' = "disabled" => q.kind = "claim"
  /\ UNCHANGED <<job, effective>>

Answer ==
  /\ \E q \in asked, now \in Times :
       Moment(q, now) /\ (TakeEffect(q, now) \/ Decline(q, now))
  /\ asked' = {}

(* Other processes never turn the job's time or token back and leave a     *)
(* finished job alone.                                                     *)
Elsewhere ==
  /\ job.updated <= job'.updated /\ job.token <= job'.token
  /\ job.state \in {"completed", "cancelled"} => job' = job
  /\ UNCHANGED <<asked, effective, answer>>

Next == Ask \/ Answer \/ Elsewhere

Spec == Init /\ [][Next]_vars
=============================================================================
