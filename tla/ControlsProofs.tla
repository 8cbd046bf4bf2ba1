--------------------------- MODULE ControlsProofs ---------------------------
(***************************************************************************)
(* Proofs about the controls dispatcher.  One operation on one job, for    *)
(* any clocks, leases, delays and number of deliveries: what it gives up   *)
(* as stale was beaten each time, what it reports as refused was not       *)
(* applied, and what it applies after a refresh is what was asked for.     *)
(* The recovery of stalled jobs, for any queues, limit and number of jobs  *)
(* and revisions: it keeps to its limit, leaves no stalled job behind      *)
(* where it reports fewer, and takes a job from a controlled queue only    *)
(* under its fence.                                                        *)
(***************************************************************************)
EXTENDS ControlledClock, ControlledSweep, TLAPS

-----------------------------------------------------------------------------
(* ControlledClock.                                                        *)

(* The job's time is ahead of the sample that was refused, and the         *)
(* operation may be refreshed once more.                                   *)
StaleInv ==
  op.pc \in {"reread", "resume"} =>
    /\ op.revision # 0 /\ op.kind \in Refreshed /\ op.refresh < 3
    /\ op.now < job.updated
    /\ op.pc = "resume" => op.now < op.seen

(* Each refresh has a later time than the one before, which is no earlier  *)
(* than the host's clock when it was made.                                 *)
SampleInv ==
  op.pc # "idle" => op.sampled + op.refresh <= op.now /\ op.prepared <= op.now

(* While an operation is under way it has had no effect and no answer, and *)
(* a declared claim goes under an enabled policy.                          *)
PendingInv ==
  op.pc # "idle" =>
    /\ op.answer = "none" /\ ~effective
    /\ op.pc # "policy" /\ op.kind = "claim" /\ op.declared => op.revision # 0

IInv == TypeOK /\ StaleInv /\ SampleInv /\ PendingInv /\ GivesUpBeaten /\ HonestAnswer

-----------------------------------------------------------------------------
(* Facts about the store.                                                  *)

(* What a permitted mutation makes of a job is typed, and due a delay      *)
(* after its time if the request says so.                                  *)
LEMMA MutatedType ==
  ASSUME TypeOK, NEW q,
         q.kind \in Kinds, q.token \in Tokens, q.now \in Times, q.runAt = q.now + Delay,
         Permitted(q)
  PROVE  /\ Mutated(q) \in Job
         /\ Mutated(q).updated = q.now
         /\ Mutated(q).state = "delayed" => Mutated(q).runAt = q.now + Delay
<1>1. q.now + Lease \in 0..(MaxTime + Lease) /\ q.now + Delay \in 0..(MaxTime + Delay)
  BY ClockAssumption DEF Times
<1>2. 0 \in 0..(MaxTime + Lease) /\ 0 \in 0..(MaxTime + Delay)
  BY ClockAssumption
<1>3. q.kind = "claim" => job.token + 1 \in Tokens
  BY ClockAssumption DEF TypeOK, Job, Tokens, Permitted
<1>. QED
  BY <1>1, <1>2, <1>3 DEF TypeOK, Job, Mutated, Kinds, Refreshed, Leased, Settles

(* The dispatcher's own request is one of these.                           *)
LEMMA RequestType ==
  ASSUME TypeOK
  PROVE  /\ Request.kind = op.kind /\ Request.token = op.token /\ Request.now = op.now
         /\ Request.kind \in Kinds /\ Request.token \in Tokens /\ Request.now \in Times
         /\ Request.runAt = Request.now + Delay
<1>1. (op.sampled + Delay) + (op.now - op.sampled) = op.now + Delay
  BY ClockAssumption DEF TypeOK, Op, Times
<1>. QED  BY <1>1 DEF TypeOK, Op, Request, RunAt

(* The refreshed time is one of the three it is chosen from, and none of   *)
(* them is later.                                                          *)
LEMMA FreshLatest ==
  ASSUME TypeOK
  PROVE  Fresh \in Times /\ op.now <= Fresh /\ op.seen <= Fresh /\ clock <= Fresh
BY ClockAssumption DEF TypeOK, Op, Times, Fresh, Later

(* What the store applies was permitted, on time and under the revision.   *)
LEMMA AppliedRequest ==
  ASSUME TypeOK, NEW answered \in BOOLEAN, Apply(answered), ~Repeated(Request)
  PROVE  /\ Permitted(Request)
         /\ job.updated <= op.now
         /\ op.revision # 0 => policy = [enabled |-> TRUE, revision |-> op.revision]
         /\ job' = Mutated(Request)
<1>1. \A r \in Refusals : ~Refused(r)  BY DEF Apply
<1>2. ~Refused("fence") /\ ~Refused("clock") /\ ~Refused("revision")
  BY <1>1 DEF Refusals
<1>3. job.updated \in Int /\ op.now \in Int
  BY ClockAssumption DEF TypeOK, Job, Op, Times
<1>. QED  BY <1>2, <1>3 DEF Refused, Apply

-----------------------------------------------------------------------------
(* Types.                                                                  *)

(* Every bounded field may be zero.                                        *)
LEMMA Zeros ==
  /\ 0 \in Times /\ 0 \in Tokens /\ 0 \in 0..MaxRevision /\ 0 \in 0..3
  /\ 0 \in 0..(MaxTime + Lease) /\ 0 \in 0..(MaxTime + Delay)
BY ClockAssumption DEF Times, Tokens

(* The initial state is typed.                                             *)
LEMMA InitType == Init => TypeOK
<1>. SUFFICES ASSUME Init PROVE TypeOK  OBVIOUS
<1>1. job \in Job
  BY Zeros DEF Init, Job
<1>2. policy \in [enabled : BOOLEAN, revision : 1..MaxRevision]
  <2>1. 1 \in 1..MaxRevision  BY ClockAssumption
  <2>. QED  BY <2>1 DEF Init
<1>3. op \in Op
  <2>1. "claim" \in Kinds  BY DEF Kinds
  <2>. QED  BY <2>1, Zeros DEF Init, Op
<1>. QED  BY <1>1, <1>2, <1>3, Zeros DEF Init, TypeOK

(* An answered operation is typed.                                         *)
LEMMA AnsweredType ==
  ASSUME TypeOK, NEW a \in {"none", "applied", "disabled", "unknown"} \cup Refusals, Answered(a)
  PROVE  op' \in Op
BY Zeros DEF TypeOK, Op, Answered

(* Every step keeps the types.  A refresh counts to three because StaleInv *)
(* remembers that one was left.                                            *)
LEMMA NextType == TypeOK /\ StaleInv /\ [Next]_vars => TypeOK'
<1>. SUFFICES ASSUME TypeOK, StaleInv, [Next]_vars PROVE TypeOK'  OBVIOUS
<1>1. ASSUME NEW kind \in Kinds, NEW declared \in BOOLEAN, NEW token \in Tokens,
             NEW now \in Times, Start(kind, declared, token, now)
      PROVE  TypeOK'
  <2>1. op' \in Op  BY <1>1, Zeros DEF Start, Op
  <2>. QED  BY <1>1, <2>1 DEF Start, TypeOK
<1>2. ASSUME NEW ok \in BOOLEAN, ReadPolicy(ok) PROVE TypeOK'
  <2>1. op' \in Op
    <3>1. CASE ~ok  BY <1>2, <3>1, AnsweredType DEF ReadPolicy
    <3>2. CASE ok /\ FailClosed  BY <1>2, <3>2, AnsweredType DEF ReadPolicy
    <3>3. CASE ok /\ ~FailClosed
      <4>1. policy.revision \in 0..MaxRevision  BY ClockAssumption DEF TypeOK
      <4>2. PICK r \in 0..MaxRevision : op' = [op EXCEPT !.pc = "mutate", !.revision = r]
        BY <1>2, <3>3, <4>1, Zeros DEF ReadPolicy
      <4>. QED  BY <4>2 DEF TypeOK, Op
    <3>. QED  BY <3>1, <3>2, <3>3
  <2>. QED  BY <1>2, <2>1 DEF ReadPolicy, TypeOK
<1>3. ASSUME NEW ok \in BOOLEAN, Apply(ok) PROVE TypeOK'
  <2>1. job' \in Job
    <3>1. CASE Repeated(Request)  BY <1>3, <3>1 DEF Apply, TypeOK
    <3>2. CASE ~Repeated(Request)
      BY <1>3, <3>2, AppliedRequest, RequestType, MutatedType
    <3>. QED  BY <3>1, <3>2
  <2>2. op' \in Op  BY <1>3, AnsweredType DEF Apply
  <2>3. effective' \in BOOLEAN  BY <1>3 DEF Apply, TypeOK
  <2>. QED  BY <1>3, <2>1, <2>2, <2>3 DEF Apply, TypeOK
<1>4. ASSUME NEW ok \in BOOLEAN, Reread(ok) PROVE TypeOK'
  <2>1. op' \in Op
    <3>1. CASE ok
      <4>1. job.updated \in Times  BY DEF TypeOK, Job
      <4>2. op' = [op EXCEPT !.pc = "resume", !.seen = job.updated]  BY <1>4, <3>1 DEF Reread
      <4>. QED  BY <4>1, <4>2 DEF TypeOK, Op
    <3>2. CASE ~ok  BY <1>4, <3>2, AnsweredType DEF Reread
    <3>. QED  BY <3>1, <3>2
  <2>. QED  BY <1>4, <2>1 DEF Reread, TypeOK
<1>5. ASSUME NEW r \in Refusals, Refuse(r) PROVE TypeOK'
  <2>1. op' \in Op
    <3>1. CASE r = "clock" /\ Refreshable  BY <1>5, <3>1 DEF Refuse, TypeOK, Op
    <3>2. CASE ~(r = "clock" /\ Refreshable)  BY <1>5, <3>2, AnsweredType DEF Refuse
    <3>. QED  BY <3>1, <3>2
  <2>. QED  BY <1>5, <2>1 DEF Refuse, TypeOK
<1>6. CASE Lose
  <2>1. op' \in Op  BY <1>6, AnsweredType DEF Lose
  <2>. QED  BY <1>6, <2>1 DEF Lose, TypeOK
<1>7. CASE Resume
  <2>1. op' \in Op
    <3>1. CASE Fresh <= op.now
      <4>1. Answered("clock")  BY <1>7, <3>1 DEF Resume
      <4>. QED  BY <4>1, AnsweredType DEF Refusals
    <3>2. CASE ~(Fresh <= op.now)
      <4>1. op.refresh + 1 \in 0..3 /\ Fresh \in Times
        BY <1>7, FreshLatest DEF Resume, StaleInv, TypeOK, Op
      <4>2. op' = [op EXCEPT !.pc = "mutate", !.now = Fresh, !.refresh = op.refresh + 1,
                             !.prepared = clock]
        BY <1>7, <3>2 DEF Resume
      <4>3. clock \in Times /\ op \in Op  BY DEF TypeOK
      <4>. HIDE DEF Fresh
      <4>. QED  BY <4>1, <4>2, <4>3 DEF Op
    <3>. QED  BY <3>1, <3>2
  <2>. QED  BY <1>7, <2>1 DEF Resume, TypeOK
<1>8. ASSUME NEW q, q.kind \in Kinds, q.token \in Tokens, q.now \in Times, Elsewhere(q)
      PROVE  TypeOK'
  <2>1. job' \in Job  BY <1>8, MutatedType DEF Elsewhere
  <2>. QED  BY <1>8, <2>1 DEF Elsewhere, TypeOK
<1>9. ASSUME NEW now \in Times, Heartbeat(now) PROVE TypeOK'
  <2>1. now + Lease \in 0..(MaxTime + Lease)  BY ClockAssumption DEF Times
  <2>. QED  BY <1>9, <2>1 DEF Heartbeat, TypeOK, Job
<1>10. ASSUME NEW enabled \in BOOLEAN, Deploy(enabled) PROVE TypeOK'
  BY <1>10, ClockAssumption DEF Deploy, TypeOK
<1>11. CASE Tick  BY <1>11, ClockAssumption DEF Tick, TypeOK, Times
<1>12. CASE UNCHANGED vars  BY <1>12 DEF vars, TypeOK
<1>. QED
  BY <1>1, <1>2, <1>3, <1>4, <1>5, <1>6, <1>7, <1>8, <1>9, <1>10, <1>11, <1>12
  DEF Next, Proceed, Others

-----------------------------------------------------------------------------
(* The inductive invariant, part by part.                                  *)

(* The job's time never goes back, whoever mutates the job.                *)
LEMMA TimeMoves == TypeOK /\ [Next]_vars => job.updated <= job'.updated
<1>. SUFFICES ASSUME TypeOK, [Next]_vars PROVE job.updated <= job'.updated  OBVIOUS
<1>0. job.updated \in Int  BY DEF TypeOK, Job, Times
<1>1. ASSUME NEW ok \in BOOLEAN, Apply(ok) PROVE job.updated <= job'.updated
  <2>1. CASE Repeated(Request)  BY <1>0, <1>1, <2>1 DEF Apply
  <2>2. CASE ~Repeated(Request)
    BY <1>1, <2>2, AppliedRequest, RequestType, MutatedType
  <2>. QED  BY <2>1, <2>2
<1>2. ASSUME NEW q, q.kind \in Kinds, q.token \in Tokens, q.now \in Times, Elsewhere(q)
      PROVE  job.updated <= job'.updated
  BY <1>2, MutatedType DEF Elsewhere
<1>3. ASSUME NEW now \in Times, Heartbeat(now) PROVE job.updated <= job'.updated
  BY <1>3 DEF Heartbeat, TypeOK, Job
<1>4. CASE UNCHANGED job  BY <1>0, <1>4
<1>5. ASSUME NEW kind \in Kinds, NEW declared \in BOOLEAN, NEW token \in Tokens,
             NEW now \in Times, Start(kind, declared, token, now)
      PROVE  UNCHANGED job
  BY <1>5 DEF Start
<1>6. ASSUME NEW ok \in BOOLEAN, ReadPolicy(ok) \/ Reread(ok) PROVE UNCHANGED job
  BY <1>6 DEF ReadPolicy, Reread
<1>7. ASSUME NEW r \in Refusals, Refuse(r) PROVE UNCHANGED job  BY <1>7 DEF Refuse
<1>8. Lose \/ Resume \/ Tick \/ UNCHANGED vars => UNCHANGED job
  BY DEF Lose, Resume, Tick, vars
<1>9. ASSUME NEW enabled \in BOOLEAN, Deploy(enabled) PROVE UNCHANGED job  BY <1>9 DEF Deploy
<1>. QED
  BY <1>1, <1>2, <1>3, <1>4, <1>5, <1>6, <1>7, <1>8, <1>9 DEF Next, Proceed, Others

(* A step of others leaves the operation to itself; any other step is the  *)
(* operation's own.                                                        *)
LEMMA OthersKeep == Others => UNCHANGED <<op, effective>>
BY DEF Others, Elsewhere, Heartbeat, Deploy, Tick

(* Every step keeps the facts about the operation.  The three parts belong *)
(* together: it is given up only as StaleInv and SampleInv allow.          *)
LEMMA NextInv == IInv /\ [Next]_vars => (StaleInv /\ SampleInv /\ PendingInv)'
                                        /\ GivesUpBeaten' /\ HonestAnswer'
<1>. SUFFICES ASSUME IInv, [Next]_vars
              PROVE  (StaleInv /\ SampleInv /\ PendingInv)' /\ GivesUpBeaten' /\ HonestAnswer'
  OBVIOUS
<1>. DEFINE Kept == (StaleInv /\ SampleInv /\ PendingInv)' /\ GivesUpBeaten' /\ HonestAnswer'
<1>. USE DEF IInv
<1>0. /\ job.updated <= job'.updated
      /\ job.updated \in Int /\ job'.updated \in Int
      /\ op.now \in Int /\ op.sampled \in Int /\ op.refresh \in 0..3 /\ op.prepared \in Int
      /\ op.seen \in Int /\ clock \in Int
  BY TimeMoves, NextType DEF TypeOK, Job, Op, Times
<1>1. ASSUME NEW a \in {"none", "applied", "disabled", "unknown"} \cup Refusals, Answered(a)
      PROVE  /\ op'.pc = "idle" /\ op'.answer = a /\ op'.kind = op.kind
             /\ op'.revision = op.revision /\ op'.sampled = op.sampled
  BY <1>1 DEF Answered, TypeOK, Op
<1>2. ASSUME NEW a \in {"applied", "unknown"}, Answered(a) PROVE Kept
  BY <1>1, <1>2 DEF StaleInv, SampleInv, PendingInv, GivesUpBeaten, HonestAnswer, Refusals
<1>3. ASSUME NEW a \in {"disabled", "fence", "revision"}, Answered(a),
             op.pc # "idle", UNCHANGED effective
      PROVE  Kept
  <2>1. a \in {"none", "applied", "disabled", "unknown"} \cup Refusals  BY DEF Refusals
  <2>. QED
    BY <1>1, <1>3, <2>1 DEF StaleInv, SampleInv, PendingInv, GivesUpBeaten, HonestAnswer
<1>4. ASSUME Answered("clock"), op.pc # "idle", UNCHANGED effective,
             op.revision # 0 /\ op.kind \in Refreshed => op.refresh = 3 /\ op.now < job.updated
      PROVE  Kept
  <2>1. op'.answer = "clock" /\ op'.pc = "idle" /\ op'.kind = op.kind
        /\ op'.revision = op.revision /\ op'.sampled = op.sampled
    BY <1>1, <1>4 DEF Refusals
  <2>2. GivesUpBeaten'
    BY <1>0, <1>4, <2>1 DEF GivesUpBeaten, SampleInv
  <2>. QED
    BY <1>4, <2>1, <2>2 DEF StaleInv, SampleInv, PendingInv, HonestAnswer
<1>5. ASSUME NEW kind \in Kinds, NEW declared \in BOOLEAN, NEW token \in Tokens,
             NEW now \in Times, Start(kind, declared, token, now)
      PROVE  Kept
  <2>1. /\ op'.pc = "policy" /\ op'.answer = "none" /\ op'.sampled = now /\ op'.now = now
        /\ op'.refresh = 0 /\ op'.prepared = 0 /\ ~effective'
    BY <1>5 DEF Start
  <2>2. now + 0 <= now /\ 0 <= now  BY ClockAssumption DEF Times
  <2>. QED
    BY <2>1, <2>2 DEF StaleInv, SampleInv, PendingInv, GivesUpBeaten, HonestAnswer, Refusals
<1>6. ASSUME NEW ok \in BOOLEAN, ReadPolicy(ok) PROVE Kept
  <2>1. CASE ~ok  BY <1>2, <1>6, <2>1 DEF ReadPolicy
  <2>2. CASE ok /\ FailClosed  BY <1>3, <1>6, <2>2 DEF ReadPolicy
  <2>3. CASE ok /\ ~FailClosed
    <3>1. op' = [op EXCEPT !.pc = "mutate",
                           !.revision = IF policy.enabled THEN policy.revision ELSE 0]
          /\ UNCHANGED <<job, effective>> /\ op.pc = "policy"
      BY <1>6, <2>3 DEF ReadPolicy
    <3>2. /\ op'.pc = "mutate" /\ op'.answer = op.answer /\ op'.sampled = op.sampled
          /\ op'.now = op.now /\ op'.refresh = op.refresh /\ op'.prepared = op.prepared
          /\ op'.kind = op.kind /\ op'.declared = op.declared
          /\ op'.revision = IF policy.enabled THEN policy.revision ELSE 0
      BY <3>1 DEF TypeOK, Op
    <3>3. op.kind = "claim" /\ op.declared => op'.revision # 0
      BY <2>3, <3>2 DEF FailClosed, TypeOK
    <3>. QED
      BY <3>1, <3>2, <3>3
      DEF StaleInv, SampleInv, PendingInv, GivesUpBeaten, HonestAnswer, Refusals
  <2>. QED  BY <2>1, <2>2, <2>3
<1>7. ASSUME NEW ok \in BOOLEAN, Apply(ok) PROVE Kept
  BY <1>2, <1>7 DEF Apply
<1>8. ASSUME NEW ok \in BOOLEAN, Reread(ok) PROVE Kept
  <2>1. CASE ~ok  BY <1>2, <1>8, <2>1 DEF Reread
  <2>2. CASE ok
    <3>1. op' = [op EXCEPT !.pc = "resume", !.seen = job.updated]
          /\ UNCHANGED <<job, effective>> /\ op.pc = "reread"
      BY <1>8, <2>2 DEF Reread
    <3>2. /\ op'.pc = "resume" /\ op'.answer = op.answer /\ op'.sampled = op.sampled
          /\ op'.now = op.now /\ op'.refresh = op.refresh /\ op'.prepared = op.prepared
          /\ op'.kind = op.kind /\ op'.declared = op.declared /\ op'.revision = op.revision
          /\ op'.seen = job.updated
      BY <3>1 DEF TypeOK, Op
    <3>. QED
      BY <3>1, <3>2
      DEF StaleInv, SampleInv, PendingInv, GivesUpBeaten, HonestAnswer, Refusals
  <2>. QED  BY <2>1, <2>2
<1>9. ASSUME NEW r \in Refusals, Refuse(r) PROVE Kept
  <2>1. op.pc = "mutate" /\ UNCHANGED <<job, effective>> /\ (r = "clock" => op.now < job.updated)
    BY <1>9 DEF Refuse, Refused
  <2>2. CASE r = "clock" /\ Refreshable
    <3>1. op' = [op EXCEPT !.pc = "reread"]  BY <1>9, <2>2 DEF Refuse
    <3>2. /\ op'.pc = "reread" /\ op'.answer = op.answer /\ op'.sampled = op.sampled
          /\ op'.now = op.now /\ op'.refresh = op.refresh /\ op'.prepared = op.prepared
          /\ op'.kind = op.kind /\ op'.declared = op.declared /\ op'.revision = op.revision
      BY <3>1 DEF TypeOK, Op
    <3>. QED
      BY <2>1, <2>2, <3>2
      DEF StaleInv, SampleInv, PendingInv, GivesUpBeaten, HonestAnswer, Refusals, Refreshable
  <2>3. CASE r = "clock" /\ ~Refreshable
    <3>1. op.revision # 0 /\ op.kind \in Refreshed => op.refresh = 3
      BY <1>0, <2>3 DEF Refreshable
    <3>. QED  BY <1>4, <1>9, <2>1, <2>3, <3>1 DEF Refuse
  <2>4. CASE r # "clock"  BY <1>3, <1>9, <2>1, <2>4 DEF Refuse, Refusals
  <2>. QED  BY <2>2, <2>3, <2>4
<1>10. CASE Lose  BY <1>2, <1>10 DEF Lose
<1>11. CASE Resume
  <2>1. op.pc = "resume" /\ UNCHANGED <<job, effective>>  BY <1>11 DEF Resume
  <2>2. Fresh \in Int /\ op.now < Fresh /\ clock <= Fresh
    BY <1>0, <2>1, FreshLatest DEF StaleInv, Times
  <2>3. op' = [op EXCEPT !.pc = "mutate", !.now = Fresh, !.refresh = @ + 1, !.prepared = clock]
    BY <1>0, <1>11, <2>2 DEF Resume
  <2>4. /\ op'.pc = "mutate" /\ op'.answer = op.answer /\ op'.sampled = op.sampled
        /\ op'.now = Fresh /\ op'.refresh = op.refresh + 1 /\ op'.prepared = clock
        /\ op'.kind = op.kind /\ op'.declared = op.declared /\ op'.revision = op.revision
    BY <2>3 DEF TypeOK, Op
  <2>5. SampleInv'  BY <1>0, <2>1, <2>2, <2>4 DEF SampleInv
  <2>. QED
    BY <2>1, <2>4, <2>5
    DEF StaleInv, PendingInv, GivesUpBeaten, HonestAnswer, Refusals
<1>12. CASE UNCHANGED <<op, effective>>
  BY <1>0, <1>12 DEF StaleInv, SampleInv, PendingInv, GivesUpBeaten, HonestAnswer
<1>. QED
  BY <1>5, <1>6, <1>7, <1>8, <1>9, <1>10, <1>11, <1>12, OthersKeep DEF Next, Proceed, vars

-----------------------------------------------------------------------------
(* Theorems.                                                               *)

(* The invariant holds of every behaviour of the dispatcher's operation.   *)
THEOREM Invariant == Spec => []IInv
<1>1. Init => IInv
  BY InitType
  DEF Init, IInv, StaleInv, SampleInv, PendingInv, GivesUpBeaten, HonestAnswer, Refusals
<1>2. IInv /\ [Next]_vars => IInv'
  BY NextType, NextInv DEF IInv
<1>. QED  BY <1>1, <1>2, PTL DEF Spec

(* A controlled mutation reports a stale sample only after the job's time  *)
(* has overtaken it and each of its three refreshes.                       *)
THEOREM GivesUpBeatenCorrect == Spec => []GivesUpBeaten
<1>1. IInv => GivesUpBeaten  BY DEF IInv
<1>. QED  BY <1>1, Invariant, PTL

(* What the dispatcher reports as refused or disabled was never applied,   *)
(* also not by an earlier sending of the same operation.                   *)
THEOREM HonestAnswerCorrect == Spec => []HonestAnswer
<1>1. IInv => HonestAnswer  BY DEF IInv
<1>. QED  BY <1>1, Invariant, PTL

(* A mutation that takes effect does so inside its lease on this host's    *)
(* clock, with the declared delay, under the policy a declared claim read. *)
THEOREM AppliedAsAskedCorrect == Spec => AppliedAsAsked
<1>. DEFINE Asked ==
       effective' /\ ~effective =>
         /\ op.kind \in Leased /\ op.refresh > 0 => op.prepared < job.expires
         /\ job'.state = "delayed" => job'.runAt = job'.updated + Delay
         /\ op.kind = "claim" /\ op.declared
              => policy = [enabled |-> TRUE, revision |-> op.revision]
<1>1. IInv /\ [Next]_vars => [Asked]_vars
  <2>. SUFFICES ASSUME IInv, [Next]_vars, effective', ~effective PROVE Asked  OBVIOUS
  <2>1. PICK ok \in BOOLEAN : Apply(ok)
    BY OthersKeep DEF Next, Proceed, Start, ReadPolicy, Reread, Refuse, Lose, Resume, vars
  <2>2. ~Repeated(Request)  BY <2>1 DEF Apply
  <2>3. /\ Permitted(Request) /\ job' = Mutated(Request)
        /\ op.revision # 0 => policy = [enabled |-> TRUE, revision |-> op.revision]
    BY <2>1, <2>2, AppliedRequest DEF IInv
  <2>4. op.pc = "mutate"  BY <2>1 DEF Apply
  <2>5. op.kind \in Leased => op.prepared < job.expires
    <3>1. op.kind \in Leased => op.now < job.expires
      BY <2>3, RequestType DEF Permitted, Leased, Settles, IInv
    <3>2. op.now \in Int /\ op.prepared \in Int /\ job.expires \in Int
      BY ClockAssumption DEF IInv, TypeOK, Job, Op, Times
    <3>. QED  BY <2>4, <3>1, <3>2 DEF IInv, SampleInv
  <2>6. job'.state = "delayed" => job'.runAt = job'.updated + Delay
    BY <2>3, RequestType, MutatedType DEF IInv
  <2>7. op.kind = "claim" /\ op.declared
          => policy = [enabled |-> TRUE, revision |-> op.revision]
    BY <2>3, <2>4 DEF IInv, PendingInv
  <2>. QED  BY <2>5, <2>6, <2>7
<1>. QED  BY <1>1, Invariant, PTL DEF Spec, AppliedAsAsked

-----------------------------------------------------------------------------
(* The refinement: one operation of the dispatcher is one atomic operation *)
(* on the job.                                                             *)

(* Only a delivery's or a cancellation's request is sampled again.         *)
UnmovedInv == op.pc # "idle" /\ op.kind \notin Refreshed => op.now = op.sampled

(* Every step keeps it: only what may be refreshed reaches the refresh.    *)
LEMMA NextUnmoved == IInv /\ UnmovedInv /\ [Next]_vars => UnmovedInv'
<1>. SUFFICES ASSUME IInv, UnmovedInv, [Next]_vars PROVE UnmovedInv'  OBVIOUS
<1>1. ASSUME NEW a, Answered(a) PROVE UnmovedInv'
  BY <1>1 DEF Answered, UnmovedInv, IInv, TypeOK, Op
<1>2. ASSUME NEW kind \in Kinds, NEW declared \in BOOLEAN, NEW token \in Tokens,
             NEW now \in Times, Start(kind, declared, token, now)
      PROVE  UnmovedInv'
  BY <1>2 DEF Start, UnmovedInv
<1>4. ASSUME NEW ok \in BOOLEAN, ReadPolicy(ok) PROVE UnmovedInv'
  <2>1. CASE ~ok \/ FailClosed  BY <1>1, <1>4, <2>1 DEF ReadPolicy
  <2>2. CASE ok /\ ~FailClosed
    <3>1. op' = [op EXCEPT !.pc = "mutate",
                           !.revision = IF policy.enabled THEN policy.revision ELSE 0]
      BY <1>4, <2>2 DEF ReadPolicy
    <3>. QED  BY <1>4, <3>1 DEF ReadPolicy, UnmovedInv, IInv, TypeOK, Op
  <2>. QED  BY <2>1, <2>2
<1>5. ASSUME NEW ok \in BOOLEAN, Apply(ok) PROVE UnmovedInv'  BY <1>1, <1>5 DEF Apply
<1>6. ASSUME NEW ok \in BOOLEAN, Reread(ok) PROVE UnmovedInv'
  <2>1. CASE ~ok  BY <1>1, <1>6, <2>1 DEF Reread
  <2>2. CASE ok  BY <1>6, <2>2 DEF Reread, UnmovedInv, IInv, TypeOK, Op
  <2>. QED  BY <2>1, <2>2
<1>7. ASSUME NEW r \in Refusals, Refuse(r) PROVE UnmovedInv'
  <2>1. CASE Answered(r)  BY <1>1, <2>1
  <2>2. CASE op' = [op EXCEPT !.pc = "reread"]
    BY <1>7, <2>2 DEF Refuse, UnmovedInv, IInv, TypeOK, Op
  <2>. QED  BY <1>7, <2>1, <2>2 DEF Refuse
<1>8. CASE Lose  BY <1>1, <1>8 DEF Lose
<1>9. CASE Resume
  <2>1. op.kind \in Refreshed  BY <1>9 DEF Resume, IInv, StaleInv
  <2>2. op'.kind = op.kind  BY <1>9 DEF Resume, Answered, IInv, TypeOK, Op
  <2>. QED  BY <2>1, <2>2 DEF UnmovedInv
<1>10. CASE UNCHANGED op  BY <1>10 DEF UnmovedInv
<1>. QED
  BY <1>2, <1>4, <1>5, <1>6, <1>7, <1>8, <1>9, <1>10, OthersKeep DEF Next, Proceed, vars

(* The request under way, as AtomicOperation sees it.                      *)
Asking == [kind |-> op.kind, token |-> op.token, sampled |-> op.sampled]
Asked == IF op.pc = "idle" THEN {} ELSE {Asking}

(* A step that answers is the atomic operation, if what it does to the job *)
(* is its effect or none with good reason.                                 *)
LEMMA AnsweredOnce ==
  ASSUME IInv, UnmovedInv, op.pc # "idle",
         NEW a \in {"applied", "disabled", "unknown"} \cup Refusals, Answered(a),
         Operation!TakeEffect(Asking, op.now) \/ Operation!Decline(Asking, op.now)
  PROVE  Operation!Answer
<1>1. Asked = {Asking} /\ Asked' = {}
  BY DEF Asked, Answered, IInv, TypeOK, Op
<1>2. op.now \in Times /\ op.refresh \in Nat /\ op.sampled \in Int /\ op.now \in Int
  BY ClockAssumption DEF IInv, TypeOK, Op, Times
<1>3. Asking.kind = op.kind /\ Asking.sampled = op.sampled  BY DEF Asking
<1>4. Operation!Moment(Asking, op.now)
  <2>1. op.sampled <= op.now  BY <1>2 DEF IInv, SampleInv
  <2>2. op.kind \notin Refreshed => op.sampled = op.now  BY DEF UnmovedInv
  <2>. QED
    BY <1>3, <2>1, <2>2
    DEF Operation!Moment, Operation!Handlers, Operation!Settles, Refreshed, Leased, Settles
<1>. QED
  BY <1>1, <1>2, <1>4 DEF Operation!Answer, Asked, Asking

(* The store grants and repeats a request exactly as the promise does.     *)
LEMMA SameStore ==
  ASSUME TypeOK
  PROVE  /\ Permitted(Request) <=> Operation!Allowed(Asking, op.now)
         /\ Repeated(Request) <=> Operation!Repeated(Asking)
<1>1. Asking.kind = op.kind /\ Asking.token = op.token  BY DEF Asking
<1>2. Request.kind = op.kind /\ Request.token = op.token /\ Request.now = op.now
  BY RequestType
<1>3. op.kind \in {"claim", "recover", "cancel", "release", "complete", "retry"}
  BY DEF TypeOK, Op, Kinds, Refreshed, Leased, Settles
<1>4. Repeated(Request) <=> Operation!Repeated(Asking)
  BY <1>1, <1>2 DEF Repeated, Operation!Repeated, Settles, Operation!Settles
<1>5. Permitted(Request) <=> Operation!Allowed(Asking, op.now)
  BY <1>1, <1>2, <1>3
  DEF Permitted, Operation!Allowed, Operation!Handlers, Operation!Settles
<1>. QED  BY <1>4, <1>5

(* What the store applies is the effect of the atomic operation.           *)
LEMMA ApplyTakes ==
  ASSUME IInv, NEW answered \in BOOLEAN, Apply(answered), ~Repeated(Request)
  PROVE  Operation!TakeEffect(Asking, op.now)
<1>. USE DEF IInv
<1>1. /\ Permitted(Request) /\ job.updated <= op.now /\ job' = Mutated(Request)
      /\ effective'
  BY AppliedRequest DEF Apply
<1>2. ~Operation!Repeated(Asking) /\ Operation!Allowed(Asking, op.now)
  BY <1>1, SameStore
<1>3. /\ Request.kind = op.kind /\ Request.token = op.token /\ Request.now = op.now
      /\ Request.runAt = op.now + Delay
  BY RequestType
<1>4. Asking.kind = op.kind /\ Asking.token = op.token  BY DEF Asking
<1>5. op.kind \in {"claim", "recover", "cancel", "release", "complete", "retry"}
  BY DEF TypeOK, Op, Kinds, Refreshed, Leased, Settles
<1>6. job \in Job /\ job.token + 0 = job.token
  BY DEF TypeOK, Job, Tokens
<1>7. job'.state = Operation!Becomes(op.kind) /\ job'.updated = op.now
  BY <1>1, <1>3, <1>5, <1>6 DEF Mutated, Job, Operation!Becomes
<1>8. job'.token = job.token + (IF op.kind = "claim" THEN 1 ELSE 0)
  BY <1>1, <1>3, <1>6 DEF Mutated, Job
<1>9. job'.settled = IF op.kind \in {"complete", "retry"} THEN op.token ELSE job.settled
  BY <1>1, <1>3, <1>6 DEF Mutated, Job, Settles
<1>10. op.kind = "claim" => job'.expires = op.now + Lease
  BY <1>1, <1>3, <1>6 DEF Mutated, Job
<1>11. op.kind = "retry" => job'.runAt = op.now + Delay
  BY <1>1, <1>3, <1>6 DEF Mutated, Job
<1>12. op'.answer \in {"applied", "unknown"}  BY DEF Apply, Answered, TypeOK, Op
<1>. QED
  BY <1>1, <1>2, <1>4, <1>7, <1>8, <1>9, <1>10, <1>11, <1>12
  DEF Operation!TakeEffect, Operation!Settles

(* Other processes keep the job's history.                                 *)
LEMMA ElsewhereKeeps ==
  ASSUME IInv, Others
  PROVE  Operation!Elsewhere
<1>. USE DEF IInv
<1>1. job.updated <= job'.updated  BY TimeMoves DEF Next
<1>2. job.token \in Int /\ job \in Job  BY DEF TypeOK, Job, Tokens
<1>3. job.token <= job'.token /\ (job.state \in {"completed", "cancelled"} => job' = job)
  <2>1. ASSUME NEW q, q.kind \in Kinds, Elsewhere(q)
        PROVE  job.token <= job'.token /\ job.state \notin {"completed", "cancelled"}
    <3>1. job' = Mutated(q) /\ Permitted(q)  BY <2>1 DEF Elsewhere
    <3>2. job.state \notin {"completed", "cancelled"}
      BY <3>1 DEF Permitted
    <3>3. job'.token = IF q.kind = "claim" THEN job.token + 1 ELSE job.token
      BY <1>2, <3>1 DEF Mutated, Job
    <3>. QED  BY <1>2, <3>2, <3>3
  <2>2. ASSUME NEW now \in Times, Heartbeat(now)
        PROVE  job.token = job'.token /\ job.state \notin {"completed", "cancelled"}
    BY <1>2, <2>2 DEF Heartbeat, Job
  <2>3. Tick \/ (\E enabled \in BOOLEAN : Deploy(enabled)) => job' = job
    BY DEF Tick, Deploy
  <2>4. CASE \E kind \in Kinds, token \in Tokens, now \in Times :
               Elsewhere([kind |-> kind, token |-> token, now |-> now,
                          runAt |-> now + Delay])
    <3>1. PICK kind \in Kinds, token \in Tokens, now \in Times :
            Elsewhere([kind |-> kind, token |-> token, now |-> now,
                       runAt |-> now + Delay])
      BY <2>4
    <3>. DEFINE q == [kind |-> kind, token |-> token, now |-> now, runAt |-> now + Delay]
    <3>2. q.kind \in Kinds /\ Elsewhere(q)  BY <3>1
    <3>. HIDE DEF q
    <3>. QED  BY <2>1, <3>2
  <2>5. CASE \E now \in Times : Heartbeat(now)  BY <1>2, <2>2, <2>5
  <2>6. CASE Tick \/ (\E enabled \in BOOLEAN : Deploy(enabled))  BY <1>2, <2>3, <2>6
  <2>. QED  BY <2>4, <2>5, <2>6 DEF Others
<1>4. UNCHANGED <<Asked, effective, op.answer>>
  BY OthersKeep DEF Asked, Asking
<1>. QED  BY <1>1, <1>3, <1>4 DEF Operation!Elsewhere, Asked, Asking

(* Asking, the reads of the policy and the job, and each refresh leave the *)
(* job alone; the promise sees the question and nothing of the rest.       *)
LEMMA StepTaken ==
  ASSUME IInv, UnmovedInv, [Next]_vars
  PROVE  [Operation!Next]_Operation!vars
<1>. DEFINE Step == [Operation!Next]_Operation!vars
<1>. USE DEF IInv
<1>1. ASSUME NEW a \in {"unknown"} \cup Refusals, op.pc # "idle", Answered(a),
             UNCHANGED <<job, effective>>,
             a = "fence" => ~Permitted(Request), a = "clock" => op.now < job.updated
      PROVE  Step
  <2>1. op'.answer = a  BY <1>1 DEF Answered, TypeOK, Op
  <2>2. a \in {"unknown", "fence", "clock", "revision"}  BY <1>1 DEF Refusals
  <2>3. Operation!Decline(Asking, op.now)
    BY <1>1, <2>1, <2>2, SameStore DEF Operation!Decline, Operation!Refusals
  <2>. QED  BY <1>1, <2>3, AnsweredOnce DEF Operation!Next
<1>2. ASSUME Asked' = Asked, UNCHANGED <<job, effective>>, op'.answer = op.answer
      PROVE  Step
  BY <1>2 DEF Operation!vars, Asked, Asking
<1>3. ASSUME op.pc # "idle", op'.pc # "idle", UNCHANGED <<job, effective>>,
             op'.answer = op.answer, op'.kind = op.kind, op'.token = op.token,
             op'.sampled = op.sampled
      PROVE  Step
  <2>1. Asked' = Asked  BY <1>3 DEF Asked, Asking
  <2>. QED  BY <1>2, <1>3, <2>1
<1>4. ASSUME NEW kind \in Kinds, NEW declared \in BOOLEAN, NEW token \in Tokens,
             NEW now \in Times, Start(kind, declared, token, now)
      PROVE  Step
  <2>1. Asked = {} /\ Asked' = {Asking'}  BY <1>4 DEF Start, Asked
  <2>2. op.answer = "none" /\ op'.answer = "none" /\ job' = job /\ ~effective'
    BY <1>4 DEF Start
  <2>3. Operation!Ask  BY <2>1, <2>2 DEF Operation!Ask, Asked, Asking
  <2>. QED  BY <2>3 DEF Operation!Next
<1>5. ASSUME NEW ok \in BOOLEAN, ReadPolicy(ok) PROVE Step
  <2>1. op.pc = "policy" /\ UNCHANGED <<job, effective>>  BY <1>5 DEF ReadPolicy
  <2>2. CASE ~ok  BY <1>1, <1>5, <2>1, <2>2 DEF ReadPolicy
  <2>3. CASE ok /\ FailClosed
    <3>1. Answered("disabled")  BY <1>5, <2>3 DEF ReadPolicy
    <3>2. op'.answer = "disabled"  BY <3>1 DEF Answered, TypeOK, Op
    <3>3. Asking.kind = "claim"  BY <2>3 DEF FailClosed, Asking
    <3>4. Operation!Decline(Asking, op.now)
      BY <2>1, <3>2, <3>3 DEF Operation!Decline, Operation!Refusals
    <3>. QED  BY <2>1, <3>1, <3>4, AnsweredOnce DEF Operation!Next
  <2>4. CASE ok /\ ~FailClosed
    <3>1. op' = [op EXCEPT !.pc = "mutate",
                           !.revision = IF policy.enabled THEN policy.revision ELSE 0]
      BY <1>5, <2>4 DEF ReadPolicy
    <3>2. op'.pc = "mutate" /\ op'.answer = op.answer /\ op'.kind = op.kind
          /\ op'.token = op.token /\ op'.sampled = op.sampled
      BY <3>1 DEF TypeOK, Op
    <3>. QED  BY <1>3, <2>1, <3>2
  <2>. QED  BY <2>2, <2>3, <2>4
<1>6. ASSUME NEW ok \in BOOLEAN, Apply(ok) PROVE Step
  <2>1. op.pc = "mutate" /\ Answered(IF ok THEN "applied" ELSE "unknown")
    BY <1>6 DEF Apply
  <2>2. op'.answer = IF ok THEN "applied" ELSE "unknown"
    BY <2>1 DEF Answered, TypeOK, Op
  <2>3. Operation!TakeEffect(Asking, op.now) \/ Operation!Decline(Asking, op.now)
    <3>1. CASE Repeated(Request)
      <4>1. Operation!Repeated(Asking)  BY <3>1, SameStore
      <4>2. UNCHANGED <<job, effective>>  BY <1>6, <3>1 DEF Apply
      <4>. QED  BY <2>2, <4>1, <4>2 DEF Operation!Decline
    <3>2. CASE ~Repeated(Request)  BY <1>6, <3>2, ApplyTakes
    <3>. QED  BY <3>1, <3>2
  <2>. QED  BY <2>1, <2>3, AnsweredOnce DEF Operation!Next
<1>7. ASSUME NEW ok \in BOOLEAN, Reread(ok) PROVE Step
  <2>1. op.pc = "reread" /\ UNCHANGED <<job, effective>>  BY <1>7 DEF Reread
  <2>2. CASE ~ok  BY <1>1, <1>7, <2>1, <2>2 DEF Reread
  <2>3. CASE ok
    <3>1. op'.pc = "resume" /\ op'.answer = op.answer /\ op'.kind = op.kind
          /\ op'.token = op.token /\ op'.sampled = op.sampled
      BY <1>7, <2>3 DEF Reread, TypeOK, Op
    <3>. QED  BY <1>3, <2>1, <3>1
  <2>. QED  BY <2>2, <2>3
<1>8. ASSUME NEW r \in Refusals, Refuse(r) PROVE Step
  <2>1. op.pc = "mutate" /\ UNCHANGED <<job, effective>> /\ Refused(r)  BY <1>8 DEF Refuse
  <2>2. CASE Answered(r)  BY <1>1, <2>1, <2>2 DEF Refused
  <2>3. CASE op' = [op EXCEPT !.pc = "reread"]
    <3>1. op'.pc = "reread" /\ op'.answer = op.answer /\ op'.kind = op.kind
          /\ op'.token = op.token /\ op'.sampled = op.sampled
      BY <2>3 DEF TypeOK, Op
    <3>. QED  BY <1>3, <2>1, <3>1
  <2>. QED  BY <1>8, <2>2, <2>3 DEF Refuse
<1>9. CASE Lose  BY <1>1, <1>9 DEF Lose
<1>10. CASE Resume
  <2>1. op.pc = "resume" /\ UNCHANGED <<job, effective>>  BY <1>10 DEF Resume
  <2>2. op.now \in Int /\ op.now < job.updated
    BY <2>1 DEF StaleInv, TypeOK, Op, Times
  <2>3. CASE Answered("clock")  BY <1>1, <2>1, <2>2, <2>3 DEF Refusals
  <2>4. CASE op' = [op EXCEPT !.pc = "mutate", !.now = Fresh, !.refresh = @ + 1,
                             !.prepared = clock]
    <3>1. op'.pc = "mutate" /\ op'.answer = op.answer /\ op'.kind = op.kind
          /\ op'.token = op.token /\ op'.sampled = op.sampled
      BY <2>4 DEF TypeOK, Op
    <3>. QED  BY <1>3, <2>1, <3>1
  <2>. QED  BY <1>10, <2>3, <2>4 DEF Resume
<1>11. CASE Others  BY <1>11, ElsewhereKeeps DEF Operation!Next
<1>12. CASE UNCHANGED vars  BY <1>2, <1>12 DEF vars, Asked, Asking
<1>. QED
  BY <1>4, <1>5, <1>6, <1>7, <1>8, <1>9, <1>10, <1>11, <1>12 DEF Next, Proceed

(* However often it is overtaken and sent again, an operation has its      *)
(* effect at most once, in the step that answers it; what is refused had a *)
(* reason and no effect.                                                   *)
THEOREM AtomicOperationRefined == Spec => AtomicOperationSpec
<1>1. Init => UnmovedInv  BY DEF Init, UnmovedInv
<1>2. Init => Operation!Init  BY DEF Init, Operation!Init
<1>3. IInv /\ UnmovedInv /\ [Next]_vars => UnmovedInv'  BY NextUnmoved
<1>4. IInv /\ UnmovedInv /\ [Next]_vars => [Operation!Next]_Operation!vars
  BY StepTaken
<1>. QED
  BY <1>1, <1>2, <1>3, <1>4, Invariant, PTL DEF Spec, AtomicOperationSpec, Operation!Spec

-----------------------------------------------------------------------------
(* ControlledSweep.                                                        *)

(* Where the sweep is: in the list while it visits a queue, behind it in   *)
(* the native sweep, which only runs with something left of the limit.     *)
VisitInv ==
  /\ pc = "recover" => at <= Len(Registered)
  /\ pc = "sweep" => at = Len(Registered) + 1 /\ Left # 0

(* What a visit has achieved: the queue is left to the native sweep, or it *)
(* has no stalled job any more, or nothing is left of the limit.           *)
CoveredInv ==
  pc \in {"policy", "recover", "sweep"} =>
    \A i \in 1..(at - 1) :
      Registered[i] \in plain \/ stalled[Registered[i]] = 0 \/ Left = 0

SweepIInv == SweepTypeOK /\ VisitInv /\ CoveredInv /\ LimitSpent

-----------------------------------------------------------------------------
(* Facts about the list of the visit and the counts.                       *)

(* The visit is at one of the registered queues, or behind the last one.   *)
LEMMA RegisteredQueue ==
  ASSUME NEW i \in 1..Len(Registered)
  PROVE  Registered[i] \in Queues /\ Registered[i] \in Range(Registered)
<1>1. Registered \in Seq(Queues)  BY SweepAssumption
<1>. QED  BY <1>1 DEF Range

(* Every registered queue has its place in the list.                       *)
LEMMA RegisteredAt ==
  ASSUME NEW q \in Range(Registered)
  PROVE  q \in Queues /\ \E i \in 1..Len(Registered) : Registered[i] = q
<1>1. Registered \in Seq(Queues)  BY SweepAssumption
<1>2. DOMAIN Registered = 1..Len(Registered)  BY <1>1
<1>. QED  BY <1>1, <1>2, RegisteredQueue DEF Range

(* There are finitely many registered queues.                              *)
LEMMA Lengths == Len(Registered) \in Nat
<1>1. Registered \in Seq(Queues)  BY SweepAssumption
<1>. QED  BY <1>1

(* What is left of the limit.                                              *)
LEMMA LimitLeft ==
  ASSUME SweepTypeOK
  PROVE  /\ limit \in Nat /\ recovered \in 0..limit
         /\ Left = limit - recovered /\ Left \in 0..limit
         /\ Left = 0 <=> recovered = limit
<1>1. limit \in Nat  BY SweepAssumption DEF SweepTypeOK
<1>2. recovered \in 0..limit  BY DEF SweepTypeOK
<1>. QED  BY <1>1, <1>2 DEF Left

(* What is left of the limit is a number, and a fenced recovery takes no   *)
(* more than that, nor more than the queue has; if it takes less than is   *)
(* left, it takes them all.                                                *)
LEMMA FencedCount ==
  ASSUME SweepTypeOK, NEW q \in Queues
  PROVE  /\ Left \in Nat /\ Fenced(q) \in Nat
         /\ Fenced(q) <= Left /\ Fenced(q) <= stalled[q]
         /\ Fenced(q) = Left \/ Fenced(q) = stalled[q]
<1>1. limit \in Nat /\ recovered \in 0..limit /\ stalled[q] \in Nat
  BY SweepAssumption DEF SweepTypeOK
<1>. QED  BY <1>1 DEF Left, Fenced, Least

(* A queue that was covered stays so while the counts only fall.           *)
LEMMA Falling ==
  ASSUME SweepTypeOK, SweepTypeOK', CoveredInv, plain \subseteq plain', limit' = limit,
         recovered <= recovered', NEW last \in Int, last <= at - 1,
         \A q \in Queues : stalled'[q] <= stalled[q],
         pc \in {"policy", "recover", "sweep"}
  PROVE  \A i \in 1..last :
           Registered[i] \in plain' \/ stalled'[Registered[i]] = 0 \/ Left' = 0
<1>1. SUFFICES ASSUME NEW i \in 1..last
               PROVE  Registered[i] \in plain' \/ stalled'[Registered[i]] = 0 \/ Left' = 0
  OBVIOUS
<1>2. i \in 1..(at - 1) /\ i \in 1..Len(Registered)
  BY Lengths DEF SweepTypeOK
<1>3. Registered[i] \in Queues  BY <1>2, RegisteredQueue
<1>4. CASE Registered[i] \in plain  BY <1>4
<1>5. CASE stalled[Registered[i]] = 0
  BY <1>3, <1>5, SweepAssumption DEF SweepTypeOK
<1>6. CASE Left = 0
  <2>1. /\ limit \in Nat /\ recovered \in 0..limit /\ recovered' \in 0..limit
        /\ recovered = limit
    BY <1>6, LimitLeft DEF SweepTypeOK
  <2>2. recovered' = limit  BY <2>1
  <2>3. limit' - recovered' = 0  BY <2>1, <2>2
  <2>. QED  BY <2>3 DEF Left
<1>. QED  BY <1>2, <1>4, <1>5, <1>6 DEF CoveredInv

-----------------------------------------------------------------------------
(* The invariant holds before any call.                                    *)
THEOREM InitSweepIInv == SweepInit => SweepIInv
<1>1. SUFFICES ASSUME SweepInit PROVE SweepIInv  OBVIOUS
<1>2. limit \in Nat \ {0} /\ recovered = 0 /\ at = 1
  BY <1>1, SweepAssumption DEF SweepInit
<1>3. policies \in [Queues -> Policy]
  BY <1>1 DEF SweepInit
<1>4. SweepTypeOK
  BY <1>1, <1>2, <1>3, Lengths, SweepAssumption DEF SweepInit, SweepTypeOK
<1>5. VisitInv
  <2>1. Registered = <<>> => Len(Registered) = 0  OBVIOUS
  <2>. QED  BY <1>1, <1>2, <2>1 DEF SweepInit, VisitInv, Left
<1>6. CoveredInv
  BY <1>2 DEF CoveredInv
<1>7. LimitSpent
  BY <1>1, <1>2 DEF SweepInit, LimitSpent
<1>. QED  BY <1>4, <1>5, <1>6, <1>7 DEF SweepIInv

(* A visit reads the queue's policy, or it is not to be read.              *)
LEMMA VisitNextStep ==
  ASSUME SweepIInv, NEW ok \in BOOLEAN, VisitNext(ok)
  PROVE  SweepIInv'
<1>. USE DEF SweepIInv
<1> DEFINE q == Registered[at]
<1>1. at \in 1..Len(Registered) /\ q \in Queues /\ q \in Range(Registered)
  <2>1. at \in 1..Len(Registered)  BY Lengths DEF SweepTypeOK, VisitNext
  <2>. QED  BY <2>1, RegisteredQueue
<1>2. policies[q].revision \in 1..MaxRevisions /\ policies[q].enabled \in BOOLEAN
  BY <1>1 DEF SweepTypeOK, Policy
<1>3. UNCHANGED <<policies, stalled, limit, recovered>> /\ Left' = Left /\ pc = "policy"
  BY DEF VisitNext, Left
<1>4. CASE ok /\ ~policies[q].enabled
  <2>1. plain' = plain \cup {q} /\ at' = at + 1 /\ pc' = pc /\ revision' = revision
    BY <1>4 DEF VisitNext, Visit
  <2>2. SweepTypeOK'
    BY <1>1, <1>3, <2>1, Lengths DEF SweepTypeOK
  <2>3. VisitInv'
    BY <1>3, <2>1 DEF VisitInv
  <2>4. CoveredInv'
    <3>1. \A i \in 1..(at - 1) :
            Registered[i] \in plain' \/ stalled'[Registered[i]] = 0 \/ Left' = 0
      BY <1>3, <2>1 DEF CoveredInv
    <3>2. Registered[at] \in plain'  BY <2>1
    <3>. QED  BY <1>1, <2>1, <3>1, <3>2 DEF CoveredInv
  <2>5. LimitSpent'
    BY <1>3, <2>1 DEF LimitSpent
  <2>. QED  BY <2>2, <2>3, <2>4, <2>5
<1>5. CASE ok /\ policies[q].enabled
  <2>1. /\ pc' = IF Left = 0 THEN "recovered" ELSE "recover"
        /\ revision' = policies[q].revision /\ plain' = plain /\ at' = at
    BY <1>5 DEF VisitNext, Visit
  <2>2. SweepTypeOK'
    BY <1>1, <1>2, <1>3, <2>1 DEF SweepTypeOK
  <2>3. VisitInv'
    BY <1>1, <1>3, <2>1 DEF VisitInv
  <2>4. CoveredInv'
    BY <1>3, <2>1 DEF CoveredInv
  <2>5. LimitSpent'
    <3>1. Left = 0 => recovered = limit
      BY SweepAssumption DEF SweepTypeOK, Left
    <3>2. limit \in Nat  BY SweepAssumption DEF SweepTypeOK
    <3>. QED  BY <1>3, <2>1, <3>1, <3>2 DEF LimitSpent
  <2>. QED  BY <2>2, <2>3, <2>4, <2>5
<1>6. CASE ~ok
  <2>1. pc' = "failed" /\ UNCHANGED <<plain, at, revision>>
    BY <1>6 DEF VisitNext
  <2>. QED
    BY <1>3, <2>1 DEF SweepTypeOK, VisitInv, CoveredInv, LimitSpent
<1>. QED  BY <1>2, <1>4, <1>5, <1>6

(* A fenced recovery empties the queue or spends the limit, or fails.      *)
LEMMA RecoverStep ==
  ASSUME SweepIInv, NEW answered \in BOOLEAN, Recover(answered)
  PROVE  SweepIInv'
<1>. USE DEF SweepIInv
<1> DEFINE q == Registered[at]
           current == policies[q] = [enabled |-> TRUE, revision |-> revision]
<1>1. at \in 1..Len(Registered) /\ q \in Queues
  <2>1. at \in 1..Len(Registered)  BY Lengths DEF SweepTypeOK, VisitInv, Recover
  <2>. QED  BY <2>1, RegisteredQueue
<1>2. UNCHANGED <<policies, limit, revision, plain>> /\ pc = "recover"
  BY DEF Recover
<1>3. /\ stalled' \in [Queues -> 0..MaxStalled] /\ recovered' \in 0..limit
      /\ recovered <= recovered' /\ \A r \in Queues : stalled'[r] <= stalled[r]
      /\ current => stalled'[q] = 0 \/ recovered' = limit
  <2>1. CASE current
    <3>1. stalled' = [stalled EXCEPT ![q] = @ - Fenced(q)] /\ recovered' = recovered + Fenced(q)
      BY <2>1 DEF Recover
    <3>2. /\ Fenced(q) \in Nat /\ Fenced(q) <= Left /\ Fenced(q) <= stalled[q]
          /\ Fenced(q) = Left \/ Fenced(q) = stalled[q]
      BY <1>1, FencedCount
    <3>3. limit \in Nat /\ recovered \in 0..limit /\ Left = limit - recovered
      BY SweepAssumption DEF SweepTypeOK, Left
    <3>4. stalled[q] \in 0..MaxStalled /\ stalled \in [Queues -> 0..MaxStalled]
      BY <1>1 DEF SweepTypeOK
    <3>5. recovered' \in 0..limit /\ recovered <= recovered'
      BY <3>1, <3>2, <3>3
    <3>6. stalled[q] - Fenced(q) \in 0..MaxStalled /\ stalled[q] - Fenced(q) <= stalled[q]
      BY <3>2, <3>4, SweepAssumption
    <3>7. \A r \in Queues : stalled'[r] = IF r = q THEN stalled[q] - Fenced(q) ELSE stalled[r]
      BY <3>1, <3>4
    <3>8. stalled' \in [Queues -> 0..MaxStalled]
      BY <3>1, <3>4, <3>6
    <3>9. \A r \in Queues : stalled'[r] <= stalled[r]
      BY <3>4, <3>6, <3>7, SweepAssumption
    <3>10. stalled'[q] = 0 \/ recovered' = limit
      BY <1>1, <3>1, <3>2, <3>3, <3>4, <3>7
    <3>. QED  BY <3>5, <3>8, <3>9, <3>10
  <2>2. CASE ~current
    <3>1. UNCHANGED <<stalled, recovered>>  BY <2>2 DEF Recover
    <3>. QED  BY <2>2, <3>1, SweepAssumption DEF SweepTypeOK
  <2>. QED  BY <2>1, <2>2
<1>4. CASE current /\ answered
  <2>1. pc' = "policy" /\ at' = at + 1  BY <1>4 DEF Recover
  <2>2. SweepTypeOK'
    BY <1>1, <1>2, <1>3, <2>1, Lengths DEF SweepTypeOK
  <2>3. CoveredInv'
    <3>1. \A i \in 1..(at - 1) :
            Registered[i] \in plain' \/ stalled'[Registered[i]] = 0 \/ Left' = 0
      BY <1>1, <1>2, <1>3, <2>2, Falling
    <3>2. stalled'[q] = 0 \/ Left' = 0
      <4>1. limit \in Nat /\ limit' = limit  BY <1>2, LimitLeft
      <4>2. recovered' = limit => limit' - recovered' = 0  BY <4>1
      <4>. QED  BY <1>3, <1>4, <4>2 DEF Left
    <3>. QED  BY <1>1, <2>1, <3>1, <3>2 DEF CoveredInv
  <2>. QED
    BY <1>2, <1>3, <2>1, <2>2, <2>3, SweepAssumption DEF SweepTypeOK, VisitInv, LimitSpent
<1>5. CASE ~(current /\ answered)
  <2>1. pc' = "failed" /\ at' = at  BY <1>5 DEF Recover
  <2>2. SweepTypeOK'
    BY <1>2, <1>3, <2>1 DEF SweepTypeOK
  <2>. QED
    BY <1>2, <1>3, <2>1, <2>2, SweepAssumption DEF SweepTypeOK, VisitInv, CoveredInv, LimitSpent
<1>. QED  BY <1>4, <1>5

(* When every queue was visited, nothing is stalled, or it is for the      *)
(* native sweep, or the limit is spent.                                    *)
LEMMA VisitedStep ==
  ASSUME SweepIInv, Visited
  PROVE  SweepIInv'
<1>. USE DEF SweepIInv
<1>1. UNCHANGED <<policies, stalled, limit, at, revision, plain, recovered>> /\ pc = "policy"
  BY DEF Visited
<1>2. at = Len(Registered) + 1
  BY Lengths DEF SweepTypeOK, Visited
<1>3. pc' = IF plain # {} /\ Left # 0 THEN "sweep" ELSE "recovered"
  BY DEF Visited
<1>4. SweepTypeOK'
  BY <1>1, <1>3 DEF SweepTypeOK
<1>5. VisitInv'
  BY <1>1, <1>2, <1>3 DEF VisitInv, Left
<1>6. CoveredInv'
  BY <1>1, <1>3 DEF CoveredInv, Left
<1>7. LimitSpent'
  <2>1. SUFFICES ASSUME pc' = "recovered", recovered' < limit', NEW q \in Range(Registered)
                 PROVE  stalled'[q] = 0
    BY <1>1 DEF LimitSpent
  <2>2. Left # 0
    BY <1>1, <2>1, SweepAssumption DEF SweepTypeOK, Left
  <2>3. plain = {}
    BY <1>3, <2>1, <2>2
  <2>4. PICK i \in 1..Len(Registered) : Registered[i] = q
    BY RegisteredAt
  <2>5. i \in 1..(at - 1)
    BY <1>2, Lengths
  <2>6. stalled[q] = 0
    BY <1>1, <2>2, <2>3, <2>4, <2>5 DEF CoveredInv
  <2>. QED  BY <1>1, <2>6
<1>. QED  BY <1>4, <1>5, <1>6, <1>7

(* What the native sweep takes of each queue and altogether.               *)
LEMMA SweptCounts ==
  ASSUME SweepIInv, NEW taken \in [Queues -> 0..MaxStalled], NEW answered, Sweep(answered, taken)
  PROVE  /\ stalled' \in [Queues -> 0..MaxStalled] /\ recovered' \in 0..limit
         /\ recovered <= recovered'
         /\ \A q \in Queues : stalled'[q] = stalled[q] - taken[q] /\ stalled'[q] <= stalled[q]
         /\ recovered' < limit => \A q \in Queues : stalled'[q] = 0
<1>1. /\ Total(taken) \in 0..Left
      /\ Total(taken) = Left \/ taken = stalled
      /\ recovered' = recovered + Total(taken)
      /\ stalled' = [q \in Queues |-> stalled[q] - taken[q]]
  BY DEF Sweep, Swept
<1>2. limit \in Nat /\ recovered \in 0..limit /\ Left = limit - recovered
  BY SweepAssumption DEF SweepIInv, SweepTypeOK, Left
<1>3. recovered' \in 0..limit /\ recovered <= recovered'
  <2>1. PICK n \in 0..Left : recovered' = recovered + n
    BY <1>1
  <2>. QED  BY <1>2, <2>1
<1>4. \A q \in Queues : /\ stalled[q] \in 0..MaxStalled /\ taken[q] \in 0..MaxStalled
                        /\ taken[q] <= stalled[q]
  BY DEF SweepIInv, SweepTypeOK, Sweep, Swept
<1>5. \A q \in Queues : /\ stalled'[q] = stalled[q] - taken[q] /\ stalled'[q] <= stalled[q]
                        /\ stalled'[q] \in 0..MaxStalled
  BY <1>1, <1>4, SweepAssumption
<1>6. recovered' < limit => taken = stalled
  BY <1>1, <1>2
<1>7. taken = stalled => \A q \in Queues : stalled'[q] = 0
  BY <1>4, <1>5
<1>. QED  BY <1>1, <1>3, <1>5, <1>6, <1>7

(* The native sweep spends what is left or takes every job there is.       *)
LEMMA SweepStep ==
  ASSUME SweepIInv, NEW answered \in BOOLEAN, NEW taken \in [Queues -> 0..MaxStalled],
         Sweep(answered, taken)
  PROVE  SweepIInv'
<1>1. /\ UNCHANGED <<policies, limit, at, revision, plain>>
      /\ pc' = IF answered THEN "recovered" ELSE "failed"
  BY DEF Sweep
<1>2. /\ stalled' \in [Queues -> 0..MaxStalled] /\ recovered' \in 0..limit
      /\ recovered' < limit => \A q \in Queues : stalled'[q] = 0
  BY SweptCounts
<1>3. SweepTypeOK'
  BY <1>1, <1>2 DEF SweepIInv, SweepTypeOK
<1>4. VisitInv' /\ CoveredInv'
  BY <1>1 DEF VisitInv, CoveredInv
<1>5. LimitSpent'
  <2>1. recovered' <= limit'
    BY <1>1, <1>2, SweepAssumption DEF SweepIInv, SweepTypeOK
  <2>2. recovered' < limit' => \A q \in Range(Registered) : stalled'[q] = 0
    BY <1>1, <1>2, RegisteredAt
  <2>. QED  BY <2>1, <2>2 DEF LimitSpent
<1>. QED  BY <1>3, <1>4, <1>5 DEF SweepIInv

(* A call that the store did not reach changes nothing there.              *)
LEMMA UnreachedStep ==
  ASSUME SweepIInv, Unreached
  PROVE  SweepIInv'
BY DEF SweepIInv, Unreached, SweepTypeOK, VisitInv, CoveredInv, LimitSpent

(* A deployment changes a policy, which the invariant does not speak of.   *)
LEMMA RedeployStep ==
  ASSUME SweepIInv, NEW q \in Queues, NEW enabled \in BOOLEAN, Redeploy(q, enabled)
  PROVE  SweepIInv'
<1>1. UNCHANGED <<stalled, limit, pc, at, revision, plain, recovered>>
  BY DEF Redeploy
<1>2. policies[q].revision + 1 \in 1..MaxRevisions
  BY SweepAssumption DEF SweepIInv, SweepTypeOK, Policy, Redeploy
<1>3. policies' \in [Queues -> Policy]
  BY <1>2 DEF SweepIInv, SweepTypeOK, Policy, Redeploy
<1>. QED
  BY <1>1, <1>3 DEF SweepIInv, SweepTypeOK, VisitInv, CoveredInv, LimitSpent, Left

(* Another process only makes the stalled jobs fewer.                      *)
LEMMA TakenElsewhereStep ==
  ASSUME SweepIInv, NEW q \in Queues, TakenElsewhere(q)
  PROVE  SweepIInv'
<1>1. UNCHANGED <<policies, limit, pc, at, revision, plain, recovered>>
  BY DEF TakenElsewhere
<1>2. \A r \in Queues : stalled[r] \in 0..MaxStalled
  BY DEF SweepIInv, SweepTypeOK
<1>3. stalled' = [stalled EXCEPT ![q] = @ - 1] /\ stalled[q] > 0
  BY DEF TakenElsewhere
<1>4. \A r \in Queues : stalled'[r] = IF r = q THEN stalled[q] - 1 ELSE stalled[r]
  BY <1>3 DEF SweepIInv, SweepTypeOK
<1>5. \A r \in Queues : stalled'[r] \in 0..MaxStalled /\ stalled'[r] <= stalled[r]
  BY <1>2, <1>3, <1>4, SweepAssumption
<1>6. stalled' \in [Queues -> 0..MaxStalled]
  BY <1>3, <1>4, <1>5 DEF SweepIInv, SweepTypeOK
<1>7. \A r \in Queues : stalled[r] = 0 => stalled'[r] = 0
  BY <1>2, <1>5, SweepAssumption
<1>8. SweepTypeOK'
  BY <1>1, <1>6 DEF SweepIInv, SweepTypeOK
<1>9. VisitInv' /\ Left' = Left
  BY <1>1 DEF SweepIInv, VisitInv, Left
<1>10. CoveredInv'
  <2>1. pc \in {"policy", "recover", "sweep"} =>
          \A i \in 1..(at - 1) :
            Registered[i] \in plain' \/ stalled'[Registered[i]] = 0 \/ Left' = 0
    <3>1. at - 1 \in Int /\ at - 1 <= at - 1 /\ recovered <= recovered'
      BY <1>1, Lengths, SweepAssumption DEF SweepIInv, SweepTypeOK
    <3>. QED  BY <1>1, <1>5, <1>8, <3>1, Falling DEF SweepIInv
  <2>. QED  BY <1>1, <2>1 DEF CoveredInv
<1>11. LimitSpent'
  BY <1>1, <1>7, RegisteredAt DEF SweepIInv, LimitSpent
<1>. QED  BY <1>8, <1>9, <1>10, <1>11 DEF SweepIInv

(* Every step keeps the invariant.                                         *)
THEOREM StepSweepIInv == SweepIInv /\ [SweepNext]_sweepVars => SweepIInv'
<1>1. SUFFICES ASSUME SweepIInv, [SweepNext]_sweepVars PROVE SweepIInv'  OBVIOUS
<1>2. CASE \E ok \in BOOLEAN : VisitNext(ok) \/ Recover(ok)
  BY <1>1, <1>2, VisitNextStep, RecoverStep
<1>3. CASE \E ok \in BOOLEAN, taken \in [Queues -> 0..MaxStalled] : Sweep(ok, taken)
  BY <1>1, <1>3, SweepStep
<1>4. CASE Visited \/ Unreached
  BY <1>1, <1>4, VisitedStep, UnreachedStep
<1>5. CASE \E q \in Queues : TakenElsewhere(q) \/ \E enabled \in BOOLEAN : Redeploy(q, enabled)
  BY <1>1, <1>5, TakenElsewhereStep, RedeployStep
<1>6. CASE UNCHANGED sweepVars
  BY <1>1, <1>6 DEF SweepIInv, sweepVars, SweepTypeOK, VisitInv, CoveredInv, LimitSpent, Left
<1>. QED  BY <1>1, <1>2, <1>3, <1>4, <1>5, <1>6 DEF SweepNext

(* In every reachable state the sweep has its types, what it visited is    *)
(* covered, and its answer is true.                                        *)
THEOREM SweepInvariant == SweepSpec => []SweepIInv
BY InitSweepIInv, StepSweepIInv, PTL DEF SweepSpec

-----------------------------------------------------------------------------
(* recoverStalled of the operation view never recovers more than its       *)
(* limit, and when it answers fewer, no registered queue has a stalled     *)
(* job.                                                                    *)
THEOREM LimitSpentCorrect == SweepSpec => []LimitSpent
<1>1. SweepIInv => LimitSpent  BY DEF SweepIInv
<1>. QED  BY <1>1, SweepInvariant, PTL

(* The native sweep takes no job of a registered queue that it found       *)
(* controlled: the fenced recovery left none, or the limit was spent.      *)
THEOREM FencedBeforeSweepCorrect == SweepSpec => FencedBeforeSweep
<1>1. ASSUME SweepIInv, [SweepNext]_sweepVars, pc = "sweep", recovered' # recovered,
             NEW q \in Range(Registered), stalled'[q] # stalled[q]
      PROVE  q \in plain
  <2>1. PICK i \in 1..Len(Registered) : Registered[i] = q
    BY RegisteredAt
  <2>2. q \in Queues /\ i \in 1..(at - 1) /\ Left # 0
    BY <1>1, <2>1, RegisteredAt, Lengths DEF SweepIInv, VisitInv
  <2>3. q \in plain \/ stalled[q] = 0
    BY <1>1, <2>1, <2>2 DEF SweepIInv, CoveredInv
  <2>4. PICK answered \in BOOLEAN, taken \in [Queues -> 0..MaxStalled] : Sweep(answered, taken)
    BY <1>1 DEF SweepNext, sweepVars, VisitNext, Recover, Visited, Unreached, TakenElsewhere, Redeploy
  <2>5. stalled'[q] = stalled[q] - taken[q] /\ taken[q] <= stalled[q]
    BY <1>1, <2>2, <2>4, SweptCounts DEF Sweep, Swept
  <2>6. stalled[q] # 0
    BY <1>1, <2>2, <2>4, <2>5, SweepAssumption
  <2>. QED  BY <2>3, <2>6
<1>2. SweepIInv /\ [SweepNext]_sweepVars =>
        [pc = "sweep" /\ recovered' # recovered =>
           \A q \in Range(Registered) : stalled'[q] # stalled[q] => q \in plain]_sweepVars
  BY <1>1
<1>. QED  BY <1>2, SweepInvariant, PTL DEF SweepSpec, FencedBeforeSweep
=============================================================================
