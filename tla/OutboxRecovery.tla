--------------------------- MODULE OutboxRecovery ---------------------------
(***************************************************************************)
(* Administrative recovery of one failed publication: concurrent calls of  *)
(* MqOutboxService.retryFailed, the OutboxRetryAdapter that tracks their   *)
(* writes until the store is disposed, and the durable record, which the   *)
(* publisher and other applications also change.  A write travels to the   *)
(* database and back; its answer may be lost while it is still applied.    *)
(***************************************************************************)
EXTENDS Integers

CONSTANTS
  Calls,       \* calls of retryFailed
  Budgets,     \* attempts a call may grant
  MaxTime,     \* the largest timestamp, as Number.MAX_SAFE_INTEGER is
  MaxAttempts  \* the largest attempts counter

ASSUME RecoveryAssumption ==
  /\ MaxTime \in Nat \ {0}
  /\ MaxAttempts \in Nat \ {0}
  /\ Budgets \subseteq Nat \ {0}

VARIABLES
  record,      \* the durable record
  pc,          \* the await of each call, or its answer
  expected,    \* the version its operator inspected
  budget,      \* the attempts it grants
  read,        \* the record it read
  next,        \* the record it writes
  wire,        \* calls whose UPDATE the database may still execute
  applied,     \* calls whose UPDATE changed the record
  session,     \* "ready", then "stopping": no call is admitted
  adapter,     \* "open" or "closed"
  store        \* "open" or "disposed"

callVars == <<pc, expected, budget, read, next>>
lifeVars == <<session, adapter, store>>
vars == <<record, callVars, wire, applied, lifeVars>>

Times == 0..MaxTime
Counts == 0..MaxAttempts
Version == [updated : Times, made : Counts, max : Counts]
Record == [state : {"pending", "active", "failed", "published"},
           updated : Times, made : Counts, max : Counts,
           content : {"original", "edited"}]
Refusals == {"refused", "conflict", "unavailable"}
Answers == {"requeued", "uncertain"} \cup Refusals

TypeOK ==
  /\ record \in Record
  /\ pc \in [Calls -> {"idle", "inspected", "reading", "validating", "admitted",
                       "writing"} \cup Answers]
  /\ expected \in [Calls -> Version]
  /\ budget \in [Calls -> Nat]
  /\ read \in [Calls -> Record]
  /\ next \in [Calls -> Record]
  /\ wire \subseteq Calls
  /\ applied \subseteq Calls
  /\ session \in {"ready", "stopping"}
  /\ adapter \in {"open", "closed"}
  /\ store \in {"open", "disposed"}

VersionOf(r) == [updated |-> r.updated, made |-> r.made, max |-> r.max]

(* A publication that has just used its first attempt's budget.            *)
Failed == [state |-> "failed", updated |-> 0, made |-> 1, max |-> 1,
           content |-> "original"]

Init ==
  /\ record = Failed
  /\ pc = [c \in Calls |-> "idle"]
  /\ expected = [c \in Calls |-> VersionOf(Failed)]
  /\ budget = [c \in Calls |-> 0]
  /\ read = [c \in Calls |-> Failed]
  /\ next = [c \in Calls |-> Failed]
  /\ wire = {}
  /\ applied = {}
  /\ session = "ready"
  /\ adapter = "open"
  /\ store = "open"

-----------------------------------------------------------------------------
(* retryOutboxRecord.                                                      *)

Later(now, updated) == IF now > updated THEN now ELSE updated + 1

Requeueable(r, version, n, now) ==
  /\ r.state = "failed"
  /\ VersionOf(r) = version
  /\ Later(now, r.updated) <= MaxTime
  /\ r.made + n <= MaxAttempts

(* Fault: the budget replaces the lifetime count.                          *)
RequeuedAfresh(r, n, now) ==
  [r EXCEPT !.state = "pending", !.max = n, !.updated = Later(now, r.updated)]

(* The lifetime attempts stay; the budget is counted from them.            *)
Requeued(r, n, now) ==
  [r EXCEPT !.state = "pending", !.max = r.made + n, !.updated = Later(now, r.updated)]

-----------------------------------------------------------------------------
(* retryFailed, await by await.                                            *)

(* The operator looks at a failed publication and decides to grant n.      *)
Inspect(c, n) ==
  /\ pc[c] = "idle"
  /\ record.state = "failed"
  /\ pc' = [pc EXCEPT ![c] = "inspected"]
  /\ expected' = [expected EXCEPT ![c] = VersionOf(record)]
  /\ budget' = [budget EXCEPT ![c] = n]
  /\ UNCHANGED <<record, read, next, wire, applied, lifeVars>>

Call(c) ==
  /\ pc[c] = "inspected"
  /\ pc' = [pc EXCEPT ![c] = IF session = "ready" THEN "reading" ELSE "unavailable"]
  /\ UNCHANGED <<record, expected, budget, read, next, wire, applied, lifeVars>>

(* store.get, which may fail, then the guard and the bounds with this      *)
(* host's clock.                                                           *)
Read(c, ok, now) ==
  /\ pc[c] = "reading"
  /\ read' = [read EXCEPT ![c] = record]
  /\ pc' = [pc EXCEPT ![c] =
       IF ok /\ Requeueable(record, expected[c], budget[c], now) THEN "validating"
       ELSE IF ok /\ record.state = "failed" /\ VersionOf(record) # expected[c]
         THEN "conflict" ELSE "refused"]
  /\ UNCHANGED <<record, expected, budget, next, wire, applied, lifeVars>>

(* The request validated, or not; the clock is read again and the adapter, *)
(* which may have closed meanwhile, admits the write.                      *)
Validated(c, ok, now) ==
  /\ pc[c] = "validating"
  /\ IF ok /\ Requeueable(read[c], expected[c], budget[c], now)
       THEN /\ pc' = [pc EXCEPT ![c] = IF adapter = "open" THEN "admitted"
                                       ELSE "unavailable"]
            /\ next' = [next EXCEPT ![c] = Requeued(read[c], budget[c], now)]
       ELSE pc' = [pc EXCEPT ![c] = "refused"] /\ UNCHANGED next
  /\ UNCHANGED <<record, expected, budget, read, wire, applied, lifeVars>>

(* The admitted microtask sends the UPDATE.                                *)
Write(c) ==
  /\ pc[c] = "admitted"
  /\ pc' = [pc EXCEPT ![c] = "writing"]
  /\ wire' = wire \cup {c}
  /\ UNCHANGED <<record, expected, budget, read, next, applied, lifeVars>>

(* Fault: the UPDATE compares the state and the content only.              *)
StillFailed(c) == record.state = "failed" /\ record.content = read[c].content

(* Fault: the UPDATE compares the state and the version only.              *)
SameVersion(c) == record.state = "failed" /\ VersionOf(record) = VersionOf(read[c])

(* The condition of the UPDATE: the record is the one that was read.       *)
Unchanged(c) == record = read[c]

(* The database executes the UPDATE.  A call that still waits is told      *)
(* whether its row was returned, or the answer is lost.                    *)
Execute(c, answered) ==
  /\ c \in wire
  /\ wire' = wire \ {c}
  /\ record' = IF Unchanged(c)
                 THEN [record EXCEPT !.state = "pending", !.max = next[c].max,
                                     !.updated = next[c].updated]
                 ELSE record
  /\ applied' = IF Unchanged(c) THEN applied \cup {c} ELSE applied
  /\ pc' = [pc EXCEPT ![c] =
       IF @ # "writing" THEN @
       ELSE IF ~answered THEN "uncertain"
       ELSE IF Unchanged(c) THEN "requeued" ELSE "conflict"]
  /\ UNCHANGED <<expected, budget, read, next, lifeVars>>

(* Fault: an unanswered UPDATE is reported as a conflict.                  *)
GiveUpAsConflict(c, sent) ==
  /\ pc[c] = "writing"
  /\ pc' = [pc EXCEPT ![c] = "conflict"]
  /\ wire' = IF sent THEN wire ELSE wire \ {c}
  /\ UNCHANGED <<record, expected, budget, read, next, applied, lifeVars>>

(* The driver gives up first; the UPDATE may have been sent or not.        *)
GiveUp(c, sent) ==
  /\ pc[c] = "writing"
  /\ pc' = [pc EXCEPT ![c] = "uncertain"]
  /\ wire' = IF sent THEN wire ELSE wire \ {c}
  /\ UNCHANGED <<record, expected, budget, read, next, applied, lifeVars>>

-----------------------------------------------------------------------------
(* What else changes the record: publishers of any process, whose clocks   *)
(* are not synchronized, and SQL that edits it without a new version.      *)

Publish(state, claims, now) ==
  /\ record' = [record EXCEPT !.state = state, !.made = @ + claims, !.updated = now]
  /\ UNCHANGED <<callVars, wire, applied, lifeVars>>

(* A claim, also of an expired lease, uses one attempt.                    *)
Claim(now) ==
  /\ record.state \in {"pending", "active"}
  /\ record.made < record.max
  /\ Publish("active", 1, now)

Settle(now) ==
  /\ record.state = "active"
  /\ \/ Publish("published", 0, now)
     \/ Publish("failed", 0, now)
     \/ record.made < record.max /\ Publish("pending", 0, now)

Edit ==
  /\ record.content = "original"
  /\ record' = [record EXCEPT !.content = "edited"]
  /\ UNCHANGED <<callVars, wire, applied, lifeVars>>

-----------------------------------------------------------------------------
(* Closing the application.                                                *)

Stop ==
  /\ session = "ready"
  /\ session' = "stopping"
  /\ UNCHANGED <<record, callVars, wire, applied, adapter, store>>

(* The runtime's grace period is over, whether or not calls are left.      *)
CloseAdapter ==
  /\ session = "stopping"
  /\ adapter = "open"
  /\ adapter' = "closed"
  /\ UNCHANGED <<record, callVars, wire, applied, session, store>>

pending == {c \in Calls : pc[c] \in {"admitted", "writing"}}

(* Fault: the store is disposed without draining the adapter.              *)
DisposeUndrained ==
  /\ adapter = "closed"
  /\ store = "open"
  /\ store' = "disposed"
  /\ UNCHANGED <<record, callVars, wire, applied, session, adapter>>

(* Fault: the drain also waits for calls that never reached the adapter.   *)
DisposeAfterCalls ==
  /\ adapter = "closed"
  /\ store = "open"
  /\ pending = {}
  /\ \A c \in Calls : pc[c] \notin {"reading", "validating"}
  /\ store' = "disposed"
  /\ UNCHANGED <<record, callVars, wire, applied, session, adapter>>

Dispose ==
  /\ adapter = "closed"
  /\ store = "open"
  /\ pending = {}
  /\ store' = "disposed"
  /\ UNCHANGED <<record, callVars, wire, applied, session, adapter>>

-----------------------------------------------------------------------------
Retry(c) ==
  \/ (\E n \in Budgets : Inspect(c, n)) \/ Call(c) \/ Write(c)
  \/ \E ok \in BOOLEAN, now \in Times : Read(c, ok, now) \/ Validated(c, ok, now)
Database(c) == \E b \in BOOLEAN : Execute(c, b) \/ GiveUp(c, b)
Publisher == \E now \in Times : Claim(now) \/ Settle(now)

Next ==
  \/ \E c \in Calls : Retry(c) \/ Database(c)
  \/ Publisher \/ Edit
  \/ Stop \/ CloseAdapter \/ Dispose

Spec == Init /\ [][Next]_vars

(* Microtasks run, the driver answers or gives up, and the runtime's       *)
(* disposal reaches the store after its grace period.                      *)
Fairness ==
  /\ \A c \in Calls : WF_vars(Write(c)) /\ WF_vars(Database(c))
  /\ WF_vars(CloseAdapter)
  /\ WF_vars(Dispose)
FairSpec == Spec /\ Fairness

-----------------------------------------------------------------------------
(* Properties.                                                             *)

(* Of the calls that inspected the same failure of the publication, one at *)
(* most is applied, however late its UPDATE arrives and whatever was       *)
(* published, failed again or edited in between.                           *)
OneWinner ==
  \A c, d \in applied : c # d => expected[c].made # expected[d].made

(* A call is told it requeued the publication only if it did; one that is  *)
(* refused never did and never will.  Only a lost answer leaves it open.   *)
HonestAnswer ==
  \A c \in Calls :
    /\ pc[c] = "requeued" => c \in applied
    /\ pc[c] \in Refusals => c \notin applied \cup wire

(* What a successful recovery leaves is exactly the record its call        *)
(* validated: a publication, a failure or an edit in between, even one     *)
(* without a new version, is neither overwritten nor let through.          *)
ValidatedOnly == [][\A c \in applied' \ applied : record' = next[c]]_vars

(* Recovery and publication together never reset the lifetime attempts and *)
(* never make more of them than the last recovery granted.                 *)
AttemptsKept ==
  [][ /\ record'.made >= record.made
      /\ record'.made <= record'.max
      /\ record'.max # record.max => record.state = "failed" /\ record'.made < record'.max ]_vars

(* A recovery changes the publication exactly as it was validated, and     *)
(* grants attempts only to a failed one.                                   *)
RecoveryExact == ValidatedOnly /\ AttemptsKept

(* However long its reads, its validation and its UPDATE take, a call of   *)
(* retryFailed is one compare-and-set of the failure that was inspected.   *)
Recovery == INSTANCE AtomicRecovery WITH
  version <- expected,
  granted <- applied,
  told <- [c \in Calls |-> IF pc[c] \in Answers \cup {"idle"} THEN pc[c] ELSE "asked"]
AtomicRecoverySpec == Recovery!Spec

(* No write of this application is unsettled when its store is disposed,   *)
(* although calls may still be validating when the adapter closes.         *)
DrainedBeforeDispose == store = "disposed" => pending = {}

(* Closing ends: the drain waits only for writes that settle.              *)
DisposalCompletes == session = "stopping" ~> store = "disposed"
=============================================================================
