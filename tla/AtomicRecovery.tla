--------------------------- MODULE AtomicRecovery ---------------------------
(***************************************************************************)
(* What MqOutboxService.retryFailed promises its callers: each call is at  *)
(* most one compare-and-set of the failed version its operator inspected,  *)
(* from there it grants its budget on top of the attempts made.  A refused *)
(* call takes no effect, then or later; only an uncertain one may.         *)
(***************************************************************************)
EXTENDS Integers

CONSTANTS Calls, Budgets

VARIABLES
  record,    \* the durable record
  version,   \* the version each call was decided on
  budget,    \* the attempts it grants
  granted,   \* calls that took effect
  told       \* "idle", "asked", or the answer of each call

vars == <<record, version, budget, granted, told>>

VersionOf(r) == [updated |-> r.updated, made |-> r.made, max |-> r.max]

Init ==
  /\ record = [state |-> "failed", updated |-> 0, made |-> 1, max |-> 1,
               content |-> "original"]
  /\ version = [c \in Calls |-> VersionOf(record)]
  /\ budget = [c \in Calls |-> 0]
  /\ granted = {}
  /\ told = [c \in Calls |-> "idle"]

Inspect(c) ==
  /\ told[c] = "idle" /\ record.state = "failed"
  /\ version' = [version EXCEPT ![c] = VersionOf(record)]
  /\ \E n \in Budgets : budget' = [budget EXCEPT ![c] = n]
  /\ told' = [told EXCEPT ![c] = "asked"]
  /\ UNCHANGED <<record, granted>>

(* The effect, which may come after an uncertain answer.                   *)
Requeue(c) ==
  /\ c \notin granted /\ granted' = granted \cup {c}
  /\ record.state = "failed" /\ VersionOf(record) = version[c]
  /\ record.updated < record'.updated
  /\ record' = [record EXCEPT !.state = "pending", !.max = record.made + budget[c],
                              !.updated = record'.updated]
  /\ \/ told[c] = "uncertain" /\ UNCHANGED told
     \/ \E a \in {"requeued", "uncertain"} : told[c] = "asked" /\ told' = [told EXCEPT ![c] = a]
  /\ UNCHANGED <<version, budget>>

Decline(c) ==
  /\ told[c] = "asked"
  /\ \E a \in {"refused", "conflict", "unavailable", "uncertain"} :
       told' = [told EXCEPT ![c] = a]
  /\ UNCHANGED <<record, version, budget, granted>>

(* Publishers use up what was granted and never revive what has ended.     *)
Elsewhere ==
  /\ record'.made \in record.made..record.max /\ record'.max = record.max
  /\ record.state \in {"failed", "published"} =>
       record'.state = record.state /\ record'.made = record.made
  /\ UNCHANGED <<version, budget, granted, told>>

Next == (\E c \in Calls : Inspect(c) \/ Requeue(c) \/ Decline(c)) \/ Elsewhere

Spec == Init /\ [][Next]_vars
=============================================================================
