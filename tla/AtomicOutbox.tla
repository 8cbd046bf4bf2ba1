--------------------------- MODULE AtomicOutbox ---------------------------
(***************************************************************************)
(* What postgresOutbox(...).transaction promises its caller: the writes of *)
(* the callback and the outbox records become durable together or not at   *)
(* all, once, and only after the callback and every record succeeded.  A   *)
(* value is answered only for a durable transaction; an error is ambiguous *)
(* only when a COMMIT had been attempted.                                  *)
(***************************************************************************)

CONSTANTS
  ViewOps,     \* writes the business callback may make through its view
  Records      \* outbox records prepared from the entries given up front

VARIABLES
  decision,    \* "open", "attempted" (COMMIT sent) or "abandoned"
  accepted,    \* the callback's writes the attempted COMMIT covers
  durable,     \* writes that survive the transaction
  committed,   \* whether the server has committed
  outcome      \* what the caller was told: "none", "value" or "error"

vars == <<decision, accepted, durable, committed, outcome>>

Init ==
  /\ decision = "open"
  /\ accepted = {}
  /\ durable = {}
  /\ committed = FALSE
  /\ outcome = "none"

(* The callback and all records succeeded: the transaction may commit.     *)
Attempt ==
  /\ decision = "open"
  /\ decision' = "attempted"
  /\ \E W \in SUBSET ViewOps : accepted' = W
  /\ UNCHANGED <<durable, committed, outcome>>

(* Something failed first: the transaction never commits.                  *)
Abandon ==
  /\ decision = "open"
  /\ decision' = "abandoned"
  /\ UNCHANGED <<accepted, durable, committed, outcome>>

(* One atomic commit.  It may land after the caller was told of an error;  *)
(* a value is only answered with it.                                       *)
Commit ==
  /\ decision = "attempted"
  /\ ~committed
  /\ committed' = TRUE
  /\ durable' = accepted \cup Records
  /\ outcome' \in IF outcome = "none" THEN {"none", "value", "error"} ELSE {outcome}
  /\ UNCHANGED <<decision, accepted>>

AnswerError ==
  /\ outcome = "none"
  /\ outcome' = "error"
  /\ decision' = IF decision = "open" THEN "abandoned" ELSE decision
  /\ UNCHANGED <<accepted, durable, committed>>

Next == Attempt \/ Abandon \/ Commit \/ AnswerError

Spec == Init /\ [][Next]_vars
============================================================================
