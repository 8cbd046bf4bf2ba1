----------------------------- MODULE KyselyScope -----------------------------
(***************************************************************************)
(* kyselyOutbox(...).transaction: the callback of an OutboxTransaction is  *)
(* runKyselyOutbox, which gives the application's callback a Kysely view   *)
(* whose driver sends every statement through the outer transaction's      *)
(* view.  The driver admits, tracks and drains on its own, inside the      *)
(* outer scope that does the same.                                         *)
(***************************************************************************)
EXTENDS OutboxTransaction

VARIABLES
  body,      \* the application's callback: "running", "returned", "threw"
  admitting, \* ScopedDriver.accepting
  failed,    \* ScopedDriver.failure is set
  task       \* the driver's task of every view operation

kyselyVars == <<body, admitting, failed, task>>
kvars == <<vars, kyselyVars>>

(* The driver's pending tasks: not started, or waiting for the outer view. *)
Undone == {o \in ViewOps : task[o] \in {"admitted", "called"}}

KyselyTypeOK ==
  /\ TypeOK
  /\ body \in {"running", "returned", "threw"}
  /\ admitting \in BOOLEAN
  /\ failed \in BOOLEAN
  /\ task \in [ViewOps -> {"idle", "admitted", "called", "done", "failed", "rejected"}]

KyselyInit ==
  /\ Init
  /\ body = "running"
  /\ admitting = TRUE
  /\ failed = FALSE
  /\ task = [o \in ViewOps |-> "idle"]

-----------------------------------------------------------------------------
(* Fault: a finished driver still admits.                                  *)
ExecuteAlways(o) ==
  /\ callback # "pending"
  /\ task[o] = "idle"
  /\ task' = [task EXCEPT ![o] = "admitted"]
  /\ UNCHANGED <<vars, body, admitting, failed>>

(* executeQuery or append, by a builder that may have escaped.             *)
Execute(o) ==
  /\ callback # "pending"
  /\ task[o] = "idle"
  /\ task' = [task EXCEPT ![o] = IF admitting THEN "admitted" ELSE "rejected"]
  /\ UNCHANGED <<vars, body, admitting, failed>>

(* A nested transaction, a stream or a destruction is refused; it fails    *)
(* the callback even when that catches the refusal.                        *)
Misuse ==
  /\ callback # "pending"
  /\ failed' = (failed \/ admitting)
  /\ UNCHANGED <<vars, body, admitting, task>>

(* The admitted microtask calls the outer view.                            *)
Forward(o) ==
  /\ task[o] = "admitted"
  /\ Call(o)
  /\ task' = [task EXCEPT ![o] = "called"]
  /\ UNCHANGED <<body, admitting, failed>>

Answered(o) == op[o] \in {"done", "failed", "rejected"}

(* Fault: a task that fails is never taken off the pending ones.           *)
SettleDone(o) ==
  /\ task[o] = "called"
  /\ Answered(o)
  /\ task' = [task EXCEPT ![o] = IF op[o] = "done" THEN "done" ELSE @]
  /\ failed' = (failed \/ op[o] # "done")
  /\ UNCHANGED <<vars, body, admitting>>

(* The outer call settles, and with it the task.                           *)
Settle(o) ==
  /\ task[o] = "called"
  /\ Answered(o)
  /\ task' = [task EXCEPT ![o] = IF op[o] = "done" THEN "done" ELSE "failed"]
  /\ failed' = (failed \/ op[o] # "done")
  /\ UNCHANGED <<vars, body, admitting>>

(* The application's callback ends; finish() closes the driver.            *)
BodyEnds(how) ==
  /\ pc = "callback"
  /\ body = "running"
  /\ body' = how
  /\ admitting' = FALSE
  /\ failed' = (failed \/ how = "threw")
  /\ UNCHANGED <<vars, task>>

(* Fault: the driver's tasks are not drained.                              *)
FinishUndrained ==
  /\ body # "running"
  /\ IF failed THEN CallbackThrows ELSE CallbackReturns
  /\ UNCHANGED kyselyVars

(* Drained, runKyselyOutbox returns to the outer transaction.              *)
Finish ==
  /\ body # "running"
  /\ Undone = {}
  /\ IF failed THEN CallbackThrows ELSE CallbackReturns
  /\ UNCHANGED kyselyVars

(* The outer transaction but for its callback.                             *)
Outer ==
  \/ \E s \in Writes : Start(s) \/ Fail(s)
  \/ Advance \/ Rejected \/ Server \/ LoseConnection

Driver == \E o \in ViewOps : Forward(o) \/ Settle(o)
BodySettles == \E how \in {"returned", "threw"} : BodyEnds(how)

KyselyNext ==
  \/ \E o \in ViewOps : Execute(o)
  \/ Misuse
  \/ Driver \/ BodySettles \/ Finish
  \/ Outer /\ UNCHANGED kyselyVars

KyselySpec == KyselyInit /\ [][KyselyNext]_kvars

(* As in OutboxTransaction; the driver's tasks are tasks of the event loop *)
(* too, and its callback is the application's.                             *)
KyselyFairSpec ==
  /\ KyselySpec
  /\ \A s \in Writes : WF_kvars(Start(s) /\ UNCHANGED kyselyVars)
  /\ WF_kvars(Advance /\ UNCHANGED kyselyVars)
  /\ WF_kvars(Server /\ UNCHANGED kyselyVars)
  /\ WF_kvars(conn = "lost" /\ Rejected /\ UNCHANGED kyselyVars)
  /\ WF_kvars(Driver) /\ WF_kvars(BodySettles) /\ WF_kvars(Finish)

-----------------------------------------------------------------------------
(* Properties.                                                             *)

(* What the driver admitted reaches the outer transaction before that      *)
(* closes: the inner drain ends inside the outer callback.                 *)
AdmittedReaches == \A o \in ViewOps : op[o] # "rejected"

(* The caller gets a value only if the application's callback returned,    *)
(* nothing it asked of the driver failed or was refused while it ran, and  *)
(* every statement the driver admitted is committed, awaited or not.       *)
ValueMeansAll ==
  outcome = "value" =>
    /\ body = "returned"
    /\ ~failed
    /\ {o \in ViewOps : task[o] \notin {"idle", "rejected"}} \subseteq durable
=============================================================================
