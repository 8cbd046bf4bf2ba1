------------------------- MODULE OutboxTransaction -------------------------
(***************************************************************************)
(* One postgresOutbox(...).transaction: the coroutine of                   *)
(* postgresOutboxTransaction, the TransactionScope that admits the         *)
(* statements of its callback, and the pg connection they share.  The      *)
(* connection is a FIFO: a statement is sent to the end of the queue and   *)
(* the server serves the head.  A statement whose answer never arrives     *)
(* (lost connection, client-side timeout) may still be served.             *)
(***************************************************************************)
EXTENDS Sequences

CONSTANTS
  Queries,     \* calls of view.query the business callback may make
  Appends,     \* calls of view.append it may make
  Records      \* records prepared from the entries given up front

ViewOps == Queries \cup Appends
Writes == ViewOps \cup Records
Control == {"BEGIN", "COMMIT", "ROLLBACK"}
Statements == Writes \cup Control

ASSUME StatementsDistinct ==
  /\ ViewOps \cap Records = {}
  /\ Writes \cap Control = {}

VARIABLES
  pc,               \* the await the transaction is suspended at
  callback,         \* the business callback: "pending", "running", "returned", "threw"
  accepting,        \* TransactionScope.accepting
  poisoned,         \* TransactionScope.failure is set
  op,               \* state of every view call and prepared append
  commitAttempted,
  discard,          \* the client must not go back to the pool
  client,           \* the pool client: "none", "held", "reused", "destroyed"
  outcome,          \* what the caller of transaction was told
  queue,            \* statements sent and not served yet
  conn,             \* "up" or "lost"
  server,           \* the server's transaction on this connection
  staged,           \* writes done in the open transaction
  durable,          \* writes committed
  stray             \* writes executed outside the transaction

scopeVars == <<accepting, poisoned, op>>
serverVars == <<server, staged, durable, stray>>
vars == <<pc, callback, scopeVars, commitAttempted, discard, client, outcome,
          queue, conn, serverVars>>

OpStates == {"idle", "admitted", "sent", "done", "failed", "rejected"}
Pending == {s \in Writes : op[s] \in {"admitted", "sent"}}
callbackOpen == callback = "running"

TypeOK ==
  /\ pc \in {"connect", "begin", "callback", "records", "finish", "commit",
             "rollback", "settled"}
  /\ callback \in {"pending", "running", "returned", "threw"}
  /\ accepting \in BOOLEAN
  /\ poisoned \in BOOLEAN
  /\ op \in [Writes -> OpStates]
  /\ commitAttempted \in BOOLEAN
  /\ discard \in BOOLEAN
  /\ client \in {"none", "held", "reused", "destroyed"}
  /\ outcome \in {"none", "value", "error"}
  /\ queue \in Seq(Statements)
  /\ conn \in {"up", "lost"}
  /\ server \in {"none", "open", "aborted", "committed", "rolledback"}
  /\ staged \subseteq Writes
  /\ durable \subseteq Writes
  /\ stray \subseteq Writes

Init ==
  /\ pc = "connect"
  /\ callback = "pending"
  /\ accepting = TRUE
  /\ poisoned = FALSE
  /\ op = [s \in Writes |-> "idle"]
  /\ commitAttempted = FALSE
  /\ discard = FALSE
  /\ client = "none"
  /\ outcome = "none"
  /\ queue = <<>>
  /\ conn = "up"
  /\ server = "none"
  /\ staged = {}
  /\ durable = {}
  /\ stray = {}

(* q with s sent after it; a lost connection takes no statement.           *)
Sent(q, s) == IF conn = "up" THEN Append(q, s) ELSE q

-----------------------------------------------------------------------------
(* The business callback.                                                  *)

(* Fault: a call after the callback settled is still admitted.             *)
CallUngated(o) ==
  /\ callback # "pending"
  /\ op[o] = "idle"
  /\ op' = [op EXCEPT ![o] = "admitted"]
  /\ UNCHANGED <<pc, callback, accepting, poisoned, commitAttempted, discard,
                 client, outcome, queue, conn, serverVars>>

(* view.query / view.append at any time after the callback received the    *)
(* view, its promise kept or not; late calls are rejected.                 *)
Call(o) ==
  /\ callback # "pending"
  /\ op[o] = "idle"
  /\ op' = [op EXCEPT ![o] = IF callbackOpen /\ accepting
                               THEN "admitted" ELSE "rejected"]
  /\ UNCHANGED <<pc, callback, accepting, poisoned, commitAttempted, discard,
                 client, outcome, queue, conn, serverVars>>

CallbackReturns ==
  /\ pc = "callback"
  /\ callback' = "returned"
  /\ pc' = "records"
  /\ UNCHANGED <<scopeVars, commitAttempted, discard, client, outcome, queue,
                 conn, serverVars>>

(* The catch of the callback block, then the first scope.finish().         *)
CallbackThrows ==
  /\ pc = "callback"
  /\ callback' = "threw"
  /\ poisoned' = TRUE
  /\ accepting' = FALSE
  /\ pc' = "finish"
  /\ UNCHANGED <<op, commitAttempted, discard, client, outcome, queue, conn,
                 serverVars>>

-----------------------------------------------------------------------------
(* Admitted statements.                                                    *)

(* The admitted microtask runs: its statement goes to the driver, which    *)
(* refuses it when the connection is gone.                                 *)
Start(s) ==
  /\ op[s] = "admitted"
  /\ op' = [op EXCEPT ![s] = IF conn = "up" THEN "sent" ELSE "failed"]
  /\ poisoned' = (poisoned \/ conn = "lost")
  /\ queue' = Sent(queue, s)
  /\ UNCHANGED <<pc, callback, accepting, commitAttempted, discard, client,
                 outcome, conn, serverVars>>

(* A failure before the answer: an invalid entry (never sent) or a         *)
(* client-side timeout (still queued for the server).                      *)
Fail(s) ==
  /\ \/ op[s] = "admitted" /\ s \in Appends
     \/ op[s] = "sent"
  /\ op' = [op EXCEPT ![s] = "failed"]
  /\ poisoned' = TRUE
  /\ UNCHANGED <<pc, callback, accepting, commitAttempted, discard, client,
                 outcome, queue, conn, serverVars>>

-----------------------------------------------------------------------------
(* The coroutine between its awaits.                                       *)

Connect ==
  /\ pc = "connect"
  /\ pc' = "begin"
  /\ client' = "held"
  /\ queue' = Sent(queue, "BEGIN")
  /\ UNCHANGED <<callback, scopeVars, commitAttempted, discard, outcome, conn,
                 serverVars>>

(* An entry does not compile or the pool gives no client.                  *)
Refuse ==
  /\ pc = "connect"
  /\ pc' = "settled"
  /\ outcome' = "error"
  /\ UNCHANGED <<callback, scopeVars, commitAttempted, discard, client, queue,
                 conn, serverVars>>

(* Prepared records go one after the other, the first failure ends them.   *)
AppendRecord(r) ==
  /\ pc = "records"
  /\ \A x \in Records : op[x] \in {"idle", "done"}
  /\ op[r] = "idle"
  /\ op' = [op EXCEPT ![r] = "admitted"]
  /\ UNCHANGED <<pc, callback, accepting, poisoned, commitAttempted, discard,
                 client, outcome, queue, conn, serverVars>>

FinishRecords ==
  /\ pc = "records"
  /\ \/ \A r \in Records : op[r] = "done"
     \/ \E r \in Records : op[r] = "failed"
  /\ poisoned' = (poisoned \/ \E r \in Records : op[r] = "failed")
  /\ accepting' = FALSE
  /\ pc' = "finish"
  /\ UNCHANGED <<callback, op, commitAttempted, discard, client, outcome, queue,
                 conn, serverVars>>

(* Fault: finish() does not drain what was admitted.                       *)
Undrained == pc = "finish"

(* scope.finish() resolved: every admitted statement was drained.          *)
Drained == pc = "finish" /\ Pending = {}

(* Fault: a failure the callback caught does not keep COMMIT back.         *)
StartCommitPoisoned ==
  /\ Drained
  /\ commitAttempted' = TRUE
  /\ pc' = "commit"
  /\ queue' = Sent(queue, "COMMIT")
  /\ UNCHANGED <<callback, scopeVars, discard, client, outcome, conn, serverVars>>

StartCommit ==
  /\ Drained
  /\ ~poisoned
  /\ commitAttempted' = TRUE
  /\ pc' = "commit"
  /\ queue' = Sent(queue, "COMMIT")
  /\ UNCHANGED <<callback, scopeVars, discard, client, outcome, conn, serverVars>>

Abandon ==
  /\ Drained
  /\ poisoned
  /\ pc' = "rollback"
  /\ queue' = Sent(queue, "ROLLBACK")
  /\ UNCHANGED <<callback, scopeVars, commitAttempted, discard, client, outcome,
                 conn, serverVars>>

(* removeListener, release(discard) and the answer.  release itself may    *)
(* throw, which turns even a committed transaction into an error.          *)
Release(done, drop) ==
  /\ client' = IF drop THEN "destroyed" ELSE "reused"
  /\ outcome' \in IF done THEN {"value", "error"} ELSE {"error"}
  /\ discard' = drop
  /\ pc' = "settled"

-----------------------------------------------------------------------------
(* Answers to BEGIN, COMMIT and ROLLBACK; q is the queue they leave.       *)

BeginAnswered(ok, q) ==
  /\ pc = "begin"
  /\ \/ /\ ok
        /\ pc' = "callback"
        /\ callback' = "running"
        /\ queue' = q
        /\ UNCHANGED accepting
     \/ /\ ~ok
        /\ pc' = "rollback"
        /\ accepting' = FALSE
        /\ queue' = Sent(q, "ROLLBACK")
        /\ UNCHANGED callback
  /\ UNCHANGED <<commitAttempted, discard, client, outcome>>

CommitAnswered(ok, q) ==
  /\ pc = "commit"
  /\ \/ /\ ok
        /\ queue' = q
        /\ Release(TRUE, discard)
     \/ /\ ~ok
        /\ pc' = "rollback"
        /\ discard' = TRUE
        /\ queue' = Sent(q, "ROLLBACK")
        /\ UNCHANGED <<client, outcome>>
  /\ UNCHANGED <<callback, accepting, commitAttempted>>

(* Fault: a client whose ROLLBACK failed goes back to the pool.            *)
RollbackKeepsClient(ok, q) ==
  /\ pc = "rollback"
  /\ queue' = q
  /\ Release(FALSE, discard)
  /\ UNCHANGED <<callback, accepting, commitAttempted>>

RollbackAnswered(ok, q) ==
  /\ pc = "rollback"
  /\ queue' = q
  /\ Release(FALSE, discard \/ ~ok)
  /\ UNCHANGED <<callback, accepting, commitAttempted>>

(* The driver rejects an awaited control statement without an answer: the  *)
(* connection is gone or a client-side timeout expired.                    *)
BeginRejected ==
  BeginAnswered(FALSE, queue) /\ UNCHANGED <<poisoned, op, conn, serverVars>>
CommitRejected ==
  CommitAnswered(FALSE, queue) /\ UNCHANGED <<poisoned, op, conn, serverVars>>
RollbackRejected ==
  RollbackAnswered(FALSE, queue) /\ UNCHANGED <<poisoned, op, conn, serverVars>>

-----------------------------------------------------------------------------
(* The server serves the head of the queue; its answer is delivered to the *)
(* await that still waits for it on a live connection.                     *)

Serving(s) == queue # <<>> /\ Head(queue) = s

Undelivered ==
  /\ queue' = Tail(queue)
  /\ UNCHANGED <<pc, callback, scopeVars, commitAttempted, discard, client, outcome>>

ServeBegin(ok) ==
  /\ Serving("BEGIN")
  /\ server' = IF ok THEN "open" ELSE server
  /\ IF pc = "begin" /\ conn = "up"
       THEN BeginAnswered(ok, Tail(queue)) /\ UNCHANGED <<poisoned, op>>
       ELSE Undelivered
  /\ UNCHANGED <<conn, staged, durable, stray>>

(* COMMIT of an aborted transaction rolls back, and is answered normally.  *)
ServeCommit(ok) ==
  /\ Serving("COMMIT")
  /\ \/ /\ server = "open" /\ ok
        /\ server' = "committed"
        /\ durable' = staged
     \/ /\ server \in {"open", "aborted"} /\ ~(server = "open" /\ ok)
        /\ server' = "rolledback"
        /\ UNCHANGED durable
     \/ /\ server \notin {"open", "aborted"}
        /\ UNCHANGED <<server, durable>>
  /\ IF pc = "commit" /\ conn = "up"
       THEN CommitAnswered(ok, Tail(queue)) /\ UNCHANGED <<poisoned, op>>
       ELSE Undelivered
  /\ UNCHANGED <<conn, staged, stray>>

ServeRollback ==
  /\ Serving("ROLLBACK")
  /\ server' = IF server \in {"open", "aborted"} THEN "rolledback" ELSE server
  /\ IF pc = "rollback" /\ conn = "up"
       THEN RollbackAnswered(TRUE, Tail(queue)) /\ UNCHANGED <<poisoned, op>>
       ELSE Undelivered
  /\ UNCHANGED <<conn, staged, durable, stray>>

(* A write succeeds, fails and aborts the server's transaction, or is a    *)
(* duplicate append with different content, which only the client rejects. *)
ServeWrite(s, result) ==
  /\ Serving(s)
  /\ server = "aborted" => result = "error"
  /\ result = "conflict" => s \notin Queries
  /\ server' = IF server = "open" /\ result = "error" THEN "aborted" ELSE server
  /\ staged' = IF server = "open" /\ result # "error" THEN staged \cup {s} ELSE staged
  /\ stray' = IF server \in {"open", "aborted"} THEN stray ELSE stray \cup {s}
  /\ IF op[s] = "sent"
       THEN /\ op' = [op EXCEPT ![s] = IF result = "ok" THEN "done" ELSE "failed"]
            /\ poisoned' = (poisoned \/ result # "ok")
       ELSE UNCHANGED <<op, poisoned>>
  /\ queue' = Tail(queue)
  /\ UNCHANGED <<pc, callback, accepting, commitAttempted, discard, client,
                 outcome, conn, durable>>

(* Fault: statements in flight never learn that the connection broke.      *)
LoseConnectionSilently ==
  /\ conn = "up"
  /\ client \in {"held", "destroyed"}
  /\ conn' = "lost"
  /\ queue' \in {<<>>} \cup (IF queue = <<>> THEN {} ELSE {<<Head(queue)>>})
  /\ UNCHANGED <<pc, callback, scopeVars, commitAttempted, discard, client,
                 outcome, serverVars>>

(* The connection breaks (or a destroyed client closes it): at most the    *)
(* statement being served still runs.  While the client is held, its error *)
(* event poisons the scope and every statement sent so far fails.          *)
LoseConnection ==
  /\ conn = "up"
  /\ client \in {"held", "destroyed"}
  /\ conn' = "lost"
  /\ queue' \in {<<>>} \cup (IF queue = <<>> THEN {} ELSE {<<Head(queue)>>})
  /\ IF client = "held"
       THEN /\ discard' = TRUE
            /\ poisoned' = TRUE
            /\ op' = [s \in Writes |-> IF op[s] = "sent" THEN "failed" ELSE op[s]]
       ELSE UNCHANGED <<discard, poisoned, op>>
  /\ UNCHANGED <<pc, callback, accepting, commitAttempted, client, outcome,
                 serverVars>>

(* The server notices the broken connection and rolls back.                *)
ServerDrops ==
  /\ conn = "lost"
  /\ queue = <<>>
  /\ server \in {"open", "aborted"}
  /\ server' = "rolledback"
  /\ UNCHANGED <<pc, callback, scopeVars, commitAttempted, discard, client,
                 outcome, queue, conn, staged, durable, stray>>

-----------------------------------------------------------------------------
ServeControl ==
  (\E ok \in BOOLEAN : ServeBegin(ok) \/ ServeCommit(ok)) \/ ServeRollback
ServeOne(s) == \E result \in {"ok", "error", "conflict"} : ServeWrite(s, result)
Advance ==
  \/ Connect \/ Refuse \/ FinishRecords \/ StartCommit \/ Abandon
  \/ \E r \in Records : AppendRecord(r)
Rejected == BeginRejected \/ CommitRejected \/ RollbackRejected
CallbackEnds == CallbackReturns \/ CallbackThrows
Server == ServeControl \/ (\E s \in Writes : ServeOne(s)) \/ ServerDrops

Next ==
  \/ \E o \in ViewOps : Call(o)
  \/ \E s \in Writes : Start(s) \/ Fail(s)
  \/ CallbackEnds \/ Advance \/ Rejected
  \/ Server \/ LoseConnection

Spec == Init /\ [][Next]_vars

(* The event loop runs admitted tasks and resumed awaits, the application's *)
(* callback settles, and pg answers or rejects what it accepted.           *)
Fairness ==
  /\ \A s \in Writes : WF_vars(Start(s))
  /\ WF_vars(CallbackEnds)
  /\ WF_vars(Advance)
  /\ WF_vars(Server)
  /\ WF_vars(conn = "lost" /\ Rejected)
FairSpec == Spec /\ Fairness
-----------------------------------------------------------------------------
(* Properties.                                                             *)

(* COMMIT is sent only for a callback that returned, with every prepared   *)
(* record appended, no admitted statement unfinished and none failed, even *)
(* when the callback caught the failure or did not await the statement.    *)
CommitIsClean ==
  commitAttempted =>
    /\ callback = "returned"
    /\ \A r \in Records : op[r] = "done"
    /\ \A o \in ViewOps : op[o] \in {"idle", "done", "rejected"}

(* No statement of the transaction ever runs in autocommit: neither before *)
(* BEGIN nor on a client already committed, rolled back or released, by a  *)
(* late call, an unawaited one or one whose answer timed out.              *)
NoStray == stray = {}

(* A client goes back to the pool only when its transaction certainly      *)
(* ended and nothing is queued behind it; one whose COMMIT or ROLLBACK was *)
(* not confirmed is destroyed.                                             *)
CleanReuse ==
  client = "reused" =>
    /\ server \in {"none", "committed", "rolledback"}
    /\ queue = <<>>
    /\ commitAttempted => server = "committed"

(* The transaction implements the all-or-nothing promise of AtomicOutbox:  *)
(* a poisoned transaction never commits, a commit covers the callback's    *)
(* writes with every record, and a value is answered only once durable.    *)
Outbox == INSTANCE AtomicOutbox WITH
  decision <- IF commitAttempted THEN "attempted"
              ELSE IF poisoned \/ pc \in {"rollback", "settled"} THEN "abandoned"
              ELSE "open",
  accepted <- IF commitAttempted THEN {o \in ViewOps : op[o] = "done"} ELSE {},
  committed <- server = "committed"
AtomicOutboxSpec == Outbox!Spec

(* Whatever the callback does and however the connection breaks, the       *)
(* caller gets an answer and the pool gets its client back.                *)
TransactionSettles == <>(outcome # "none" /\ client # "held")
=============================================================================
