-------------------------- MODULE TransactionProofs ---------------------------
(***************************************************************************)
(* Proofs about a transaction of an outbox, for every set of queries,      *)
(* appends and records, and about the Kysely bridge on top of it.          *)
(*                                                                         *)
(* CommitInv speaks of the coroutine and its scope alone; the queue and    *)
(* the server are tied to them by WireInv and StageInv.  The bridge only   *)
(* ever takes steps of the outer transaction, so what is proved of that    *)
(* holds under it; and its own drain ends before the outer callback does.  *)
(***************************************************************************)
EXTENDS KyselyScope, Naturals, TLAPS

(* Where the coroutine is, and what that says of the callback's operations.*)
CommitInv ==
  /\ callbackOpen <=> pc = "callback"
  /\ pc \in {"connect", "begin"} => callback = "pending"
  /\ pc = "records" => callback = "returned"
  /\ callback = "pending" =>
       /\ pc \in {"connect", "begin", "rollback", "settled"}
       /\ \A s \in Writes : op[s] = "idle"
       /\ ~commitAttempted
  /\ accepting => pc \in {"connect", "begin", "callback", "records", "settled"}
  /\ \A s \in Writes : op[s] \in {"admitted", "sent"} =>
       pc \in {"callback", "records", "finish"}
  /\ \A s \in Writes : op[s] = "failed" => poisoned
  /\ \A r \in Records : op[r] # "rejected"
  /\ pc = "finish" =>
       \/ poisoned
       \/ callback = "returned" /\ \A r \in Records : op[r] = "done"
  /\ pc \in {"rollback", "settled"} /\ callback # "pending" => poisoned \/ commitAttempted
  /\ commitAttempted => pc \in {"commit", "rollback", "settled"}
  /\ pc = "commit" => commitAttempted
  /\ outcome # "none" <=> pc = "settled"
  /\ CommitIsClean

(* A queued write waits in the open transaction, behind writes only, once. *)
QueuedWrites ==
  \A i \in 1..Len(queue) : queue[i] \in Writes =>
    /\ server \in {"open", "aborted"}
    /\ op[queue[i]] \in {"sent", "failed"}
    /\ \A j \in 1..Len(queue) : j < i => queue[j] \in Writes
    /\ \A j \in 1..Len(queue) : j # i => queue[j] # queue[i]

(* When a control statement may be queued.                                 *)
QueuedControl ==
  /\ pc = "connect" => queue = <<>>
  /\ \A i \in 1..Len(queue) : queue[i] = "BEGIN" => i = 1 /\ callback = "pending"
  /\ \A i \in 1..Len(queue) : queue[i] = "COMMIT" => commitAttempted
  /\ \A i \in 1..Len(queue) : queue[i] = "ROLLBACK" =>
       /\ pc \in {"rollback", "settled"}
       /\ poisoned \/ commitAttempted \/ callback = "pending"

(* While statements are still admitted and the connection lives, the       *)
(* transaction is open and nothing but writes is queued.                   *)
OpenWire ==
  conn = "up" /\ pc \in {"callback", "records", "finish"} =>
    /\ server \in {"open", "aborted"}
    /\ \A i \in 1..Len(queue) : queue[i] \in Writes

WireInv == QueuedWrites /\ QueuedControl /\ OpenWire /\ NoStray

(* What the server has staged and committed.                               *)
StageInv ==
  /\ callback # "pending" /\ ~poisoned /\ ~commitAttempted => server = "open"
  /\ pc = "connect" => conn = "up" /\ client = "none"
  /\ client = "held" /\ conn = "lost" => poisoned
  /\ pc \in {"begin", "callback", "records", "finish", "commit", "rollback"}
       => client = "held"
  /\ pc = "commit" /\ conn = "up" => server = "open"
  /\ callback = "pending" => staged = {}
  /\ ~poisoned \/ commitAttempted => staged = {s \in Writes : op[s] = "done"}
  /\ server = "committed" => commitAttempted /\ durable = staged
  /\ server # "committed" => durable = {}

IInv == TypeOK /\ CommitInv /\ WireInv /\ StageInv

-----------------------------------------------------------------------------
(* View operations, records and control statements never overlap.          *)
LEMMA StatementKinds ==
  /\ {"BEGIN", "COMMIT", "ROLLBACK"} \subseteq Statements
  /\ Writes \subseteq Statements
  /\ ViewOps \subseteq Writes
  /\ Records \subseteq Writes
  /\ \A s \in Writes : s \notin {"BEGIN", "COMMIT", "ROLLBACK"}
  BY StatementsDistinct DEF Statements, Control, Writes

(* Every variable has its type when the transaction is called.             *)
LEMMA InitTypeOK == Init => TypeOK
<1> SUFFICES ASSUME Init PROVE TypeOK
  OBVIOUS
<1>1. op \in [Writes -> OpStates]
  BY DEF Init, OpStates
<1>2. queue \in Seq(Statements)
  BY DEF Init
<1> QED BY <1>1, <1>2 DEF Init, TypeOK

(* Sending a statement leaves a queue of statements.                       *)
LEMMA SentType ==
  ASSUME NEW q \in Seq(Statements), NEW s \in Statements
  PROVE  Sent(q, s) \in Seq(Statements)
  BY DEF Sent

(* Serving one, or losing all but the one served, does too.                *)
LEMMA ServedType ==
  ASSUME NEW q \in Seq(Statements), q # <<>>
  PROVE  Tail(q) \in Seq(Statements) /\ <<Head(q)>> \in Seq(Statements)
  OBVIOUS

(* Every variable keeps its type: one step per kind of variable, as the     *)
(* provers take functions, sequences and sets one at a time.               *)
LEMMA NextTypeOK == TypeOK /\ [Next]_vars => TypeOK'
<1> SUFFICES ASSUME TypeOK, [Next]_vars PROVE TypeOK'
  OBVIOUS
<1> USE StatementKinds
    DEF vars, scopeVars, serverVars, Next, Call, Start, Fail, CallbackEnds,
        CallbackReturns, CallbackThrows, Advance, Connect, Refuse, AppendRecord,
        FinishRecords, Drained, StartCommit, Abandon, Rejected, BeginRejected,
        CommitRejected, RollbackRejected, BeginAnswered, CommitAnswered,
        RollbackAnswered, Release, Server, ServeControl, ServeBegin, ServeCommit,
        ServeRollback, Serving, Undelivered, ServeOne, ServeWrite, ServerDrops,
        LoseConnection
<1>1. op' \in [Writes -> OpStates]
  BY DEF OpStates, TypeOK
<1>2. queue' \in Seq(Statements)
  <2>1. queue \in Seq(Statements)
    BY DEF TypeOK
  <2>2. \A s \in Statements : Sent(queue, s) \in Seq(Statements)
    BY <2>1, SentType
  <2>3. queue # <<>> => Tail(queue) \in Seq(Statements)
    BY <2>1, ServedType
  <2>4. queue # <<>> => <<Head(queue)>> \in Seq(Statements)
    BY <2>1, ServedType
  <2>5. queue # <<>> => \A s \in Statements : Sent(Tail(queue), s) \in Seq(Statements)
    BY <2>3, SentType
  <2>6. <<>> \in Seq(Statements)
    OBVIOUS
  <2> QED BY <2>1, <2>2, <2>3, <2>4, <2>5, <2>6
<1>3. staged' \subseteq Writes /\ durable' \subseteq Writes /\ stray' \subseteq Writes
  BY DEF TypeOK
<1>4. /\ pc' \in {"connect", "begin", "callback", "records", "finish", "commit",
               "rollback", "settled"}
      /\ callback' \in {"pending", "running", "returned", "threw"}
      /\ client' \in {"none", "held", "reused", "destroyed"}
      /\ outcome' \in {"none", "value", "error"}
  BY DEF TypeOK
<1>5. /\ accepting' \in BOOLEAN
      /\ poisoned' \in BOOLEAN
      /\ commitAttempted' \in BOOLEAN
      /\ discard' \in BOOLEAN
  <2>1. accepting' \in BOOLEAN
    BY DEF TypeOK
  <2>2. poisoned' \in BOOLEAN
    BY DEF TypeOK
  <2>3. commitAttempted' \in BOOLEAN
    BY DEF TypeOK
  <2>4. discard' \in BOOLEAN
    BY DEF TypeOK
  <2> QED BY <2>1, <2>2, <2>3, <2>4
<1>6. /\ conn' \in {"up", "lost"}
      /\ server' \in {"none", "open", "aborted", "committed", "rolledback"}
  BY DEF TypeOK
<1> QED BY <1>1, <1>2, <1>3, <1>4, <1>5, <1>6 DEF TypeOK

(* Every reachable state is well typed, for all queries, appends, records. *)
THEOREM TypeCorrect == Spec => []TypeOK
<1>1. Init => TypeOK
  BY InitTypeOK
<1>2. TypeOK /\ [Next]_vars => TypeOK'
  BY NextTypeOK
<1> QED BY <1>1, <1>2, PTL DEF Spec

-----------------------------------------------------------------------------
(* The invariant of the coroutine and its scope holds initially.           *)
LEMMA InitCommitInv == Init => CommitInv
  BY StatementKinds DEF Init, CommitInv, CommitIsClean, callbackOpen

(* Every step keeps it: the scope closes before the drain, the drain ends  *)
(* before COMMIT, and a failure poisons at once.                           *)
LEMMA NextCommitInv == TypeOK /\ CommitInv /\ [Next]_vars => CommitInv'
<1> SUFFICES ASSUME TypeOK, CommitInv, [Next]_vars PROVE CommitInv'
  OBVIOUS
<1> op \in [Writes -> OpStates]
  BY DEF TypeOK
<1> USE StatementKinds DEF scopeVars, serverVars, CommitInv, CommitIsClean,
        callbackOpen, OpStates
<1>1. ASSUME NEW o \in ViewOps, Call(o) PROVE CommitInv'
  <2>1. op'[o] \in {"admitted", "rejected"} /\ \A s \in Writes \ {o} : op'[s] = op[s]
    BY <1>1 DEF Call
  <2>2. op'[o] = "admitted" => callbackOpen
    BY <1>1 DEF Call
  <2>3. o \in Writes /\ o \notin Records /\ op[o] = "idle"
    BY <1>1, StatementsDistinct DEF Call, Writes
  <2> QED BY <1>1, <2>1, <2>2, <2>3 DEF Call
<1>2. ASSUME NEW s \in Writes, Start(s) \/ Fail(s) PROVE CommitInv'
  <2>1. op[s] \in {"admitted", "sent"}
    BY <1>2 DEF Start, Fail
  <2>2. op'[s] \in {"sent", "failed"} /\ \A x \in Writes \ {s} : op'[x] = op[x]
    BY <1>2 DEF Start, Fail
  <2>3. poisoned => poisoned'
    BY <1>2 DEF Start, Fail
  <2>4. op'[s] = "failed" => poisoned'
    BY <1>2 DEF Start, Fail, TypeOK
  <2>5. UNCHANGED <<pc, callback, accepting, commitAttempted, outcome>>
    BY <1>2 DEF Start, Fail
  <2> HIDE <1>2
  <2> QED BY <2>1, <2>2, <2>3, <2>4, <2>5
<1>3. CASE CallbackEnds
  BY <1>3 DEF CallbackEnds, CallbackReturns, CallbackThrows
<1>4. CASE Connect \/ Refuse
  BY <1>4 DEF Connect, Refuse
<1>5. ASSUME NEW r \in Records, AppendRecord(r) PROVE CommitInv'
  BY <1>5 DEF AppendRecord
<1>6. CASE FinishRecords
  <2>1. poisoned' \/ \A r \in Records : op'[r] = "done"
    BY <1>6 DEF FinishRecords
  <2>2. callback = "returned" /\ ~commitAttempted
    BY <1>6 DEF FinishRecords, TypeOK
  <2> QED BY <1>6, <2>1, <2>2 DEF FinishRecords
<1>7. CASE StartCommit \/ Abandon
  BY <1>7 DEF StartCommit, Abandon, Drained, Pending
<1>8. CASE Rejected
  BY <1>8 DEF Rejected, BeginRejected, CommitRejected, RollbackRejected,
              BeginAnswered, CommitAnswered, RollbackAnswered, Release
<1>9. CASE ServeControl
  <2> USE DEF Undelivered, BeginAnswered, CommitAnswered, RollbackAnswered, Release
  <2>1. ASSUME NEW ok \in BOOLEAN, ServeBegin(ok) PROVE CommitInv'
    <3>1. CASE pc = "begin" /\ conn = "up" /\ ok
      BY <2>1, <3>1 DEF ServeBegin
    <3>2. CASE pc = "begin" /\ conn = "up" /\ ~ok
      BY <2>1, <3>2 DEF ServeBegin
    <3>3. CASE ~(pc = "begin" /\ conn = "up")
      BY <2>1, <3>3 DEF ServeBegin
    <3> QED BY <3>1, <3>2, <3>3
  <2>2. ASSUME NEW ok \in BOOLEAN, ServeCommit(ok) PROVE CommitInv'
    BY <2>2 DEF ServeCommit
  <2>3. CASE ServeRollback
    BY <2>3 DEF ServeRollback
  <2> QED BY <1>9, <2>1, <2>2, <2>3 DEF ServeControl
<1>10. ASSUME NEW s \in Writes, ServeOne(s) PROVE CommitInv'
  <2>1. UNCHANGED <<pc, callback, accepting, commitAttempted, outcome>>
    BY <1>10 DEF ServeOne, ServeWrite
  <2>2. CASE op[s] = "sent"
    <3>1. op'[s] \in {"done", "failed"} /\ \A x \in Writes \ {s} : op'[x] = op[x]
      BY <1>10, <2>2 DEF ServeOne, ServeWrite
    <3>2. (poisoned => poisoned') /\ (op'[s] = "failed" => poisoned')
      BY <1>10, <2>2 DEF ServeOne, ServeWrite
    <3> QED BY <2>1, <2>2, <3>1, <3>2
  <2>3. CASE op[s] # "sent"
    <3>1. UNCHANGED <<op, poisoned>>
      BY <1>10, <2>3 DEF ServeOne, ServeWrite
    <3> QED BY <2>1, <3>1
  <2> QED BY <2>2, <2>3
<1>11. CASE ServerDrops
  BY <1>11 DEF ServerDrops
<1>12. CASE LoseConnection
  BY <1>12 DEF LoseConnection
<1>13. CASE UNCHANGED vars
  BY <1>13 DEF vars
<1> QED
  BY <1>1, <1>2, <1>3, <1>4, <1>5, <1>6, <1>7, <1>8, <1>9, <1>10, <1>11, <1>12,
     <1>13 DEF Next, Advance, Server

(* COMMIT is only ever sent for a callback and records that all succeeded. *)
THEOREM CommitCorrect == Spec => []CommitIsClean
<1>1. Init => TypeOK /\ CommitInv
  BY InitTypeOK, InitCommitInv
<1>2. TypeOK /\ CommitInv /\ [Next]_vars => (TypeOK /\ CommitInv)'
  BY NextTypeOK, NextCommitInv
<1>3. CommitInv => CommitIsClean
  BY DEF CommitInv
<1> QED BY <1>1, <1>2, <1>3, PTL DEF Spec

-----------------------------------------------------------------------------
(* What the queue holds after a statement is sent, served or lost.         *)
LEMMA AppendFacts ==
  ASSUME NEW q \in Seq(Statements), NEW s \in Statements
  PROVE  /\ Len(Append(q, s)) = Len(q) + 1
         /\ \A i \in 1..Len(q) : Append(q, s)[i] = q[i]
         /\ Append(q, s)[Len(q) + 1] = s
  OBVIOUS

(* Serving the head shifts the others forward.                             *)
LEMMA TailFacts ==
  ASSUME NEW q \in Seq(Statements), q # <<>>
  PROVE  /\ Len(q) \in Nat \ {0}
         /\ Len(Tail(q)) = Len(q) - 1
         /\ \A i \in 1..Len(Tail(q)) : i + 1 \in 1..Len(q) /\ Tail(q)[i] = q[i + 1]
         /\ Head(q) = q[1]
  OBVIOUS

(* Sending adds the statement at the end, or nothing without connection.   *)
LEMMA SentFacts ==
  ASSUME NEW q \in Seq(Statements), NEW s \in Statements
  PROVE  /\ Len(Sent(q, s)) \in {Len(q), Len(q) + 1}
         /\ \A i \in 1..Len(q) : Sent(q, s)[i] = q[i]
         /\ Len(Sent(q, s)) = Len(q) + 1 => Sent(q, s)[Len(q) + 1] = s
         /\ Len(q) \in Nat
  BY AppendFacts DEF Sent

(* Sending a control statement, or nothing, behind q disturbs no write.    *)
LEMMA NextQueuedWrites ==
  TypeOK /\ CommitInv /\ WireInv /\ [Next]_vars => QueuedWrites'
<1> SUFFICES ASSUME TypeOK, CommitInv, WireInv, [Next]_vars PROVE QueuedWrites'
  OBVIOUS
<1>0. queue \in Seq(Statements) /\ op \in [Writes -> OpStates]
  BY DEF TypeOK
<1>q. QueuedWrites
  BY DEF WireInv
<1> USE StatementKinds DEF scopeVars, serverVars
<1>1. ASSUME NEW o \in ViewOps, Call(o) PROVE QueuedWrites'
  <2>1. op[o] = "idle" /\ op' = [op EXCEPT ![o] = op'[o]] /\ UNCHANGED <<queue, server>>
    BY <1>0, <1>1 DEF Call
  <2> QED BY <1>0, <1>q, <2>1 DEF QueuedWrites
<1>2. ASSUME NEW s \in Writes, Fail(s) PROVE QueuedWrites'
  BY <1>0, <1>2, <1>q DEF Fail, QueuedWrites
<1>3. ASSUME NEW s \in Writes, Start(s) PROVE QueuedWrites'
  <2>1. pc \in {"callback", "records", "finish"}
    BY <1>3 DEF Start, CommitInv
  <2>2. CASE conn = "lost"
    BY <1>0, <1>3, <1>q, <2>2 DEF Start, Sent, QueuedWrites
  <2>3. CASE conn = "up"
    <3>1. server \in {"open", "aborted"} /\ \A i \in 1..Len(queue) : queue[i] \in Writes
      BY <2>1, <2>3 DEF WireInv, OpenWire
    <3>2. \A i \in 1..Len(queue) : queue[i] # s
      BY <1>3, <1>q, <3>1 DEF QueuedWrites, Start
    <3>3. queue' = Append(queue, s) /\ server' = server /\ op' = [op EXCEPT ![s] = "sent"]
      BY <1>3, <2>3 DEF Start, Sent
    <3>4. \A i \in 1..Len(queue') : i \in 1..Len(queue) \/ i = Len(queue) + 1
      BY <1>0, <3>3, AppendFacts
    <3> QED BY <1>0, <1>q, <3>1, <3>2, <3>3, <3>4, AppendFacts DEF QueuedWrites
  <2> QED BY <2>2, <2>3 DEF TypeOK
<1>4. ASSUME UNCHANGED <<op, server>>,
             queue' = queue \/ \E c \in {"BEGIN", "COMMIT", "ROLLBACK"} : queue' = Sent(queue, c)
      PROVE QueuedWrites'
  <2>1. CASE queue' = queue
    BY <1>4, <1>q, <2>1 DEF QueuedWrites
  <2>2. ASSUME NEW c \in {"BEGIN", "COMMIT", "ROLLBACK"}, queue' = Sent(queue, c)
        PROVE QueuedWrites'
    <3>1. c \in Statements /\ c \notin Writes
      OBVIOUS
    <3>2. \A i \in 1..Len(queue') : queue'[i] \in Writes =>
            i \in 1..Len(queue) /\ queue'[i] = queue[i]
      BY <1>0, <2>2, <3>1, SentFacts
    <3> QED BY <1>0, <1>4, <1>q, <2>2, <3>1, <3>2, SentFacts DEF QueuedWrites
  <2> QED BY <1>4, <2>1, <2>2
<1>5. ASSUME queue # <<>>, Head(queue) \notin Writes,
             \/ queue' = Tail(queue)
             \/ \E c \in {"BEGIN", "COMMIT", "ROLLBACK"} : queue' = Sent(Tail(queue), c)
      PROVE QueuedWrites'
  <2>1. \A i \in 1..Len(queue) : queue[i] \notin Writes
    <3>1. 1 \in 1..Len(queue) /\ queue[1] \notin Writes
      BY <1>0, <1>5, TailFacts
    <3> QED BY <1>0, <1>q, <3>1 DEF QueuedWrites
  <2>2. \A i \in 1..Len(Tail(queue)) : Tail(queue)[i] \notin Writes
    BY <1>0, <1>5, <2>1, TailFacts
  <2>3. Tail(queue) \in Seq(Statements)
    BY <1>0, <1>5
  <2>4. ASSUME NEW c \in {"BEGIN", "COMMIT", "ROLLBACK"}, queue' = Sent(Tail(queue), c)
        PROVE \A i \in 1..Len(queue') : queue'[i] \notin Writes
    <3>1. c \in Statements /\ c \notin Writes
      OBVIOUS
    <3>2. /\ Len(queue') \in {Len(Tail(queue)), Len(Tail(queue)) + 1}
          /\ \A i \in 1..Len(Tail(queue)) : queue'[i] = Tail(queue)[i]
          /\ Len(queue') = Len(Tail(queue)) + 1 => queue'[Len(Tail(queue)) + 1] = c
          /\ Len(Tail(queue)) \in Nat
      <4> DEFINE rest == Tail(queue)
      <4>1. rest \in Seq(Statements) /\ queue' = Sent(rest, c)
        BY <2>3, <2>4
      <4> HIDE DEF rest
      <4>2. /\ Len(queue') \in {Len(rest), Len(rest) + 1}
            /\ \A i \in 1..Len(rest) : queue'[i] = rest[i]
            /\ Len(queue') = Len(rest) + 1 => queue'[Len(rest) + 1] = c
            /\ Len(rest) \in Nat
        BY <3>1, <4>1, SentFacts
      <4> QED BY <4>2 DEF rest
    <3> QED BY <2>2, <3>1, <3>2
  <2>5. \A i \in 1..Len(queue') : queue'[i] \notin Writes
    BY <1>5, <2>2, <2>4
  <2> QED BY <2>5 DEF QueuedWrites
<1>6. ASSUME NEW s \in Writes, ServeOne(s) PROVE QueuedWrites'
  <2>1. queue # <<>> /\ Head(queue) = s /\ queue' = Tail(queue)
    BY <1>6 DEF ServeOne, ServeWrite, Serving
  <2>2. 1 \in 1..Len(queue) /\ queue[1] = s
    BY <1>0, <2>1, TailFacts
  <2>3. server \in {"open", "aborted"} /\ \A j \in 1..Len(queue) : j # 1 => queue[j] # s
    BY <1>q, <2>2 DEF QueuedWrites
  <2>4. server' \in {"open", "aborted"} /\ \A x \in Writes \ {s} : op'[x] = op[x]
    BY <1>0, <1>6, <2>3 DEF ServeOne, ServeWrite
  <2>5. \A i \in 1..Len(queue') : /\ i + 1 \in 1..Len(queue)
                                 /\ queue'[i] = queue[i + 1]
                                 /\ queue'[i] # s
    BY <1>0, <2>1, <2>3, TailFacts
  <2>6. Len(queue') \in Nat
    BY <1>0, <2>1
  <2> QED BY <1>q, <2>4, <2>5, <2>6 DEF QueuedWrites
<1>7. CASE ServerDrops
  BY <1>7 DEF ServerDrops, QueuedWrites
<1>8. CASE LoseConnection
  <2>1. \A x \in Writes : op[x] \in {"sent", "failed"} => op'[x] \in {"sent", "failed"}
    BY <1>0, <1>8 DEF LoseConnection
  <2>2. queue' = <<>> \/ (queue # <<>> /\ queue' = <<Head(queue)>>)
    BY <1>8 DEF LoseConnection
  <2>3. CASE queue' = <<>>
    BY <2>3 DEF QueuedWrites
  <2>4. CASE queue # <<>> /\ queue' = <<Head(queue)>>
    <3>1. Len(queue') = 1 /\ queue'[1] = queue[1] /\ 1 \in 1..Len(queue)
      BY <1>0, <2>4, TailFacts
    <3> QED BY <1>8, <1>q, <2>1, <3>1 DEF QueuedWrites, LoseConnection
  <2> QED BY <2>2, <2>3, <2>4
<1>9. ASSUME NEW r \in Records, AppendRecord(r) PROVE QueuedWrites'
  <2>1. op[r] = "idle" /\ op' = [op EXCEPT ![r] = "admitted"] /\ UNCHANGED <<queue, server>>
    BY <1>9 DEF AppendRecord
  <2> QED BY <1>0, <1>q, <2>1 DEF QueuedWrites
<1>10. CASE CallbackEnds \/ Refuse \/ FinishRecords \/ UNCHANGED vars
  BY <1>4, <1>10 DEF CallbackEnds, CallbackReturns, CallbackThrows, Refuse, FinishRecords, vars
<1>11. CASE Connect \/ StartCommit \/ Abandon
  BY <1>4, <1>11 DEF Connect, StartCommit, Abandon
<1>12. CASE Rejected
  BY <1>4, <1>12 DEF Rejected, BeginRejected, CommitRejected, RollbackRejected,
                     BeginAnswered, CommitAnswered, RollbackAnswered
<1>13. CASE ServeControl
  BY <1>5, <1>13 DEF ServeControl, ServeBegin, ServeCommit, ServeRollback, Serving,
       Undelivered, BeginAnswered, CommitAnswered, RollbackAnswered
<1> QED
  BY <1>1, <1>2, <1>3, <1>6, <1>7, <1>8, <1>9, <1>10, <1>11, <1>12, <1>13
  DEF Next, Advance, Server

(* Every queued statement was queued before, or is the one just sent.      *)
Kept == \A i \in 1..Len(queue') :
          i \in 1..Len(queue) /\ queue'[i] = queue[i]
Added(s) == \A i \in 1..Len(queue') :
              \/ i \in 1..Len(queue) /\ queue'[i] = queue[i]
              \/ i = Len(queue) + 1 /\ queue'[i] = s
Shifted == \A i \in 1..Len(queue') :
             i + 1 \in 1..Len(queue) /\ queue'[i] = queue[i + 1]
ShiftedAdded(s) == \A i \in 1..Len(queue') :
                     \/ i + 1 \in 1..Len(queue) /\ queue'[i] = queue[i + 1]
                     \/ queue'[i] = s /\ i = Len(queue)

(* What each way of changing the queue leaves in it.                       *)
LEMMA QueueSteps ==
  ASSUME TypeOK
  PROVE  /\ queue' = queue => Kept
         /\ \A s \in Statements : queue' = Sent(queue, s) => Added(s)
         /\ queue # <<>> /\ queue' = Tail(queue) => Shifted
         /\ \A s \in Statements : queue # <<>> /\ queue' = Sent(Tail(queue), s) => ShiftedAdded(s)
         /\ queue' = <<>> => Kept
         /\ queue # <<>> /\ queue' = <<Head(queue)>> => Kept
<1> queue \in Seq(Statements)
  BY DEF TypeOK
<1>1. queue' = queue => Kept
  BY DEF Kept
<1>2. ASSUME NEW s \in Statements, queue' = Sent(queue, s) PROVE Added(s)
  BY <1>2, SentFacts DEF Added
<1>3. ASSUME queue # <<>>, queue' = Tail(queue) PROVE Shifted
  BY <1>3, TailFacts DEF Shifted
<1>4. ASSUME NEW s \in Statements, queue # <<>>, queue' = Sent(Tail(queue), s)
      PROVE ShiftedAdded(s)
  <2>1. Tail(queue) \in Seq(Statements)
    BY <1>4
  <2>2. /\ Len(queue') \in {Len(Tail(queue)), Len(Tail(queue)) + 1}
        /\ \A i \in 1..Len(Tail(queue)) : queue'[i] = Tail(queue)[i]
        /\ Len(queue') = Len(Tail(queue)) + 1 => queue'[Len(Tail(queue)) + 1] = s
        /\ Len(Tail(queue)) \in Nat
    BY <1>4, <2>1, SentFacts
  <2>3. /\ Len(queue) \in Nat \ {0}
        /\ Len(Tail(queue)) = Len(queue) - 1
        /\ \A i \in 1..Len(Tail(queue)) : i + 1 \in 1..Len(queue) /\ Tail(queue)[i] = queue[i + 1]
    BY <1>4, TailFacts
  <2>4. ASSUME NEW i \in 1..Len(queue'), i \in 1..Len(Tail(queue))
        PROVE i + 1 \in 1..Len(queue) /\ queue'[i] = queue[i + 1]
    BY <2>2, <2>3, <2>4
  <2>5. ASSUME NEW i \in 1..Len(queue'), i \notin 1..Len(Tail(queue))
        PROVE queue'[i] = s /\ i = Len(queue)
    <3>1. ASSUME NEW m \in Nat, NEW n \in {m, m + 1}, i \in 1..n, i \notin 1..m
          PROVE n = m + 1 /\ i = m + 1
      BY <3>1
    <3>2. Len(queue') = Len(Tail(queue)) + 1 /\ i = Len(Tail(queue)) + 1
      BY <2>2, <2>5, <3>1
    <3> QED BY <2>2, <2>3, <3>2
  <2> QED BY <2>4, <2>5 DEF ShiftedAdded
<1>5. queue' = <<>> => Kept
  BY DEF Kept
<1>6. ASSUME queue # <<>>, queue' = <<Head(queue)>> PROVE Kept
  <2>1. Len(queue') = 1 /\ queue'[1] = queue[1] /\ 1 \in 1..Len(queue)
    BY <1>6, TailFacts
  <2> QED BY <2>1 DEF Kept
<1> QED BY <1>1, <1>2, <1>3, <1>4, <1>5, <1>6

(* Control statements are queued only from the phases that send them.      *)
LEMMA NextQueuedControl ==
  TypeOK /\ CommitInv /\ WireInv /\ [Next]_vars => QueuedControl'
<1> SUFFICES ASSUME TypeOK, CommitInv, WireInv, [Next]_vars PROVE QueuedControl'
  OBVIOUS
<1> QueuedControl
  BY DEF WireInv
<1> queue \in Seq(Statements)
  BY DEF TypeOK
<1> USE StatementKinds, QueueSteps
    DEF scopeVars, serverVars, QueuedControl, Kept, Added, Shifted, ShiftedAdded
<1>1. ASSUME NEW o \in ViewOps, Call(o) PROVE QueuedControl'
  BY <1>1 DEF Call
<1>2. ASSUME NEW s \in Writes, Start(s) \/ Fail(s) PROVE QueuedControl'
  BY <1>2 DEF Start, Fail, CommitInv
<1>3. CASE CallbackEnds
  BY <1>3 DEF CallbackEnds, CallbackReturns, CallbackThrows, CommitInv
<1>4. CASE Connect \/ Refuse
  BY <1>4 DEF Connect, Refuse, CommitInv
<1>5. ASSUME NEW r \in Records, AppendRecord(r) PROVE QueuedControl'
  BY <1>5 DEF AppendRecord
<1>6. CASE FinishRecords
  BY <1>6 DEF FinishRecords, CommitInv
<1>7. CASE StartCommit \/ Abandon
  BY <1>7 DEF StartCommit, Abandon, Drained, CommitInv
<1>8. CASE Rejected
  BY <1>8 DEF Rejected, BeginRejected, CommitRejected, RollbackRejected, CommitInv,
              BeginAnswered, CommitAnswered, RollbackAnswered, Release
<1>9. ASSUME NEW ok \in BOOLEAN, ServeBegin(ok) PROVE QueuedControl'
  BY <1>9 DEF ServeBegin, Serving, Undelivered, BeginAnswered, CommitInv
<1>10. ASSUME NEW ok \in BOOLEAN, ServeCommit(ok) PROVE QueuedControl'
  BY <1>10 DEF ServeCommit, Serving, Undelivered, CommitAnswered, Release, CommitInv
<1>11. CASE ServeRollback
  BY <1>11 DEF ServeRollback, Serving, Undelivered, RollbackAnswered, Release, CommitInv
<1>12. ASSUME NEW s \in Writes, ServeOne(s) PROVE QueuedControl'
  BY <1>12 DEF ServeOne, ServeWrite, Serving, CommitInv
<1>13. CASE ServerDrops
  BY <1>13 DEF ServerDrops
<1>14. CASE LoseConnection
  BY <1>14 DEF LoseConnection, CommitInv
<1>15. CASE UNCHANGED vars
  BY <1>15 DEF vars
<1> QED
  BY <1>1, <1>2, <1>3, <1>4, <1>5, <1>6, <1>7, <1>8, <1>9, <1>10, <1>11, <1>12,
     <1>13, <1>14, <1>15 DEF Next, Advance, Server, ServeControl

(* While statements are admitted the server's transaction stays open.      *)
LEMMA NextOpenWire ==
  TypeOK /\ CommitInv /\ WireInv /\ [Next]_vars => OpenWire'
<1> SUFFICES ASSUME TypeOK, CommitInv, WireInv, [Next]_vars PROVE OpenWire'
  OBVIOUS
<1> QueuedWrites /\ QueuedControl /\ OpenWire
  BY DEF WireInv
<1> queue \in Seq(Statements)
  BY DEF TypeOK
<1> USE StatementKinds, QueueSteps
    DEF scopeVars, serverVars, OpenWire, Kept, Added, Shifted, ShiftedAdded
<1>1. ASSUME NEW o \in ViewOps, Call(o) PROVE OpenWire'
  BY <1>1 DEF Call
<1>2. ASSUME NEW s \in Writes, Start(s) \/ Fail(s) PROVE OpenWire'
  BY <1>2 DEF Start, Fail
<1>3. CASE CallbackEnds
  BY <1>3 DEF CallbackEnds, CallbackReturns, CallbackThrows
<1>4. CASE Advance
  BY <1>4 DEF Advance, Connect, Refuse, AppendRecord, FinishRecords, StartCommit, Abandon
<1>5. CASE Rejected
  BY <1>5 DEF Rejected, BeginRejected, CommitRejected, RollbackRejected,
              BeginAnswered, CommitAnswered, RollbackAnswered, Release
<1>6. ASSUME NEW ok \in BOOLEAN, ServeBegin(ok) PROVE OpenWire'
  <2>1. CASE pc = "begin" /\ conn = "up" /\ ok
    <3>1. \A i \in 1..Len(queue) : queue[i] \notin Writes
      BY <2>1 DEF QueuedWrites, CommitInv
    <3>2. \A i \in 1..Len(queue) : queue[i] # "COMMIT" /\ queue[i] # "ROLLBACK"
      BY <2>1 DEF QueuedControl, CommitInv
    <3>3. \A i \in 1..Len(queue) : queue[i] = "BEGIN" /\ i = 1
      BY <3>1, <3>2 DEF QueuedControl, Statements, Control
    <3>4. Shifted /\ server' = "open"
      BY <1>6, <2>1 DEF ServeBegin, BeginAnswered, Serving
    <3>5. \A i \in 1..Len(queue') : FALSE
      BY <3>3, <3>4
    <3> QED BY <3>4, <3>5
  <2>2. CASE ~(pc = "begin" /\ conn = "up" /\ ok)
    BY <1>6, <2>2 DEF ServeBegin, Serving, Undelivered, BeginAnswered, TypeOK
  <2> QED BY <2>1, <2>2
<1>7. ASSUME NEW ok \in BOOLEAN, ServeCommit(ok) PROVE OpenWire'
  BY <1>7, TailFacts DEF ServeCommit, Serving, Undelivered, CommitAnswered, Release, QueuedControl, CommitInv
<1>8. CASE ServeRollback
  BY <1>8, TailFacts DEF ServeRollback, Serving, Undelivered, RollbackAnswered, Release, QueuedControl
<1>9. ASSUME NEW s \in Writes, ServeOne(s) PROVE OpenWire'
  BY <1>9 DEF ServeOne, ServeWrite, Serving
<1>10. CASE ServerDrops
  BY <1>10 DEF ServerDrops
<1>11. CASE LoseConnection
  BY <1>11 DEF LoseConnection
<1>12. CASE UNCHANGED vars
  BY <1>12 DEF vars
<1> QED
  BY <1>1, <1>2, <1>3, <1>4, <1>5, <1>6, <1>7, <1>8, <1>9, <1>10, <1>11, <1>12
  DEF Next, Server, ServeControl

(* A statement served is one queued in the open transaction.               *)
LEMMA ServedInTransaction ==
  ASSUME TypeOK, WireInv, NEW s \in Writes, ServeOne(s)
  PROVE  server \in {"open", "aborted"} /\ op[s] \in {"sent", "failed"}
<1>1. queue # <<>> /\ Head(queue) = s
  BY DEF ServeOne, ServeWrite, Serving
<1>2. 1 \in 1..Len(queue) /\ queue[1] = s
  BY <1>1, TailFacts DEF TypeOK
<1> QED BY <1>2 DEF WireInv, QueuedWrites

(* No step executes a write outside the transaction.                       *)
LEMMA NextNoStray == TypeOK /\ WireInv /\ [Next]_vars => NoStray'
<1> SUFFICES ASSUME TypeOK, WireInv, [Next]_vars PROVE stray' = {}
  BY DEF NoStray
<1> stray = {}
  BY DEF WireInv, NoStray
<1>1. ASSUME NEW s \in Writes, ServeOne(s) PROVE stray' = {}
  BY <1>1, ServedInTransaction DEF ServeOne, ServeWrite
<1>2. CASE ~\E s \in Writes : ServeOne(s)
  BY <1>2 DEF Next, vars, serverVars, Call, Start, Fail, CallbackEnds, CallbackReturns,
      CallbackThrows, Advance, Connect, Refuse, AppendRecord, FinishRecords, StartCommit,
      Abandon, Rejected, BeginRejected, CommitRejected, RollbackRejected, Server,
      ServeControl, ServeBegin, ServeCommit, ServeRollback, ServerDrops, LoseConnection
<1> QED BY <1>1, <1>2

(* What the server has staged follows the answers, until it commits it.    *)
LEMMA NextStageInv == IInv /\ [Next]_vars => StageInv'
<1> SUFFICES ASSUME IInv, [Next]_vars PROVE StageInv'
  OBVIOUS
<1> TypeOK /\ CommitInv /\ WireInv /\ StageInv
  BY DEF IInv
<1> queue \in Seq(Statements) /\ op \in [Writes -> OpStates]
  BY DEF TypeOK
<1> USE StatementKinds DEF scopeVars, serverVars, StageInv
<1>1. ASSUME NEW o \in ViewOps, Call(o) PROVE StageInv'
  <2>1. {s \in Writes : op'[s] = "done"} = {s \in Writes : op[s] = "done"}
    BY <1>1 DEF Call
  <2> QED BY <1>1, <2>1 DEF Call
<1>2. ASSUME NEW s \in Writes, Start(s) \/ Fail(s) PROVE StageInv'
  <2>1. {x \in Writes : op'[x] = "done"} = {x \in Writes : op[x] = "done"}
    BY <1>2 DEF Start, Fail
  <2>2. poisoned => poisoned'
    BY <1>2 DEF Start, Fail
  <2> QED BY <1>2, <2>1, <2>2 DEF Start, Fail
<1>3. CASE CallbackEnds
  BY <1>3 DEF CallbackEnds, CallbackReturns, CallbackThrows, CommitInv
<1>4. CASE Connect \/ Refuse
  BY <1>4 DEF Connect, Refuse, CommitInv
<1>5. ASSUME NEW r \in Records, AppendRecord(r) PROVE StageInv'
  <2>1. {s \in Writes : op'[s] = "done"} = {s \in Writes : op[s] = "done"}
    BY <1>5 DEF AppendRecord
  <2> QED BY <1>5, <2>1 DEF AppendRecord
<1>6. CASE FinishRecords
  BY <1>6 DEF FinishRecords
<1>7. CASE StartCommit \/ Abandon
  BY <1>7 DEF StartCommit, Abandon, Drained, CommitInv
<1>8. CASE Rejected
  BY <1>8 DEF Rejected, BeginRejected, CommitRejected, RollbackRejected,
              BeginAnswered, CommitAnswered, RollbackAnswered, Release, CommitInv
<1>9. ASSUME NEW ok \in BOOLEAN, ServeBegin(ok) PROVE StageInv'
  <2>1. callback = "pending"
    BY <1>9, TailFacts DEF ServeBegin, Serving, WireInv, QueuedControl
  <2>2. {s \in Writes : op[s] = "done"} = {} /\ ~commitAttempted
    BY <2>1 DEF CommitInv
  <2> QED BY <1>9, <2>1, <2>2 DEF ServeBegin, Undelivered, BeginAnswered, CommitInv
<1>10. ASSUME NEW ok \in BOOLEAN, ServeCommit(ok) PROVE StageInv'
  <2>1. commitAttempted
    BY <1>10, TailFacts DEF ServeCommit, Serving, WireInv, QueuedControl
  <2>2. callback # "pending"
    BY <2>1 DEF CommitInv
  <2> QED BY <1>10, <2>1, <2>2 DEF ServeCommit, Undelivered, CommitAnswered, Release
<1>11. CASE ServeRollback
  <2>1. /\ pc \in {"rollback", "settled"}
        /\ poisoned \/ commitAttempted \/ callback = "pending"
    BY <1>11, TailFacts DEF ServeRollback, Serving, WireInv, QueuedControl
  <2> QED BY <1>11, <2>1 DEF ServeRollback, Undelivered, RollbackAnswered, Release
<1>12. ASSUME NEW s \in Writes, ServeOne(s) PROVE StageInv'
  <2>1. server \in {"open", "aborted"} /\ op[s] \in {"sent", "failed"}
    BY <1>12, ServedInTransaction
  <2>2. ~commitAttempted /\ callback # "pending"
    BY <2>1, StatementsDistinct DEF CommitInv, CommitIsClean, Writes
  <2>3. UNCHANGED <<pc, callback, commitAttempted, client, conn, durable>>
    BY <1>12 DEF ServeOne, ServeWrite
  <2>4. ~poisoned' => /\ ~poisoned /\ op[s] = "sent" /\ op' = [op EXCEPT ![s] = "done"]
                      /\ server = "open" /\ server' = "open" /\ staged' = staged \cup {s}
    BY <1>12, <2>1, <2>2 DEF ServeOne, ServeWrite, CommitInv
  <2>5. ~poisoned' => staged' = {x \in Writes : op'[x] = "done"}
    BY <2>4
  <2>6. server' \in {"open", "aborted"}
    BY <1>12, <2>1 DEF ServeOne, ServeWrite
  <2>7. client = "held" /\ conn = "lost" => poisoned'
    BY <1>12 DEF ServeOne, ServeWrite
  <2>8. pc # "commit" /\ durable = {}
    BY <2>1, <2>2 DEF CommitInv
  <2>9. pc # "connect"
    BY <2>2 DEF CommitInv
  <2> QED BY <2>2, <2>3, <2>4, <2>5, <2>6, <2>7, <2>8, <2>9
<1>13. CASE ServerDrops
  BY <1>13 DEF ServerDrops, CommitInv, TypeOK
<1>14. CASE LoseConnection
  <2>1. {s \in Writes : op'[s] = "done"} = {s \in Writes : op[s] = "done"}
    BY <1>14 DEF LoseConnection
  <2>2. poisoned => poisoned'
    BY <1>14 DEF LoseConnection
  <2> QED BY <1>14, <2>1, <2>2 DEF LoseConnection, CommitInv
<1>15. CASE UNCHANGED vars
  BY <1>15 DEF vars
<1> QED
  BY <1>1, <1>2, <1>3, <1>4, <1>5, <1>6, <1>7, <1>8, <1>9, <1>10, <1>11, <1>12,
     <1>13, <1>14, <1>15 DEF Next, Advance, Server, ServeControl

(* The whole invariant holds initially.                                    *)
LEMMA InitIInv == Init => IInv
<1> SUFFICES ASSUME Init PROVE IInv
  OBVIOUS
<1>1. TypeOK /\ CommitInv
  BY InitTypeOK, InitCommitInv
<1>2. queue = <<>> /\ Len(queue) = 0
  BY DEF Init
<1>3. WireInv
  BY <1>2 DEF Init, WireInv, QueuedWrites, QueuedControl, OpenWire, NoStray
<1>4. StageInv
  BY DEF Init, StageInv
<1> QED BY <1>1, <1>3, <1>4 DEF IInv

(* Every step keeps the whole invariant.                                   *)
LEMMA NextIInv == IInv /\ [Next]_vars => IInv'
  BY NextTypeOK, NextCommitInv, NextQueuedWrites, NextQueuedControl, NextOpenWire,
     NextNoStray, NextStageInv DEF IInv, WireInv

(* The invariant is inductive.                                             *)
THEOREM Inductive == Spec => []IInv
  BY InitIInv, NextIInv, PTL DEF Spec

(* No statement ever runs outside the transaction: none waits behind its   *)
(* COMMIT or ROLLBACK, in the queue or at the scope's gate.                *)
THEOREM NoStrayCorrect == Spec => []NoStray
<1>1. IInv => NoStray
  BY DEF IInv, WireInv
<1> QED BY <1>1, Inductive, PTL

-----------------------------------------------------------------------------
(* Reuse of the client.                                                    *)

(* Nothing is queued behind a ROLLBACK, and only a ROLLBACK behind COMMIT. *)
LastControl ==
  \A i, j \in 1..Len(queue) : i < j =>
    queue[i] # "ROLLBACK" /\ (queue[i] = "COMMIT" => queue[j] = "ROLLBACK")

ReuseInv ==
  /\ LastControl
  /\ pc = "rollback" /\ commitAttempted => discard
  /\ client = "reused" => pc = "settled"
  /\ CleanReuse

(* The control statement served is the last one queued.                    *)
LEMMA ServedLast ==
  ASSUME TypeOK, LastControl, QueuedControl,
         Serving("ROLLBACK") \/ (Serving("COMMIT") /\ pc = "commit")
  PROVE  Tail(queue) = <<>>
<1>1. queue \in Seq(Statements) /\ queue # <<>>
  BY DEF TypeOK, Serving
<1>2. \A j \in 1..Len(queue) : ~(1 < j)
  BY <1>1, TailFacts DEF Serving, LastControl, QueuedControl
<1>3. Len(Tail(queue)) = 0
  BY <1>1, <1>2, TailFacts
<1>4. Tail(queue) \in Seq(Statements)
  BY <1>1
<1>5. \A q \in Seq(Statements) : Len(q) = 0 => q = <<>>
  OBVIOUS
<1> QED BY <1>3, <1>4, <1>5

(* Every step keeps the order of the control statements.                   *)
LEMMA NextLastControl ==
  IInv /\ LastControl /\ [Next]_vars => LastControl'
<1> SUFFICES ASSUME IInv, LastControl, [Next]_vars PROVE LastControl'
  OBVIOUS
<1> TypeOK /\ CommitInv /\ QueuedControl /\ OpenWire
  BY DEF IInv, WireInv
<1> queue \in Seq(Statements)
  BY DEF TypeOK
<1> USE StatementKinds, QueueSteps
    DEF scopeVars, serverVars, LastControl, Kept, Added, Shifted, ShiftedAdded
<1>1. ASSUME NEW o \in ViewOps, Call(o) PROVE LastControl'
  BY <1>1 DEF Call
<1>2. ASSUME NEW s \in Writes, Start(s) PROVE LastControl'
  <2>1. CASE conn = "up"
    BY <1>2, <2>1 DEF Start, OpenWire, CommitInv
  <2>2. CASE conn # "up"
    BY <1>2, <2>2 DEF Start, Sent
  <2> QED BY <2>1, <2>2
<1>3. ASSUME NEW s \in Writes, Fail(s) PROVE LastControl'
  BY <1>3 DEF Fail
<1>4. CASE CallbackEnds
  BY <1>4 DEF CallbackEnds, CallbackReturns, CallbackThrows
<1>5. CASE Connect \/ Refuse \/ FinishRecords
  BY <1>5 DEF Connect, Refuse, FinishRecords, QueuedControl
<1>6. ASSUME NEW r \in Records, AppendRecord(r) PROVE LastControl'
  BY <1>6 DEF AppendRecord
<1>7. CASE StartCommit \/ Abandon
  <2>1. CASE conn = "up"
    BY <1>7, <2>1 DEF StartCommit, Abandon, Drained, OpenWire
  <2>2. CASE conn # "up"
    BY <1>7, <2>2 DEF StartCommit, Abandon, Drained, Sent
  <2> QED BY <2>1, <2>2
<1>8. CASE Rejected
  BY <1>8 DEF Rejected, BeginRejected, CommitRejected, RollbackRejected, QueuedControl,
              BeginAnswered, CommitAnswered, RollbackAnswered, Release
<1>9. ASSUME NEW ok \in BOOLEAN, ServeBegin(ok) PROVE LastControl'
  <2>1. CASE queue' = Tail(queue)
    BY <1>9, <2>1 DEF ServeBegin, Serving
  <2>2. CASE pc = "begin" /\ queue' = Sent(Tail(queue), "ROLLBACK")
    <3>1. \A i \in 1..Len(queue) : queue[i] # "ROLLBACK" /\ queue[i] # "COMMIT"
      BY <2>2 DEF QueuedControl, CommitInv
    <3>2. ShiftedAdded("ROLLBACK")
      BY <1>9, <2>2 DEF ServeBegin, Serving
    <3>3. Len(queue) \in Nat
      OBVIOUS
    <3> QED BY <3>1, <3>2, <3>3
  <2> QED
    BY <1>9, <2>1, <2>2 DEF ServeBegin, Undelivered, BeginAnswered
<1>10. ASSUME NEW ok \in BOOLEAN, ServeCommit(ok) PROVE LastControl'
  BY <1>10 DEF ServeCommit, Serving, Undelivered, CommitAnswered, Release, QueuedControl
<1>11. CASE ServeRollback
  BY <1>11 DEF ServeRollback, Serving, Undelivered, RollbackAnswered, Release
<1>12. ASSUME NEW s \in Writes, ServeOne(s) PROVE LastControl'
  BY <1>12 DEF ServeOne, ServeWrite, Serving
<1>13. CASE ServerDrops
  BY <1>13 DEF ServerDrops
<1>14. CASE LoseConnection
  BY <1>14 DEF LoseConnection
<1>15. CASE UNCHANGED vars
  BY <1>15 DEF vars
<1> QED
  BY <1>1, <1>2, <1>3, <1>4, <1>5, <1>6, <1>7, <1>8, <1>9, <1>10, <1>11, <1>12,
     <1>13, <1>14, <1>15 DEF Next, Advance, Server, ServeControl

(* A client is pooled only by the answer that ends its transaction, and    *)
(* nothing touches the connection of a pooled one.                         *)
LEMMA NextReuseInv == IInv /\ ReuseInv /\ [Next]_vars => ReuseInv'
<1> SUFFICES ASSUME IInv, ReuseInv, [Next]_vars PROVE ReuseInv'
  OBVIOUS
<1> TypeOK /\ CommitInv /\ StageInv /\ QueuedControl /\ LastControl
  BY DEF IInv, WireInv, ReuseInv
<1>0. LastControl'
  BY NextLastControl
<1> USE StatementKinds DEF scopeVars, serverVars, ReuseInv, CleanReuse
<1>1. ASSUME NEW o \in ViewOps, Call(o) PROVE ReuseInv'
  BY <1>0, <1>1 DEF Call
<1>2. ASSUME NEW s \in Writes, Start(s) \/ Fail(s) PROVE ReuseInv'
  BY <1>0, <1>2 DEF Start, Fail, CommitInv
<1>3. CASE CallbackEnds
  BY <1>0, <1>3 DEF CallbackEnds, CallbackReturns, CallbackThrows, CommitInv
<1>4. CASE Advance
  BY <1>0, <1>4 DEF Advance, Connect, Refuse, AppendRecord, FinishRecords, StartCommit,
                    Abandon, Drained, CommitInv, StageInv
<1>5. CASE Rejected
  BY <1>0, <1>5 DEF Rejected, BeginRejected, CommitRejected, RollbackRejected,
                    BeginAnswered, CommitAnswered, RollbackAnswered, Release, CommitInv
<1>6. ASSUME NEW ok \in BOOLEAN, ServeBegin(ok) PROVE ReuseInv'
  BY <1>0, <1>6 DEF ServeBegin, Serving, Undelivered, BeginAnswered, CommitInv
<1>7. ASSUME NEW ok \in BOOLEAN, ServeCommit(ok) PROVE ReuseInv'
  <2>1. CASE pc = "commit" /\ conn = "up"
    BY <1>0, <1>7, <2>1, ServedLast
    DEF ServeCommit, CommitAnswered, Release, StageInv
  <2>2. CASE ~(pc = "commit" /\ conn = "up")
    BY <1>0, <1>7, <2>2 DEF ServeCommit, Serving, Undelivered
  <2> QED BY <2>1, <2>2
<1>8. CASE ServeRollback
  <2>1. CASE pc = "rollback" /\ conn = "up"
    BY <1>0, <1>8, <2>1, ServedLast DEF ServeRollback, RollbackAnswered, Release, TypeOK
  <2>2. CASE ~(pc = "rollback" /\ conn = "up")
    BY <1>0, <1>8, <2>2 DEF ServeRollback, Serving, Undelivered
  <2> QED BY <2>1, <2>2
<1>9. ASSUME NEW s \in Writes, ServeOne(s) PROVE ReuseInv'
  BY <1>0, <1>9 DEF ServeOne, ServeWrite, Serving
<1>10. CASE ServerDrops
  BY <1>0, <1>10 DEF ServerDrops
<1>11. CASE LoseConnection
  BY <1>0, <1>11 DEF LoseConnection
<1>12. CASE UNCHANGED vars
  BY <1>0, <1>12 DEF vars
<1> QED
  BY <1>1, <1>2, <1>3, <1>4, <1>5, <1>6, <1>7, <1>8, <1>9, <1>10, <1>11, <1>12
  DEF Next, Server, ServeControl

(* A client is pooled only when its transaction certainly ended with       *)
(* nothing queued; an unconfirmed COMMIT or ROLLBACK destroys it.          *)
THEOREM CleanReuseCorrect == Spec => []CleanReuse
<1>1. Init => ReuseInv
  BY DEF Init, ReuseInv, LastControl, CleanReuse
<1>2. ReuseInv => CleanReuse
  BY DEF ReuseInv
<1> QED BY <1>1, <1>2, NextReuseInv, Inductive, PTL DEF Spec

-----------------------------------------------------------------------------
(* The refinement: Decision, Accepted and server = "committed" are the      *)
(* values OutboxTransaction gives the variables of AtomicOutbox.           *)
Decision ==
  IF commitAttempted THEN "attempted"
  ELSE IF poisoned \/ pc \in {"rollback", "settled"} THEN "abandoned"
  ELSE "open"
Accepted == IF commitAttempted THEN {o \in ViewOps : op[o] = "done"} ELSE {}
Committed == server = "committed"

AbstractStep ==
  \/ /\ Decision = "open" /\ Decision' = "attempted"
     /\ Accepted' \in SUBSET ViewOps
     /\ UNCHANGED <<durable, Committed, outcome>>
  \/ /\ Decision = "open" /\ Decision' = "abandoned"
     /\ UNCHANGED <<Accepted, durable, Committed, outcome>>
  \/ /\ Decision = "attempted" /\ ~Committed /\ Committed'
     /\ durable' = Accepted \cup Records
     /\ outcome' \in IF outcome = "none" THEN {"none", "value", "error"} ELSE {outcome}
     /\ UNCHANGED <<Decision, Accepted>>
  \/ /\ outcome = "none" /\ outcome' = "error"
     /\ Decision' = IF Decision = "open" THEN "abandoned" ELSE Decision
     /\ UNCHANGED <<Accepted, durable, Committed>>
  \/ UNCHANGED <<Decision, Accepted, durable, Committed, outcome>>

(* Serving COMMIT is the abstract commit, or changes nothing abstract.     *)
LEMMA ServeCommitRefines ==
  ASSUME IInv, NEW ok \in BOOLEAN, ServeCommit(ok)
  PROVE  AbstractStep
<1> TypeOK /\ CommitInv /\ WireInv /\ StageInv
  BY DEF IInv
<1>1. commitAttempted /\ commitAttempted'
  <2>1. queue # <<>> /\ Head(queue) = "COMMIT"
    BY DEF ServeCommit, Serving
  <2>2. 1 \in 1..Len(queue) /\ queue[1] = "COMMIT"
    BY <2>1, TailFacts DEF TypeOK
  <2>3. commitAttempted
    BY <2>2 DEF WireInv, QueuedControl
  <2>4. UNCHANGED commitAttempted
    BY DEF ServeCommit, Undelivered, CommitAnswered
  <2> QED BY <2>3, <2>4
<1>2. UNCHANGED <<Decision, Accepted>>
  BY <1>1 DEF Decision, Accepted, ServeCommit, Undelivered, scopeVars
<1>3. CASE server = "open" /\ ok
  <2>1. durable' = staged /\ ~Committed /\ Committed'
    BY <1>3 DEF ServeCommit, Committed
  <2>2. staged = {s \in Writes : op[s] = "done"}
    BY <1>1 DEF StageInv
  <2>3. staged = Accepted \cup Records
    BY <1>1, <2>2 DEF Accepted, CommitInv, CommitIsClean, Writes
  <2>4. outcome' \in IF outcome = "none" THEN {"none", "value", "error"} ELSE {outcome}
    BY <1>3 DEF ServeCommit, Undelivered, CommitAnswered, Release, CommitInv, TypeOK
  <2>5. Decision = "attempted"
    BY <1>1 DEF Decision
  <2> QED BY <1>2, <2>1, <2>3, <2>4, <2>5 DEF AbstractStep
<1>4. CASE ~(server = "open" /\ ok)
  <2>1. UNCHANGED <<durable, Committed>>
    BY <1>4 DEF ServeCommit, Committed
  <2>2. UNCHANGED outcome
    <3>1. CASE pc = "commit" /\ conn = "up"
      BY <1>4, <3>1 DEF ServeCommit, CommitAnswered, StageInv
    <3>2. CASE ~(pc = "commit" /\ conn = "up")
      BY <3>2 DEF ServeCommit, Undelivered
    <3> QED BY <3>1, <3>2
  <2> QED BY <1>2, <2>1, <2>2 DEF AbstractStep
<1> QED BY <1>3, <1>4

(* Every step is a step of AtomicOutbox or a stutter.                      *)
LEMMA StepRefines == IInv /\ [Next]_vars => AbstractStep
<1> SUFFICES ASSUME IInv, [Next]_vars PROVE AbstractStep
  OBVIOUS
<1> TypeOK /\ CommitInv /\ WireInv /\ StageInv
  BY DEF IInv
<1> USE StatementKinds DEF scopeVars, serverVars, AbstractStep, Decision, Accepted, Committed
<1>1. ASSUME NEW o \in ViewOps, Call(o) PROVE AbstractStep
  <2>1. {x \in ViewOps : op'[x] = "done"} = {x \in ViewOps : op[x] = "done"}
    BY <1>1 DEF Call, TypeOK
  <2> QED BY <1>1, <2>1 DEF Call
<1>2. ASSUME NEW s \in Writes, Start(s) \/ Fail(s) PROVE AbstractStep
  <2>1. ~commitAttempted /\ UNCHANGED <<pc, commitAttempted, durable, server, outcome>>
    BY <1>2 DEF Start, Fail, CommitInv
  <2>2. poisoned => poisoned'
    BY <1>2 DEF Start, Fail
  <2> QED BY <2>1, <2>2
<1>3. CASE CallbackEnds
  BY <1>3 DEF CallbackEnds, CallbackReturns, CallbackThrows, CommitInv
<1>4. CASE Connect \/ Refuse \/ FinishRecords
  <2>1. ~commitAttempted /\ ~commitAttempted'
    BY <1>4 DEF Connect, Refuse, FinishRecords, CommitInv
  <2>2. CASE Connect
    BY <2>1, <2>2 DEF Connect
  <2>3. CASE Refuse
    BY <2>1, <2>3 DEF Refuse, CommitInv
  <2>4. CASE FinishRecords
    BY <2>1, <2>4 DEF FinishRecords
  <2> QED BY <1>4, <2>2, <2>3, <2>4
<1>5. ASSUME NEW r \in Records, AppendRecord(r) PROVE AbstractStep
  BY <1>5 DEF AppendRecord, CommitInv
<1>6. CASE StartCommit
  BY <1>6 DEF StartCommit, Drained, CommitInv
<1>7. CASE Abandon
  BY <1>7 DEF Abandon, Drained, CommitInv
<1>8. CASE Rejected
  BY <1>8 DEF Rejected, BeginRejected, CommitRejected, RollbackRejected,
              BeginAnswered, CommitAnswered, RollbackAnswered, Release, CommitInv
<1>9. ASSUME NEW ok \in BOOLEAN, ServeBegin(ok) PROVE AbstractStep
  <2>1. queue # <<>> /\ Head(queue) = "BEGIN"
    BY <1>9 DEF ServeBegin, Serving
  <2>2. 1 \in 1..Len(queue) /\ queue[1] = "BEGIN"
    BY <2>1, TailFacts DEF TypeOK
  <2>3. callback = "pending"
    BY <2>2 DEF WireInv, QueuedControl
  <2>4. ~commitAttempted /\ server # "committed"
    BY <2>3 DEF CommitInv, StageInv
  <2>5. ~commitAttempted' /\ UNCHANGED <<durable, outcome, poisoned>>
    BY <1>9, <2>4 DEF ServeBegin, Undelivered, BeginAnswered
  <2>6. UNCHANGED Committed
    BY <1>9, <2>4 DEF ServeBegin
  <2>7. pc' = pc \/ (pc = "begin" /\ pc' \in {"callback", "rollback"})
    BY <1>9 DEF ServeBegin, Undelivered, BeginAnswered
  <2> QED BY <2>4, <2>5, <2>6, <2>7
<1>10. ASSUME NEW ok \in BOOLEAN, ServeCommit(ok) PROVE AbstractStep
  BY <1>10, ServeCommitRefines
<1>11. CASE ServeRollback
  <2>1. UNCHANGED <<Accepted, durable, Committed, commitAttempted, poisoned>>
    BY <1>11 DEF ServeRollback, Undelivered, RollbackAnswered
  <2>2. CASE pc = "rollback" /\ conn = "up"
    BY <1>11, <2>1, <2>2 DEF ServeRollback, RollbackAnswered, Release, CommitInv, TypeOK
  <2>3. CASE ~(pc = "rollback" /\ conn = "up")
    BY <1>11, <2>1, <2>3 DEF ServeRollback, Undelivered
  <2> QED BY <2>2, <2>3
<1>12. ASSUME NEW s \in Writes, ServeOne(s) PROVE AbstractStep
  <2>1. server \in {"open", "aborted"} /\ op[s] \in {"sent", "failed"}
    BY <1>12, ServedInTransaction
  <2>2. ~commitAttempted
    BY <2>1, StatementsDistinct DEF CommitInv, CommitIsClean, Writes
  <2>3. server' \in {"open", "aborted"}
    BY <1>12, <2>1 DEF ServeOne, ServeWrite
  <2>4. UNCHANGED <<pc, commitAttempted, durable, outcome>> /\ (poisoned => poisoned')
    BY <1>12 DEF ServeOne, ServeWrite
  <2> QED BY <2>1, <2>2, <2>3, <2>4
<1>13. CASE ServerDrops
  BY <1>13 DEF ServerDrops
<1>14. CASE LoseConnection
  <2>1. {o \in ViewOps : op'[o] = "done"} = {o \in ViewOps : op[o] = "done"}
    BY <1>14 DEF LoseConnection, TypeOK
  <2> QED BY <1>14, <2>1 DEF LoseConnection
<1>15. CASE UNCHANGED vars
  BY <1>15 DEF vars
<1> QED
  BY <1>1, <1>2, <1>3, <1>4, <1>5, <1>6, <1>7, <1>8, <1>9, <1>10, <1>11, <1>12,
     <1>13, <1>14, <1>15 DEF Next, Advance, Server, ServeControl

(* Every behaviour of the transaction is one AtomicOutbox allows: all of   *)
(* the callback's writes and the records commit together, or nothing does. *)
THEOREM Refinement == Spec => AtomicOutboxSpec
<1>1. Init => Outbox!Init
  BY DEF Init, Outbox!Init
<1>2. IInv /\ [Next]_vars => [Outbox!Next]_Outbox!vars
  <2>1. AbstractStep => [Outbox!Next]_Outbox!vars
    BY DEF AbstractStep, Decision, Accepted, Committed, Outbox!Next, Outbox!vars,
           Outbox!Attempt, Outbox!Abandon, Outbox!Commit, Outbox!AnswerError
  <2> QED BY <2>1, StepRefines
<1> QED BY <1>1, <1>2, Inductive, PTL DEF Spec, AtomicOutboxSpec, Outbox!Spec

-----------------------------------------------------------------------------
(* The Kysely bridge.                                                      *)

(* The outer scope admits as long as its callback has not ended.           *)
Gate == pc \in {"connect", "begin", "callback"} => accepting

(* Only a confirmed COMMIT is answered with a value.                       *)
ValueCommitted == outcome = "value" => server = "committed"

(* The driver's tasks against the outer operations they stand for.         *)
TaskInv ==
  \A o \in ViewOps :
    /\ task[o] \in {"idle", "admitted", "rejected"} <=> op[o] = "idle"
    /\ task[o] = "done" => op[o] = "done"
    /\ task[o] = "failed" => failed

(* The driver against the outer callback.                                  *)
DriverInv ==
  /\ admitting <=> body = "running"
  /\ body = "threw" => failed
  /\ callback = "pending" =>
       body = "running" /\ ~failed /\ \A o \in ViewOps : task[o] = "idle"
  /\ callback \in {"returned", "threw"} => body # "running" /\ Undone = {}
  /\ callback = "returned" => ~failed

KyselyInv ==
  KyselyTypeOK /\ IInv /\ Gate /\ ValueCommitted /\ TaskInv /\ DriverInv /\ AdmittedReaches

-----------------------------------------------------------------------------
(* Every step of the bridge is one of the outer transaction, or none.      *)
LEMMA OuterStep == [KyselyNext]_kvars => [Next]_vars
  BY DEF KyselyNext, kvars, Execute, Misuse, Driver, Forward, Settle, BodySettles, BodyEnds,
         Finish, CallbackEnds, Outer, Next

(* The bridge implements the outer transaction.                            *)
THEOREM KyselyImplements == KyselySpec => Spec
<1>1. KyselyInit => Init
  BY DEF KyselyInit
<1> QED BY <1>1, OuterStep, PTL DEF KyselySpec, Spec

(* What the outer transaction does to its callback and its operations      *)
(* unless it is called.                                                    *)
LEMMA OuterEffect ==
  ASSUME IInv, Outer
  PROVE  /\ callback' = callback \/ (callback = "pending" /\ callback' = "running")
         /\ \A o \in ViewOps :
              \/ op'[o] = op[o]
              \/ (op[o] \in {"admitted", "sent"}) /\ op'[o] \in {"sent", "done", "failed"}
<1> op \in [Writes -> OpStates] /\ CommitInv
  BY DEF IInv, TypeOK
<1> USE StatementKinds DEF scopeVars, serverVars
<1>1. ASSUME NEW s \in Writes, Start(s) \/ Fail(s)
      PROVE  /\ callback' = callback
             /\ \A o \in ViewOps : \/ op'[o] = op[o]
                                   \/ (op[o] \in {"admitted", "sent"}) /\ op'[o] \in {"sent", "done", "failed"}
  BY <1>1 DEF Start, Fail
<1>2. CASE Advance
  <2>1. ASSUME NEW r \in Records, AppendRecord(r)
        PROVE  callback' = callback /\ \A o \in ViewOps : op'[o] = op[o]
    BY <2>1, StatementsDistinct DEF AppendRecord
  <2> QED BY <1>2, <2>1 DEF Advance, Connect, Refuse, FinishRecords, StartCommit, Abandon
<1>3. CASE Rejected
  BY <1>3 DEF Rejected, BeginRejected, CommitRejected, RollbackRejected,
              BeginAnswered, CommitAnswered, RollbackAnswered, CommitInv
<1>4. CASE ServeControl
  BY <1>4 DEF ServeControl, ServeBegin, ServeCommit, ServeRollback, Undelivered,
              BeginAnswered, CommitAnswered, RollbackAnswered, CommitInv
<1>5. ASSUME NEW s \in Writes, ServeOne(s)
      PROVE  /\ callback' = callback
             /\ \A o \in ViewOps : \/ op'[o] = op[o]
                                   \/ (op[o] \in {"admitted", "sent"}) /\ op'[o] \in {"sent", "done", "failed"}
  BY <1>5 DEF ServeOne, ServeWrite
<1>6. CASE ServerDrops \/ LoseConnection
  BY <1>6 DEF ServerDrops, LoseConnection
<1> QED BY <1>1, <1>2, <1>3, <1>4, <1>5, <1>6 DEF Outer, Server

(* The outer scope closes only behind its callback.                        *)
LEMMA NextGate == IInv /\ Gate /\ [Next]_vars => Gate'
<1> SUFFICES ASSUME IInv, Gate, [Next]_vars PROVE Gate'
  OBVIOUS
<1> CommitInv
  BY DEF IInv
<1> USE DEF scopeVars, serverVars, Gate
<1>1. CASE \/ \E o \in ViewOps : Call(o)
           \/ \E s \in Writes : Start(s) \/ Fail(s)
           \/ CallbackEnds \/ LoseConnection
  BY <1>1 DEF Call, Start, Fail, CallbackEnds, CallbackReturns, CallbackThrows, LoseConnection
<1>2. CASE Advance
  BY <1>2 DEF Advance, Connect, Refuse, FinishRecords, AppendRecord, StartCommit, Abandon
<1>3. CASE Rejected
  BY <1>3 DEF Rejected, BeginRejected, CommitRejected, RollbackRejected,
              BeginAnswered, CommitAnswered, RollbackAnswered, Release
<1>4. CASE Server
  BY <1>4 DEF Server, ServeControl, ServeBegin, ServeCommit, ServeRollback, ServeOne,
              ServeWrite, ServerDrops, Undelivered, BeginAnswered, CommitAnswered,
              RollbackAnswered, Release
<1>5. CASE UNCHANGED vars
  BY <1>5 DEF vars
<1> QED BY <1>1, <1>2, <1>3, <1>4, <1>5 DEF Next

(* A value is answered for a confirmed COMMIT, and that is final.          *)
LEMMA NextValue == IInv /\ ValueCommitted /\ [Next]_vars => ValueCommitted'
<1> SUFFICES ASSUME IInv, ValueCommitted, [Next]_vars PROVE ValueCommitted'
  OBVIOUS
<1> TypeOK /\ CommitInv /\ StageInv /\ QueuedControl
  BY DEF IInv, WireInv
<1> queue \in Seq(Statements)
  BY DEF TypeOK
<1> USE StatementKinds DEF scopeVars, serverVars, ValueCommitted
<1>1. CASE \/ \E o \in ViewOps : Call(o)
           \/ \E s \in Writes : Start(s) \/ Fail(s)
           \/ CallbackEnds \/ LoseConnection
  BY <1>1 DEF Call, Start, Fail, CallbackEnds, CallbackReturns, CallbackThrows, LoseConnection
<1>2. CASE Advance
  BY <1>2 DEF Advance, Connect, Refuse, FinishRecords, AppendRecord, StartCommit, Abandon, CommitInv
<1>3. CASE Rejected
  BY <1>3 DEF Rejected, BeginRejected, CommitRejected, RollbackRejected,
              BeginAnswered, CommitAnswered, RollbackAnswered, Release, CommitInv
<1>4. ASSUME NEW ok \in BOOLEAN, ServeBegin(ok) PROVE ValueCommitted'
  <2>1. callback = "pending"
    BY <1>4, TailFacts DEF ServeBegin, Serving, QueuedControl
  <2>2. server # "committed"
    BY <2>1 DEF CommitInv, StageInv
  <2> QED BY <1>4, <2>2 DEF ServeBegin, Undelivered, BeginAnswered
<1>5. ASSUME NEW ok \in BOOLEAN, ServeCommit(ok) PROVE ValueCommitted'
  BY <1>5 DEF ServeCommit, Undelivered, CommitAnswered, Release, StageInv
<1>6. CASE ServeRollback
  BY <1>6 DEF ServeRollback, Undelivered, RollbackAnswered, Release
<1>7. CASE (\E s \in Writes : ServeOne(s)) \/ ServerDrops
  BY <1>7 DEF ServeOne, ServeWrite, ServerDrops
<1>8. CASE UNCHANGED vars
  BY <1>8 DEF vars
<1> QED BY <1>1, <1>2, <1>3, <1>4, <1>5, <1>6, <1>7, <1>8 DEF Next, Server, ServeControl

-----------------------------------------------------------------------------
(* A call of the outer view while its callback runs is admitted.           *)
LEMMA ForwardAdmitted ==
  ASSUME KyselyInv, NEW o \in ViewOps, Forward(o)
  PROVE  /\ UNCHANGED <<callback, body, admitting, failed>>
         /\ op' = [op EXCEPT ![o] = "admitted"]
         /\ task' = [task EXCEPT ![o] = "called"]
<1>1. callback = "running"
  BY DEF Forward, KyselyInv, DriverInv, Undone, KyselyTypeOK, TypeOK
<1>2. callbackOpen /\ accepting
  BY <1>1 DEF KyselyInv, IInv, CommitInv, Gate, callbackOpen
<1> QED BY <1>2 DEF Forward, Call

(* The driver's part keeps its types.                                      *)
LEMMA NextKyselyType == KyselyInv /\ [KyselyNext]_kvars => KyselyTypeOK'
<1> SUFFICES ASSUME KyselyInv, [KyselyNext]_kvars PROVE KyselyTypeOK'
  OBVIOUS
<1>1. TypeOK'
  BY OuterStep, NextTypeOK DEF KyselyInv, KyselyTypeOK
<1>2. CASE \E o \in ViewOps : Execute(o) \/ Forward(o) \/ Settle(o)
  BY <1>1, <1>2 DEF KyselyInv, KyselyTypeOK, Execute, Forward, Settle
<1>3. CASE Misuse \/ BodySettles \/ Finish
  BY <1>1, <1>3 DEF KyselyInv, KyselyTypeOK, Misuse, BodySettles, BodyEnds, Finish, kyselyVars
<1>4. CASE Outer /\ UNCHANGED kyselyVars
  BY <1>1, <1>4 DEF KyselyInv, KyselyTypeOK, kyselyVars
<1>5. CASE UNCHANGED kvars
  BY <1>1, <1>5 DEF KyselyInv, KyselyTypeOK, kyselyVars, kvars
<1> QED BY <1>2, <1>3, <1>4, <1>5 DEF KyselyNext, Driver

(* A task and its outer operation move together.                           *)
LEMMA NextTask ==
  KyselyInv /\ [KyselyNext]_kvars => TaskInv' /\ AdmittedReaches'
<1> SUFFICES ASSUME KyselyInv, [KyselyNext]_kvars PROVE TaskInv' /\ AdmittedReaches'
  OBVIOUS
<1> /\ op \in [Writes -> OpStates] /\ failed \in BOOLEAN
    /\ task \in [ViewOps -> {"idle", "admitted", "called", "done", "failed", "rejected"}]
  BY DEF KyselyInv, KyselyTypeOK, TypeOK
<1> TaskInv /\ AdmittedReaches /\ IInv
  BY DEF KyselyInv
<1> USE StatementKinds DEF TaskInv, AdmittedReaches
<1>1. ASSUME NEW o \in ViewOps, Execute(o) PROVE TaskInv' /\ AdmittedReaches'
  BY <1>1 DEF Execute, vars, scopeVars
<1>2. ASSUME NEW o \in ViewOps, Forward(o) PROVE TaskInv' /\ AdmittedReaches'
  BY <1>2, ForwardAdmitted
<1>3. ASSUME NEW o \in ViewOps, Settle(o) PROVE TaskInv' /\ AdmittedReaches'
  BY <1>3 DEF Settle, Answered, vars, scopeVars
<1>4. CASE Misuse \/ BodySettles
  BY <1>4 DEF Misuse, BodySettles, BodyEnds, vars, scopeVars
<1>5. CASE Finish
  BY <1>5 DEF Finish, CallbackReturns, CallbackThrows, kyselyVars, scopeVars
<1>6. CASE Outer /\ UNCHANGED kyselyVars
  BY <1>6, OuterEffect DEF kyselyVars
<1>7. CASE UNCHANGED kvars
  BY <1>7 DEF kvars, vars, scopeVars, kyselyVars
<1> QED BY <1>1, <1>2, <1>3, <1>4, <1>5, <1>6, <1>7 DEF KyselyNext, Driver

(* The outer callback ends once the driver is closed and drained.          *)
LEMMA NextDriver == KyselyInv /\ [KyselyNext]_kvars => DriverInv'
<1> SUFFICES ASSUME KyselyInv, [KyselyNext]_kvars PROVE DriverInv'
  OBVIOUS
<1> /\ failed \in BOOLEAN /\ admitting \in BOOLEAN
    /\ body \in {"running", "returned", "threw"}
    /\ callback \in {"pending", "running", "returned", "threw"}
    /\ task \in [ViewOps -> {"idle", "admitted", "called", "done", "failed", "rejected"}]
  BY DEF KyselyInv, KyselyTypeOK, TypeOK
<1> DriverInv /\ IInv
  BY DEF KyselyInv
<1>a. Undone = {} <=> \A x \in ViewOps : task[x] \notin {"admitted", "called"}
  BY DEF Undone
<1>b. Undone' = {} <=> \A x \in ViewOps : task'[x] \notin {"admitted", "called"}
  BY DEF Undone
<1> USE <1>a, <1>b DEF DriverInv
<1>1. ASSUME NEW o \in ViewOps, Execute(o) PROVE DriverInv'
  BY <1>1 DEF Execute, vars
<1>2. ASSUME NEW o \in ViewOps, Forward(o) PROVE DriverInv'
  <2>1. callback \notin {"pending", "returned", "threw"}
    BY <1>2 DEF Forward, Call
  <2> QED BY <1>2, <2>1, ForwardAdmitted
<1>3. ASSUME NEW o \in ViewOps, Settle(o) PROVE DriverInv'
  <2>1. callback \notin {"pending", "returned", "threw"}
    BY <1>3 DEF Settle
  <2> QED BY <1>3, <2>1 DEF Settle, vars
<1>4. CASE Misuse
  BY <1>4 DEF Misuse, vars
<1>5. CASE BodySettles
  <2>1. callback = "running"
    BY <1>5 DEF BodySettles, BodyEnds, IInv, CommitInv, callbackOpen
  <2> QED BY <1>5, <2>1 DEF BodySettles, BodyEnds, vars
<1>6. CASE Finish
  BY <1>6 DEF Finish, CallbackReturns, CallbackThrows, kyselyVars
<1>7. CASE Outer /\ UNCHANGED kyselyVars
  BY <1>7, OuterEffect DEF kyselyVars
<1>8. CASE UNCHANGED kvars
  BY <1>8 DEF kvars, vars, kyselyVars
<1> QED BY <1>1, <1>2, <1>3, <1>4, <1>5, <1>6, <1>7, <1>8 DEF KyselyNext, Driver

(* The invariant is inductive.                                             *)
THEOREM KyselyInductive == KyselySpec => []KyselyInv
<1>1. KyselyInit => KyselyInv
  <2> SUFFICES ASSUME KyselyInit PROVE KyselyInv
    OBVIOUS
  <2>1. IInv /\ TypeOK
    BY InitIInv DEF KyselyInit, IInv
  <2>2. \A o \in ViewOps : op[o] = "idle" /\ task[o] = "idle"
    BY StatementKinds DEF KyselyInit, Init
  <2> QED BY <2>1, <2>2 DEF KyselyInit, Init, KyselyInv, KyselyTypeOK, Gate, ValueCommitted,
                            TaskInv, DriverInv, AdmittedReaches
<1>2. KyselyInv /\ [KyselyNext]_kvars => KyselyInv'
  BY OuterStep, NextIInv, NextGate, NextValue, NextKyselyType, NextTask, NextDriver
     DEF KyselyInv
<1> QED BY <1>1, <1>2, PTL DEF KyselySpec

(* What the driver admitted is always admitted by the outer transaction.   *)
THEOREM ReachesCorrect == KyselySpec => []AdmittedReaches
<1>1. KyselyInv => AdmittedReaches
  BY DEF KyselyInv
<1> QED BY <1>1, KyselyInductive, PTL

(* A value means that all the callback asked for is committed.             *)
THEOREM ValueCorrect == KyselySpec => []ValueMeansAll
<1>1. KyselyInv => ValueMeansAll
  <2> SUFFICES ASSUME KyselyInv, outcome = "value" PROVE
        /\ body = "returned"
        /\ ~failed
        /\ {o \in ViewOps : task[o] \notin {"idle", "rejected"}} \subseteq durable
    BY DEF ValueMeansAll
  <2>1. CommitInv /\ StageInv /\ server = "committed"
    BY DEF KyselyInv, IInv, ValueCommitted
  <2>2. commitAttempted /\ callback = "returned"
    BY <2>1 DEF StageInv, CommitInv, CommitIsClean
  <2>3. body = "returned" /\ ~failed /\ Undone = {}
    BY <2>2 DEF KyselyInv, DriverInv, KyselyTypeOK
  <2>4. durable = {s \in Writes : op[s] = "done"}
    BY <2>1, <2>2 DEF StageInv
  <2>5. ASSUME NEW o \in ViewOps, task[o] \notin {"idle", "rejected"} PROVE o \in durable
    <3>1. task[o] = "done"
      BY <2>3, <2>5 DEF KyselyInv, TaskInv, KyselyTypeOK, Undone
    <3> QED BY <2>4, <3>1, StatementKinds DEF KyselyInv, TaskInv
  <2> QED BY <2>3, <2>5
<1> QED BY <1>1, KyselyInductive, PTL

(* No statement of the bridge runs outside the transaction either.         *)
THEOREM KyselyNoStray == KyselySpec => []NoStray
  BY KyselyImplements, NoStrayCorrect, PTL

(* And what goes through the bridge keeps the outbox's promise: all of the *)
(* statements and the records commit together, or nothing does.            *)
THEOREM KyselyRefinement == KyselySpec => AtomicOutboxSpec
  BY KyselyImplements, Refinement, PTL
=============================================================================
