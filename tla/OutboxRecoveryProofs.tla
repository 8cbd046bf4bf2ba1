------------------------ MODULE OutboxRecoveryProofs ------------------------
(***************************************************************************)
(* Proofs that recovery keeps its types and budgets, that of the calls     *)
(* deciding on one failure at most one is applied, and that answers are    *)
(* honest, for any number of calls and any bounds.                         *)
(***************************************************************************)
EXTENDS OutboxRecovery, TLAPS

(* Calls that passed the guard work on a failed record of the version they *)
(* expect, and write its requeued form.                                    *)
ReadOf(c) ==
    /\ pc[c] \in {"validating", "admitted", "writing"} \/ c \in wire \cup applied =>
         read[c].state = "failed" /\ VersionOf(read[c]) = expected[c]
    /\ pc[c] \in {"admitted", "writing"} \/ c \in wire =>
         \E now \in Times : next[c] = Requeued(read[c], budget[c], now)
    /\ pc[c] \in {"inspected", "reading", "validating", "admitted", "writing"} \/ c \in wire =>
         budget[c] # 0

ReadInv == \A c \in Calls : ReadOf(c)

(* Where the UPDATE of a call may be.                                      *)
WireInv ==
  \A c \in Calls :
    /\ c \in wire => pc[c] \in {"writing", "uncertain"} /\ c \notin applied
    /\ c \in applied => pc[c] \in {"requeued", "uncertain"}
    /\ pc[c] = "requeued" => c \in applied
    /\ pc[c] = "writing" => c \in wire

(* Once a call is applied, its failure is over: the record is pending, or  *)
(* a later claim has raised the attempts past it for good.                 *)
AppliedInv ==
  /\ \A c \in applied :
       \/ record.made > expected[c].made
       \/ record.made = expected[c].made /\ record.state = "pending"
  /\ OneWinner

BudgetInv == record.made <= record.max

LifeInv ==
  /\ adapter = "closed" => session = "stopping"
  /\ store = "disposed" => adapter = "closed" /\ pending = {}

IInv == TypeOK /\ ReadInv /\ WireInv /\ AppliedInv /\ BudgetInv /\ LifeInv

-----------------------------------------------------------------------------
(* Facts about records.                                                    *)

(* The version of a record is typed.                                       *)
LEMMA VersionType ==
  ASSUME NEW r \in Record
  PROVE  VersionOf(r) \in Version
BY DEF Record, Version, VersionOf

(* A requeued record is typed, is pending, and keeps its attempts.         *)
LEMMA RequeuedType ==
  ASSUME NEW r \in Record, NEW v, NEW n \in Nat, NEW now \in Times,
         Requeueable(r, v, n, now)
  PROVE  /\ Requeued(r, n, now) \in Record
         /\ Requeued(r, n, now).max = r.made + n
<1>1. Later(now, r.updated) \in Times
  BY RecoveryAssumption DEF Record, Times, Requeueable, Later
<1>2. r.made + n \in Counts
  BY RecoveryAssumption DEF Record, Counts, Requeueable
<1>. QED  BY <1>1, <1>2 DEF Record, Requeued

-----------------------------------------------------------------------------
(* Types.                                                                  *)

(* The initial state is typed.                                             *)
LEMMA InitType == Init => TypeOK
<1>1. Failed \in Record  BY RecoveryAssumption DEF Failed, Record, Times, Counts
<1>2. VersionOf(Failed) \in Version  BY <1>1, VersionType
<1>. QED  BY <1>1, <1>2 DEF Init, TypeOK

(* Every step keeps the types: the guard bounds what is written.           *)
LEMMA NextType == TypeOK /\ [Next]_vars => TypeOK'
<1>. SUFFICES ASSUME TypeOK, [Next]_vars PROVE TypeOK'  OBVIOUS
<1>. USE DEF callVars, lifeVars, Refusals, Answers
<1>1. ASSUME NEW c \in Calls, NEW n \in Budgets, Inspect(c, n) PROVE TypeOK'
  <2>1. n \in Nat /\ VersionOf(record) \in Version
    BY RecoveryAssumption, VersionType DEF TypeOK
  <2>. QED  BY <1>1, <2>1 DEF TypeOK, Inspect
<1>2. ASSUME NEW c \in Calls, Call(c) PROVE TypeOK'
  BY <1>2 DEF TypeOK, Call
<1>3. ASSUME NEW c \in Calls, Write(c) PROVE TypeOK'
  BY <1>3 DEF TypeOK, Write
<1>4. ASSUME NEW c \in Calls, NEW ok \in BOOLEAN, NEW now \in Times, Read(c, ok, now) PROVE TypeOK'
  BY <1>4 DEF TypeOK, Read
<1>5. ASSUME NEW c \in Calls, NEW ok \in BOOLEAN, NEW now \in Times, Validated(c, ok, now) PROVE TypeOK'
  <2>1. CASE ok /\ Requeueable(read[c], expected[c], budget[c], now)
    <3>1. Requeued(read[c], budget[c], now) \in Record  BY <2>1, RequeuedType DEF TypeOK
    <3>. QED  BY <1>5, <2>1, <3>1 DEF TypeOK, Validated
  <2>2. CASE ~(ok /\ Requeueable(read[c], expected[c], budget[c], now))
    BY <1>5, <2>2 DEF TypeOK, Validated
  <2>. QED  BY <2>1, <2>2
<1>6. ASSUME NEW c \in Calls, NEW b \in BOOLEAN, Execute(c, b) PROVE TypeOK'
  <2>1. record' \in Record
    BY <1>6 DEF TypeOK, Execute, Record
  <2>. QED  BY <1>6, <2>1 DEF TypeOK, Execute
<1>7. ASSUME NEW c \in Calls, NEW b \in BOOLEAN, GiveUp(c, b) PROVE TypeOK'
  BY <1>7 DEF TypeOK, GiveUp
<1>8. ASSUME NEW now \in Times, Claim(now) PROVE TypeOK'
  <2>1. record.made + 1 \in Counts
    BY <1>8, RecoveryAssumption DEF TypeOK, Record, Claim, Counts
  <2>2. record' \in Record
    BY <1>8, <2>1 DEF TypeOK, Record, Claim, Publish
  <2>. QED  BY <1>8, <2>2 DEF TypeOK, Claim, Publish
<1>9. ASSUME NEW now \in Times, Settle(now) PROVE TypeOK'
  <2>1. record.made + 0 = record.made
    BY DEF TypeOK, Record, Counts
  <2>2. PICK st \in {"published", "failed", "pending"} : Publish(st, 0, now)
    BY <1>9 DEF Settle
  <2>3. record' \in Record
    BY <2>1, <2>2 DEF TypeOK, Record, Publish
  <2>. QED  BY <2>2, <2>3 DEF TypeOK, Publish
<1>10. CASE Edit
  <2>1. record' \in Record  BY <1>10 DEF TypeOK, Record, Edit
  <2>. QED  BY <1>10, <2>1 DEF TypeOK, Edit
<1>11. CASE Stop  BY <1>11 DEF TypeOK, Stop
<1>12. CASE CloseAdapter  BY <1>12 DEF TypeOK, CloseAdapter
<1>13. CASE Dispose  BY <1>13 DEF TypeOK, Dispose
<1>14. CASE UNCHANGED vars  BY <1>14 DEF TypeOK, vars
<1>. QED
  BY <1>1, <1>2, <1>3, <1>4, <1>5, <1>6, <1>7, <1>8, <1>9, <1>10, <1>11, <1>12, <1>13, <1>14
  DEF Next, Retry, Database, Publisher

-----------------------------------------------------------------------------
(* The inductive invariant, part by part.                                  *)

(* An UPDATE is on the wire, or applied, only for a call that waits for its *)
(* answer or gave up.                                                      *)
LEMMA NextWire == TypeOK /\ WireInv /\ [Next]_vars => WireInv'
<1>. SUFFICES ASSUME TypeOK, WireInv, [Next]_vars PROVE WireInv'  OBVIOUS
<1>1. ASSUME NEW c \in Calls, NEW n \in Budgets, Inspect(c, n) PROVE WireInv'
  BY <1>1 DEF TypeOK, WireInv, Inspect
<1>2. ASSUME NEW c \in Calls, Call(c) PROVE WireInv'
  BY <1>2 DEF TypeOK, WireInv, Call
<1>3. ASSUME NEW c \in Calls, Write(c) PROVE WireInv'
  BY <1>3 DEF TypeOK, WireInv, Write
<1>4. ASSUME NEW c \in Calls, NEW ok \in BOOLEAN, NEW now \in Times, Read(c, ok, now) PROVE WireInv'
  BY <1>4 DEF TypeOK, WireInv, Read
<1>5. ASSUME NEW c \in Calls, NEW ok \in BOOLEAN, NEW now \in Times, Validated(c, ok, now) PROVE WireInv'
  BY <1>5 DEF TypeOK, WireInv, Validated
<1>6. ASSUME NEW c \in Calls, NEW b \in BOOLEAN, Execute(c, b) PROVE WireInv'
  BY <1>6 DEF TypeOK, WireInv, Execute
<1>7. ASSUME NEW c \in Calls, NEW b \in BOOLEAN, GiveUp(c, b) PROVE WireInv'
  BY <1>7 DEF TypeOK, WireInv, GiveUp
<1>8. CASE UNCHANGED <<pc, wire, applied>>
  BY <1>8 DEF WireInv
<1>. QED
  BY <1>1, <1>2, <1>3, <1>4, <1>5, <1>6, <1>7, <1>8
  DEF Next, Retry, Database, Publisher,
      Claim, Settle, Publish, Edit, Stop, CloseAdapter, Dispose, vars, callVars

(* A call that passed its guard works on the failed record it expects until *)
(* its UPDATE is executed, whatever becomes of the record.                 *)
LEMMA NextRead == TypeOK /\ WireInv /\ ReadInv /\ [Next]_vars => ReadInv'
<1>. SUFFICES ASSUME TypeOK, WireInv, ReadInv, [Next]_vars, NEW d \in Calls
              PROVE  ReadOf(d)'
  BY DEF ReadInv
<1>0. ReadOf(d)  BY DEF ReadInv
<1>1. ASSUME NEW c \in Calls, NEW n \in Budgets, Inspect(c, n) PROVE ReadOf(d)'
  BY <1>1, <1>0, RecoveryAssumption DEF TypeOK, WireInv, ReadOf, Inspect
<1>2. ASSUME NEW c \in Calls, Call(c) PROVE ReadOf(d)'
  BY <1>2, <1>0 DEF TypeOK, WireInv, ReadOf, Call
<1>3. ASSUME NEW c \in Calls, Write(c) PROVE ReadOf(d)'
  BY <1>3, <1>0 DEF TypeOK, WireInv, ReadOf, Write
<1>4. ASSUME NEW c \in Calls, NEW ok \in BOOLEAN, NEW now \in Times, Read(c, ok, now) PROVE ReadOf(d)'
  BY <1>4, <1>0 DEF TypeOK, WireInv, ReadOf, Read, Requeueable
<1>5. ASSUME NEW c \in Calls, NEW ok \in BOOLEAN, NEW now \in Times, Validated(c, ok, now) PROVE ReadOf(d)'
  BY <1>5, <1>0 DEF TypeOK, WireInv, ReadOf, Validated
<1>6. ASSUME NEW c \in Calls, NEW b \in BOOLEAN, Execute(c, b) PROVE ReadOf(d)'
  BY <1>6, <1>0 DEF TypeOK, WireInv, ReadOf, Execute
<1>7. ASSUME NEW c \in Calls, NEW b \in BOOLEAN, GiveUp(c, b) PROVE ReadOf(d)'
  BY <1>7, <1>0 DEF TypeOK, WireInv, ReadOf, GiveUp
<1>8. CASE UNCHANGED <<callVars, wire, applied>>
  BY <1>8, <1>0 DEF ReadOf, callVars
<1>. QED
  BY <1>1, <1>2, <1>3, <1>4, <1>5, <1>6, <1>7, <1>8
  DEF Next, Retry, Database, Publisher,
      Claim, Settle, Publish, Edit, Stop, CloseAdapter, Dispose, vars, callVars

(* The adapter closes after the session, the store after the drain.        *)
LEMMA NextLife == TypeOK /\ LifeInv /\ [Next]_vars => LifeInv'
<1>. SUFFICES ASSUME TypeOK, LifeInv, [Next]_vars PROVE LifeInv'  OBVIOUS
<1>1. ASSUME NEW c \in Calls, NEW n \in Budgets, Inspect(c, n) PROVE LifeInv'
  BY <1>1 DEF TypeOK, LifeInv, pending, Inspect, lifeVars
<1>2. ASSUME NEW c \in Calls, Call(c) PROVE LifeInv'
  BY <1>2 DEF TypeOK, LifeInv, pending, Call, lifeVars
<1>3. ASSUME NEW c \in Calls, Write(c) PROVE LifeInv'
  BY <1>3 DEF TypeOK, LifeInv, pending, Write, lifeVars
<1>4. ASSUME NEW c \in Calls, NEW ok \in BOOLEAN, NEW now \in Times, Read(c, ok, now) PROVE LifeInv'
  BY <1>4 DEF TypeOK, LifeInv, pending, Read, lifeVars
<1>5. ASSUME NEW c \in Calls, NEW ok \in BOOLEAN, NEW now \in Times, Validated(c, ok, now) PROVE LifeInv'
  BY <1>5 DEF TypeOK, LifeInv, pending, Validated, lifeVars
<1>6. ASSUME NEW c \in Calls, NEW b \in BOOLEAN, Execute(c, b) PROVE LifeInv'
  BY <1>6 DEF TypeOK, LifeInv, pending, Execute, lifeVars
<1>7. ASSUME NEW c \in Calls, NEW b \in BOOLEAN, GiveUp(c, b) PROVE LifeInv'
  BY <1>7 DEF TypeOK, LifeInv, pending, GiveUp, lifeVars
<1>8. CASE UNCHANGED <<callVars, lifeVars>>
  BY <1>8 DEF LifeInv, pending, callVars, lifeVars
<1>9. CASE Stop  BY <1>9 DEF LifeInv, pending, Stop, callVars
<1>10. CASE CloseAdapter  BY <1>10 DEF LifeInv, pending, CloseAdapter, callVars
<1>11. CASE Dispose  BY <1>11 DEF LifeInv, pending, Dispose, callVars
<1>. QED
  BY <1>1, <1>2, <1>3, <1>4, <1>5, <1>6, <1>7, <1>8, <1>9, <1>10, <1>11
  DEF Next, Retry, Database, Publisher, Claim, Settle, Publish, Edit, vars

(* What an UPDATE that finds its record writes.                            *)
LEMMA ExecuteWrites ==
  ASSUME TypeOK, ReadInv, NEW c \in Calls, NEW b \in BOOLEAN, Execute(c, b), Unchanged(c)
  PROVE  /\ record.state = "failed"
         /\ record.made = expected[c].made
         /\ record'.state = "pending"
         /\ record'.made = record.made
         /\ record'.max = record.made + budget[c]
         /\ record'.content = record.content
         /\ budget[c] \in Nat \ {0}
<1>1. c \in wire /\ record = read[c]  BY DEF Execute, Unchanged
<1>2. record.state = "failed" /\ VersionOf(record) = expected[c]
  BY <1>1 DEF ReadInv, ReadOf
<1>3. PICK now \in Times : next[c] = Requeued(read[c], budget[c], now)
  BY <1>1 DEF ReadInv, ReadOf
<1>4. next[c].max = record.made + budget[c]
  BY <1>1, <1>3 DEF Requeued, TypeOK, Record
<1>5. budget[c] \in Nat \ {0}
  BY <1>1 DEF ReadInv, ReadOf, TypeOK
<1>6. record' = [record EXCEPT !.state = "pending", !.max = next[c].max,
                               !.updated = next[c].updated]
  BY DEF Execute
<1>. QED  BY <1>2, <1>4, <1>5, <1>6 DEF TypeOK, Record, VersionOf

(* The attempts stay within what was granted.                              *)
LEMMA NextBudget == TypeOK /\ ReadInv /\ BudgetInv /\ [Next]_vars => BudgetInv'
<1>. SUFFICES ASSUME TypeOK, ReadInv, BudgetInv, [Next]_vars PROVE BudgetInv'  OBVIOUS
<1>0. record.made \in Int /\ record.max \in Int
  BY RecoveryAssumption DEF TypeOK, Record, Counts
<1>1. ASSUME NEW c \in Calls, NEW b \in BOOLEAN, Execute(c, b), Unchanged(c) PROVE BudgetInv'
  <2>1. budget[c] \in Nat /\ record'.made = record.made /\ record'.max = record.made + budget[c]
    BY <1>1, ExecuteWrites
  <2>. QED  BY <2>1, <1>0 DEF BudgetInv
<1>2. ASSUME NEW now \in Times, Claim(now) PROVE BudgetInv'
  BY <1>2, <1>0 DEF BudgetInv, Claim, Publish, TypeOK, Record
<1>3. ASSUME NEW now \in Times, Settle(now) PROVE BudgetInv'
  <2>1. record'.made = record.made + 0 /\ record'.max = record.max
    BY <1>3 DEF Settle, Publish, TypeOK, Record
  <2>. QED  BY <2>1, <1>0 DEF BudgetInv
<1>4. CASE Edit  BY <1>4 DEF BudgetInv, Edit, TypeOK, Record
<1>5. CASE UNCHANGED record  BY <1>5 DEF BudgetInv
<1>. QED
  BY <1>1, <1>2, <1>3, <1>4, <1>5
  DEF Next, Retry, Database, Publisher, Inspect, Call, Read, Validated, Write, Execute,
      GiveUp, Stop, CloseAdapter, Dispose, vars

(* Once a call is applied its failure stays over.                          *)
LEMMA NextApplied ==
  TypeOK /\ WireInv /\ ReadInv /\ AppliedInv /\ [Next]_vars => AppliedInv'
<1>. SUFFICES ASSUME TypeOK, WireInv, ReadInv, AppliedInv, [Next]_vars PROVE AppliedInv'
  OBVIOUS
<1>0. record.made \in Int /\ \A d \in Calls : expected[d].made \in Int
  BY RecoveryAssumption DEF TypeOK, Record, Version, Counts
<1>1. ASSUME NEW c \in Calls, NEW n \in Budgets, Inspect(c, n) PROVE AppliedInv'
  <2>1. c \notin applied  BY <1>1 DEF WireInv, Inspect
  <2>2. \A d \in applied : expected'[d] = expected[d]
    BY <1>1, <2>1 DEF Inspect, TypeOK
  <2>. QED  BY <1>1, <2>2 DEF AppliedInv, OneWinner, Inspect
<1>2. ASSUME NEW c \in Calls, NEW b \in BOOLEAN, Execute(c, b), Unchanged(c) PROVE AppliedInv'
  <2>1. /\ record.state = "failed"
        /\ record.made = expected[c].made
        /\ record'.state = "pending"
        /\ record'.made = record.made
    BY <1>2, ExecuteWrites
  <2>2. \A d \in applied : record.made > expected[d].made  BY <2>1 DEF AppliedInv
  <2>3. applied' = applied \cup {c} /\ expected' = expected  BY <1>2 DEF Execute
  <2>4. \A d \in applied : expected[d].made # expected[c].made
    BY <2>1, <2>2, <1>0 DEF TypeOK
  <2>5. OneWinner'  BY <2>3, <2>4 DEF AppliedInv, OneWinner
  <2>6. \A d \in applied' : \/ record'.made > expected'[d].made
                            \/ record'.made = expected'[d].made /\ record'.state = "pending"
    BY <2>1, <2>2, <2>3
  <2>. QED  BY <2>5, <2>6 DEF AppliedInv
<1>3. ASSUME NEW now \in Times, Claim(now) PROVE AppliedInv'
  <2>1. record'.made = record.made + 1 /\ UNCHANGED <<applied, expected>>
    BY <1>3 DEF Claim, Publish, callVars, TypeOK, Record
  <2>2. \A d \in applied : record'.made > expected[d].made
    BY <2>1, <1>0 DEF AppliedInv, TypeOK
  <2>. QED  BY <2>1, <2>2 DEF AppliedInv, OneWinner
<1>4. ASSUME NEW now \in Times, Settle(now) PROVE AppliedInv'
  <2>1. record.state = "active" /\ record'.made = record.made + 0
        /\ UNCHANGED <<applied, expected>>
    BY <1>4 DEF Settle, Publish, callVars, TypeOK, Record
  <2>2. \A d \in applied : record'.made > expected[d].made
    BY <2>1, <1>0 DEF AppliedInv, TypeOK
  <2>. QED  BY <2>1, <2>2 DEF AppliedInv, OneWinner
<1>5. CASE Edit
  <2>1. record'.made = record.made /\ record'.state = record.state
        /\ UNCHANGED <<applied, expected>>
    BY <1>5 DEF Edit, callVars, TypeOK, Record
  <2>. QED  BY <2>1 DEF AppliedInv, OneWinner
<1>6. CASE UNCHANGED <<record, expected, applied>>
  BY <1>6 DEF AppliedInv, OneWinner
<1>. QED
  BY <1>1, <1>2, <1>3, <1>4, <1>5, <1>6
  DEF Next, Retry, Database, Publisher, Call, Read, Validated, Write, Execute,
      GiveUp, Stop, CloseAdapter, Dispose, callVars, vars

(* Every part holds at the start.                                          *)
LEMMA InitParts == Init => WireInv /\ ReadInv /\ AppliedInv /\ BudgetInv /\ LifeInv
BY DEF Init, WireInv, ReadInv, ReadOf, AppliedInv, OneWinner, BudgetInv, LifeInv, Failed

(* The conjunction is inductive.                                           *)
THEOREM Inductive == Spec => []IInv
<1>1. Init => IInv  BY InitType, InitParts DEF IInv
<1>2. IInv /\ [Next]_vars => IInv'
  BY NextType, NextWire, NextRead, NextApplied, NextBudget, NextLife DEF IInv
<1>. QED  BY <1>1, <1>2, PTL DEF Spec

-----------------------------------------------------------------------------
(* What follows of it.                                                     *)

(* Every variable keeps its type; the timestamps and counters written back *)
(* stay within their bounds.                                               *)
THEOREM TypeCorrect == Spec => []TypeOK
<1>1. IInv => TypeOK  BY DEF IInv
<1>. QED  BY <1>1, Inductive, PTL

(* Of the calls that inspected the same failure, one at most is applied.   *)
THEOREM OneWinnerCorrect == Spec => []OneWinner
<1>1. IInv => OneWinner  BY DEF IInv, AppliedInv
<1>. QED  BY <1>1, Inductive, PTL

(* A call that is refused was not and will not be applied; one that is     *)
(* told "requeued" was.                                                    *)
THEOREM HonestAnswerCorrect == Spec => []HonestAnswer
<1>1. IInv => HonestAnswer  BY DEF IInv, TypeOK, WireInv, HonestAnswer, Refusals
<1>. QED  BY <1>1, Inductive, PTL

(* The store is disposed only when no write of this application is open.   *)
THEOREM DrainedCorrect == Spec => []DrainedBeforeDispose
<1>1. IInv => DrainedBeforeDispose  BY DEF IInv, LifeInv, DrainedBeforeDispose
<1>. QED  BY <1>1, Inductive, PTL

(* What a successful recovery leaves is exactly what its call validated.   *)
THEOREM ValidatedOnlyCorrect == Spec => ValidatedOnly
<1>. DEFINE A == \A c \in applied' \ applied : record' = next[c]
<1>1. IInv /\ [Next]_vars => [A]_vars
  <2>. SUFFICES ASSUME IInv, Next, NEW c \in applied' \ applied PROVE record' = next[c]
    OBVIOUS
  <2>1. PICK b \in BOOLEAN : c \in Calls /\ Execute(c, b) /\ Unchanged(c)
    BY DEF Next, Retry, Database, Publisher, Inspect, Call, Read, Validated, Write, Execute,
       GiveUp, Claim, Settle, Publish, Edit, Stop, CloseAdapter, Dispose
  <2>2. PICK now \in Times : next[c] = Requeued(record, budget[c], now)
    BY <2>1 DEF IInv, ReadInv, ReadOf, Execute, Unchanged
  <2>3. record' = [record EXCEPT !.state = "pending", !.max = next[c].max,
                                 !.updated = next[c].updated]
    BY <2>1 DEF Execute
  <2>. QED  BY <2>2, <2>3 DEF Requeued, IInv, TypeOK, Record
<1>. QED  BY <1>1, Inductive, PTL DEF ValidatedOnly, Spec

(* The lifetime attempts are never reset and never exceed the last budget, *)
(* and only the recovery of a failed publication grants a new one.         *)
THEOREM AttemptsKeptCorrect == Spec => AttemptsKept
<1>. DEFINE A ==
       /\ record'.made >= record.made
       /\ record'.made <= record'.max
       /\ record'.max # record.max => record.state = "failed" /\ record'.made < record'.max
<1>1. IInv /\ IInv' /\ [Next]_vars => [A]_vars
  <2>. SUFFICES ASSUME IInv, IInv', [Next]_vars PROVE A  OBVIOUS
  <2>0. record.made \in Int /\ record.max \in Int /\ BudgetInv'
    BY RecoveryAssumption DEF IInv, TypeOK, Record, Counts
  <2>1. ASSUME NEW c \in Calls, NEW b \in BOOLEAN, Execute(c, b), Unchanged(c) PROVE A
    <3>1. /\ record.state = "failed"
          /\ record'.made = record.made
          /\ record'.max = record.made + budget[c]
          /\ budget[c] \in Nat \ {0}
      BY <2>1, ExecuteWrites DEF IInv
    <3>. QED  BY <3>1, <2>0
  <2>2. ASSUME NEW now \in Times, Claim(now) PROVE A
    <3>1. record'.made = record.made + 1 /\ record'.max = record.max
      BY <2>2 DEF Claim, Publish, IInv, TypeOK, Record
    <3>. QED  BY <3>1, <2>0 DEF BudgetInv
  <2>3. ASSUME NEW now \in Times, Settle(now) PROVE A
    <3>1. record'.made = record.made + 0 /\ record'.max = record.max
      BY <2>3 DEF Settle, Publish, IInv, TypeOK, Record
    <3>. QED  BY <3>1, <2>0 DEF BudgetInv
  <2>4. CASE Edit
    <3>1. record'.made = record.made /\ record'.max = record.max
      BY <2>4 DEF Edit, IInv, TypeOK, Record
    <3>. QED  BY <3>1, <2>0 DEF BudgetInv
  <2>5. CASE UNCHANGED record  BY <2>5, <2>0 DEF BudgetInv
  <2>. QED
    BY <2>1, <2>2, <2>3, <2>4, <2>5
    DEF Next, Retry, Database, Publisher, Inspect, Call, Read, Validated, Write, Execute,
        GiveUp, Stop, CloseAdapter, Dispose, vars
<1>. QED  BY <1>1, Inductive, PTL DEF AttemptsKept, Spec

(* A recovery changes the publication exactly as it was validated, and     *)
(* grants attempts only to a failed one.                                   *)
THEOREM RecoveryExactCorrect == Spec => RecoveryExact
  BY ValidatedOnlyCorrect, AttemptsKeptCorrect DEF RecoveryExact
-----------------------------------------------------------------------------
(* The refinement: a call of retryFailed is one compare-and-set.           *)

(* What a call was told, as AtomicRecovery sees it.                        *)
Told == [c \in Calls |-> IF pc[c] \in Answers \cup {"idle"} THEN pc[c] ELSE "asked"]

(* A step of one call changes what that call was told and no other.        *)
LEMMA ToldMoves ==
  ASSUME TypeOK, NEW c \in Calls, NEW p, pc' = [pc EXCEPT ![c] = p]
  PROVE  Told' = [Told EXCEPT ![c] = IF p \in Answers \cup {"idle"} THEN p ELSE "asked"]
BY DEF TypeOK, Told

(* A call on its way stays unanswered.                                     *)
LEMMA ToldStays ==
  ASSUME TypeOK, NEW c \in Calls, NEW p, pc' = [pc EXCEPT ![c] = p],
         pc[c] \notin Answers \cup {"idle"}, p \notin Answers \cup {"idle"}
  PROVE  Told' = Told
BY DEF TypeOK, Told

(* The answer of a call whose UPDATE was not executed with it.             *)
LEMMA Declines ==
  ASSUME TypeOK, NEW c \in Calls, NEW a \in Refusals \cup {"uncertain"},
         pc[c] \notin Answers \cup {"idle"}, pc' = [pc EXCEPT ![c] = a],
         UNCHANGED <<record, expected, budget, applied>>
  PROVE  Recovery!Next
<1>1. Told[c] = "asked" /\ a \in {"refused", "conflict", "unavailable", "uncertain"}
  BY DEF Told, Refusals
<1>2. a \in Answers  BY DEF Answers
<1>3. Told' = [Told EXCEPT ![c] = a]  BY <1>2, ToldMoves
<1>. QED  BY <1>1, <1>3 DEF Recovery!Next, Recovery!Decline, Told

(* The UPDATE that finds its record is the compare-and-set.                *)
LEMMA ExecuteRequeues ==
  ASSUME IInv, NEW c \in Calls, NEW b \in BOOLEAN, Execute(c, b), Unchanged(c)
  PROVE  Recovery!Requeue(c)
<1>. USE DEF IInv
<1>1. c \in wire /\ record = read[c] /\ c \notin applied /\ pc[c] \in {"writing", "uncertain"}
  BY DEF Execute, Unchanged, WireInv
<1>2. record.state = "failed" /\ VersionOf(record) = expected[c]
  BY <1>1 DEF ReadInv, ReadOf
<1>3. PICK now \in Times : next[c] = Requeued(record, budget[c], now)
  BY <1>1 DEF ReadInv, ReadOf
<1>4. record \in Record /\ record.updated \in Int /\ now \in Int
  BY DEF TypeOK, Record, Times
<1>5. record' = [record EXCEPT !.state = "pending", !.max = next[c].max,
                               !.updated = next[c].updated]
  BY DEF Execute
<1>6. next[c].max = record.made + budget[c] /\ next[c].updated = Later(now, record.updated)
  BY <1>3, <1>4 DEF Requeued, Record
<1>7. record'.updated = Later(now, record.updated) /\ record.updated < record'.updated
  BY <1>4, <1>5, <1>6 DEF Record, Later
<1>8. record' = [record EXCEPT !.state = "pending", !.max = record.made + budget[c],
                               !.updated = record'.updated]
  BY <1>5, <1>6, <1>7
<1>9. \/ Told[c] = "uncertain" /\ UNCHANGED Told
      \/ \E a \in {"requeued", "uncertain"} :
           Told[c] = "asked" /\ Told' = [Told EXCEPT ![c] = a]
  <2>1. CASE pc[c] = "uncertain"
    <3>1. pc' = pc  BY <2>1 DEF Execute, TypeOK
    <3>. QED  BY <2>1, <3>1 DEF Told, Answers
  <2>2. CASE pc[c] = "writing"
    <3>. DEFINE a == IF b THEN "requeued" ELSE "uncertain"
    <3>1. pc' = [pc EXCEPT ![c] = a]  BY <2>2 DEF Execute, TypeOK
    <3>2. a \in Answers /\ a \in {"requeued", "uncertain"}  BY DEF Answers
    <3>3. Told' = [Told EXCEPT ![c] = a]  BY <3>1, <3>2, ToldMoves
    <3>4. Told[c] = "asked"  BY <2>2 DEF Told, Answers, Refusals
    <3>. QED  BY <3>2, <3>3, <3>4
  <2>. QED  BY <1>1, <2>1, <2>2
<1>10. applied' = applied \cup {c} /\ UNCHANGED <<expected, budget>>
  BY DEF Execute
<1>. QED
  BY <1>1, <1>2, <1>7, <1>8, <1>9, <1>10
  DEF Recovery!Requeue, Recovery!VersionOf, VersionOf, Told

(* Publishers and edits only use up what was granted.                      *)
LEMMA PublishersKeep ==
  ASSUME IInv, IInv', Publisher \/ Edit
  PROVE  Recovery!Elsewhere
<1>. USE DEF IInv
<1>1. record \in Record /\ record.made \in Int /\ record.max \in Int
      /\ record.made + 0 = record.made
  BY DEF TypeOK, Record, Counts
<1>2. record'.made \in Int /\ record'.made <= record'.max
  BY DEF BudgetInv, TypeOK, Record, Counts
<1>3. UNCHANGED <<pc, expected, budget, applied>>
  BY DEF Publisher, Claim, Settle, Publish, Edit, callVars
<1>4. ASSUME NEW now \in Times, Claim(now)
      PROVE  record'.made = record.made + 1 /\ record'.max = record.max
             /\ record.state \notin {"failed", "published"}
  BY <1>1, <1>4 DEF Claim, Publish, Record
<1>5. ASSUME NEW now \in Times, Settle(now)
      PROVE  record'.made = record.made /\ record'.max = record.max
             /\ record.state \notin {"failed", "published"}
  BY <1>1, <1>5 DEF Settle, Publish, Record
<1>6. CASE Edit
  <2>1. record'.made = record.made /\ record'.max = record.max /\ record'.state = record.state
    BY <1>1, <1>6 DEF Edit, Record
  <2>. QED  BY <1>1, <1>2, <1>3, <2>1 DEF Recovery!Elsewhere
<1>7. CASE Publisher
  <2>1. record'.max = record.max /\ record.made <= record'.made
        /\ record.state \notin {"failed", "published"}
    BY <1>1, <1>4, <1>5, <1>7 DEF Publisher
  <2>. QED  BY <1>1, <1>2, <1>3, <2>1 DEF Recovery!Elsewhere
<1>. QED  BY <1>6, <1>7

(* Every step of the calls, of the database and of the application is the  *)
(* compare-and-set, an answer, the inspection, or unseen.                  *)
LEMMA StepRecovers ==
  ASSUME IInv, IInv', [Next]_vars
  PROVE  [Recovery!Next]_Recovery!vars
<1>. DEFINE Step == [Recovery!Next]_Recovery!vars
<1>. USE DEF IInv
<1>0. ASSUME UNCHANGED <<record, expected, budget, applied, Told>> PROVE Step
  BY <1>0 DEF Recovery!vars, Told
<1>1. ASSUME NEW c \in Calls, NEW n \in Budgets, Inspect(c, n) PROVE Step
  <2>1. Told' = [Told EXCEPT ![c] = "asked"]
    BY <1>1, ToldMoves DEF Inspect, Answers, Refusals
  <2>2. Told[c] = "idle"  BY <1>1 DEF Inspect, Told
  <2>3. Recovery!Inspect(c)
    BY <1>1, <2>1, <2>2 DEF Inspect, Recovery!Inspect, Recovery!VersionOf, VersionOf, Told
  <2>. QED  BY <2>3 DEF Recovery!Next
<1>2. ASSUME NEW c \in Calls, NEW p, pc' = [pc EXCEPT ![c] = p],
             pc[c] \notin Answers \cup {"idle"},
             p \in {"reading", "validating", "admitted", "writing"}
                   \cup Refusals \cup {"uncertain"},
             UNCHANGED <<record, expected, budget, applied>>
      PROVE  Step
  <2>1. CASE p \in Refusals \cup {"uncertain"}  BY <1>2, <2>1, Declines
  <2>2. CASE p \in {"reading", "validating", "admitted", "writing"}
    <3>1. p \notin Answers \cup {"idle"}  BY <2>2 DEF Answers, Refusals
    <3>. QED  BY <1>0, <1>2, <3>1, ToldStays
  <2>. QED  BY <1>2, <2>1, <2>2
<1>3. {"inspected", "reading", "validating", "admitted", "writing"}
        \cap (Answers \cup {"idle"}) = {}
  BY DEF Answers, Refusals
<1>4. ASSUME NEW c \in Calls, Call(c) PROVE Step
  BY <1>2, <1>3, <1>4 DEF Call, Refusals
<1>5. ASSUME NEW c \in Calls, NEW ok \in BOOLEAN, NEW now \in Times, Read(c, ok, now)
      PROVE  Step
  BY <1>2, <1>3, <1>5 DEF Read, Refusals
<1>6. ASSUME NEW c \in Calls, NEW ok \in BOOLEAN, NEW now \in Times, Validated(c, ok, now)
      PROVE  Step
  BY <1>2, <1>3, <1>6 DEF Validated, Refusals
<1>7. ASSUME NEW c \in Calls, Write(c) PROVE Step
  BY <1>2, <1>3, <1>7 DEF Write
<1>8. ASSUME NEW c \in Calls, NEW b \in BOOLEAN, Execute(c, b) PROVE Step
  <2>1. CASE Unchanged(c)  BY <1>8, <2>1, ExecuteRequeues DEF Recovery!Next
  <2>2. CASE ~Unchanged(c) /\ pc[c] = "writing"
    <3>1. pc' = [pc EXCEPT ![c] = IF b THEN "conflict" ELSE "uncertain"]
          /\ UNCHANGED <<record, expected, budget, applied>>
      BY <1>8, <2>2 DEF Execute, TypeOK
    <3>. QED  BY <1>2, <1>3, <2>2, <3>1 DEF Refusals
  <2>3. CASE ~Unchanged(c) /\ pc[c] # "writing"
    <3>1. UNCHANGED <<pc, record, expected, budget, applied>>
      BY <1>8, <2>3 DEF Execute, TypeOK
    <3>. QED  BY <1>0, <3>1 DEF Told
  <2>. QED  BY <2>1, <2>2, <2>3
<1>9. ASSUME NEW c \in Calls, NEW b \in BOOLEAN, GiveUp(c, b) PROVE Step
  BY <1>2, <1>3, <1>9 DEF GiveUp
<1>10. CASE Publisher \/ Edit  BY <1>10, PublishersKeep DEF Recovery!Next
<1>11. CASE UNCHANGED <<record, callVars, applied>>
  BY <1>0, <1>11 DEF callVars, Told
<1>. QED
  BY <1>1, <1>4, <1>5, <1>6, <1>7, <1>8, <1>9, <1>10, <1>11
  DEF Next, Retry, Database, Stop, CloseAdapter, Dispose, vars

(* Each recovery is at most one compare-and-set of the failure its operator *)
(* inspected; only an uncertain one may still take effect.                 *)
THEOREM AtomicRecoveryRefined == Spec => AtomicRecoverySpec
<1>1. Init => Recovery!Init
  BY DEF Init, Failed, VersionOf, Recovery!Init, Recovery!VersionOf, Answers
<1>2. IInv /\ IInv' /\ [Next]_vars => [Recovery!Next]_Recovery!vars  BY StepRecovers
<1>. QED  BY <1>1, <1>2, Inductive, PTL DEF Spec, AtomicRecoverySpec, Recovery!Spec
=============================================================================
