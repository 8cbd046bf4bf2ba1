--------------------------- MODULE JobClientProofs ---------------------------
(***************************************************************************)
(* Proofs about the client of a job.  A cancellation is refused only for a *)
(* cause, and acknowledged only when it stopped something of its own       *)
(* contract, however workers move the job between its calls; and what a    *)
(* wait tells its caller is true of its bounds.                            *)
(***************************************************************************)
EXTENDS JobClient, TLAPS

(* A cancellation that nothing keeps from reaching the job: no storage     *)
(* call failed, nobody else moved the job, and it is neither absent nor    *)
(* over.  It may fan out meanwhile, if a flow is cancelled.                *)
Unhindered ==
  /\ ours /\ ~failed /\ ~moved
  /\ job.state \in {"waiting", "active", "children"}
  /\ kind = "job" => ~fanned /\ view

(* What an unhindered cancellation of a flow knows of the job at each of   *)
(* its calls: the call fits the state the job is in, or the job fanned     *)
(* out, and then it looks again and finds the manifest.                    *)
FlowCall ==
  /\ pc \notin {"identify", "poll", "reread"}
  /\ pc = "view" => job.state = "waiting" \/ (view /\ job.state = "children")
  /\ pc = "cancel" => job.state = "waiting"
  /\ pc = "request" => job.state \in {"active", "children"}
  /\ pc = "cancelFlow" => job.state = "children"
  /\ pc \in {"recheck", "flow"} => manifest

(* The same of a job's own cancellation, which never fans out meanwhile.   *)
JobCall ==
  /\ pc \in {"identify", "view", "cancel", "cancelFlow", "poll", "request"}
  /\ pc = "cancel" => job.state \in {"waiting", "active"}
  /\ pc \in {"poll", "request"} => job.state = "active"
  /\ pc = "cancelFlow" => job.state = "children"

(* A cancellation is at the call its job asks for, as long as it is        *)
(* unhindered and not answered.                                            *)
CallInv ==
  Unhindered =>
    /\ answer # "error"
    /\ answer = "none" => IF kind = "flow" THEN FlowCall ELSE JobCall

(* A parent that waits for its children has its manifest.                  *)
ManifestInv == job.state = "children" => manifest

(* No call that changes the job is reached with an id of another contract, *)
(* and the flow is read again only after its cancellation was accepted.    *)
OursInv ==
  /\ pc \notin {"manifest", "job", "recheck", "identify"} => ours
  /\ stopped => ours
  /\ pc = "reread" => stopped
  /\ answer = "ok" => stopped

CancelInv == TypeOK /\ CallInv /\ ManifestInv /\ OursInv

-----------------------------------------------------------------------------
(* Types.                                                                  *)

(* The initial state is typed.                                             *)
LEMMA InitType == Init => TypeOK
BY DEF Init, TypeOK, States, Calls

(* A disjunction is true or false.                                         *)
LEMMA Boolean == \A a, b : (a \/ b) \in BOOLEAN
OBVIOUS

(* Every step keeps the types.                                             *)
LEMMA NextType == TypeOK /\ [Next]_vars => TypeOK'
<1>. SUFFICES ASSUME TypeOK, [Next]_vars PROVE TypeOK'  OBVIOUS
<1>. DEFINE Rest == /\ job' \in [state : States, asked : BOOLEAN]
                    /\ manifest' \in BOOLEAN /\ ours' \in BOOLEAN /\ view' \in BOOLEAN
                    /\ kind' \in {"job", "flow"}
                    /\ pc' \in Calls
                    /\ answer' \in {"none", "ok", "error"}
                    /\ stopped' \in BOOLEAN /\ fanned' \in BOOLEAN /\ moved' \in BOOLEAN
<1>0. Rest /\ failed' \in BOOLEAN => TypeOK'  BY DEF TypeOK
<1>. USE DEF TypeOK, States, Calls, world, history, others, Reads, GoTo, Answer, Refused
<1>1. ASSUME NEW ok \in BOOLEAN,
             \/ ReadManifest(ok) \/ ReadJob(ok) \/ Recheck(ok)
             \/ Identify(ok) \/ Poll(ok) \/ View(ok) \/ Reread(ok)
      PROVE  TypeOK'
  <2>1. failed' = (failed \/ ~ok) \/ failed' = (failed \/ (view /\ ~ok))
    BY <1>1 DEF ReadManifest, ReadJob, Recheck, Identify, Poll, View, Reread
  <2>2. failed' \in BOOLEAN  BY <2>1, Boolean
  <2>3. Rest
    BY <1>1 DEF ReadManifest, ReadJob, Recheck, Identify, Poll, View, Reread
  <2>. QED  BY <1>0, <2>2, <2>3
<1>2. ASSUME NEW ok \in BOOLEAN, Cancel(ok) \/ Request(ok) \/ CancelFlow(ok) \/ Flow(ok)
      PROVE  TypeOK'
  <2>1. failed' = (failed \/ ~ok)
    BY <1>2 DEF Cancel, Request, CancelFlow, Flow, Executed
  <2>2. failed' \in BOOLEAN  BY <2>1, Boolean
  <2>3. Rest
    <3>1. CASE Cancel(ok) \/ Request(ok)
      <4>1. job' \in [state : States, asked : BOOLEAN]
        BY <3>1 DEF Cancel, Request, Cancelled, Asked
      <4>2. pc' \in Calls /\ answer' \in {"none", "ok", "error"}
        BY <3>1 DEF Cancel, Request, Executed
      <4>. QED  BY <3>1, <4>1, <4>2 DEF Cancel, Request, Accepts
    <3>2. CASE CancelFlow(ok) \/ Flow(ok)
      <4>1. job' \in [state : States, asked : BOOLEAN]
        BY <3>2 DEF CancelFlow, Flow, FlowEffect, Cancelled, Asked
      <4>2. pc' \in Calls /\ answer' \in {"none", "ok", "error"}
        BY <3>2 DEF CancelFlow, Flow, Executed
      <4>. QED  BY <3>2, <4>1, <4>2 DEF CancelFlow, Flow, Accepts
    <3>. QED  BY <1>2, <3>1, <3>2
  <2>. QED  BY <1>0, <2>2, <2>3
<1>3. CASE Unreached  BY <1>3 DEF Unreached
<1>4. CASE FanOut  BY <1>4 DEF FanOut
<1>5. ASSUME NEW to \in States, Move(to) PROVE TypeOK'
  <2>1. (job.asked /\ to # "waiting") \in BOOLEAN  OBVIOUS
  <2>2. job' \in [state : States, asked : BOOLEAN]  BY <1>5, <2>1 DEF Move
  <2>. QED  BY <1>5, <2>2 DEF Move
<1>6. CASE UNCHANGED vars  BY <1>6 DEF vars
<1>. QED  BY <1>1, <1>2, <1>3, <1>4, <1>5, <1>6 DEF Next

-----------------------------------------------------------------------------
(* The inductive invariant, part by part.                                  *)

(* What hinders a cancellation hinders it for good.                        *)
LEMMA Hindered == TypeOK /\ [Next]_vars => (Unhindered' => Unhindered)
<1>. SUFFICES ASSUME TypeOK, [Next]_vars, Unhindered' PROVE Unhindered  OBVIOUS
<1>. USE DEF TypeOK, Unhindered, world, history, others, Reads
<1>1. ASSUME NEW ok \in BOOLEAN, ReadManifest(ok) \/ ReadJob(ok) \/ Recheck(ok)
      PROVE  Unhindered
  BY <1>1 DEF ReadManifest, ReadJob, Recheck
<1>2. ASSUME NEW ok \in BOOLEAN, Identify(ok) \/ Poll(ok) \/ View(ok) \/ Reread(ok)
      PROVE  Unhindered
  BY <1>2 DEF Identify, Poll, View, Reread
<1>3. ASSUME NEW ok \in BOOLEAN, Cancel(ok) \/ Request(ok) PROVE Unhindered
  BY <1>3 DEF Cancel, Request, Cancelled, Asked, Accepts, Executed
<1>4. ASSUME NEW ok \in BOOLEAN, CancelFlow(ok) \/ Flow(ok) PROVE Unhindered
  BY <1>4 DEF CancelFlow, Flow, FlowEffect, FlowAccepts, Cancelled, Asked, Accepts, Executed
<1>5. CASE Unreached  BY <1>5 DEF Unreached
<1>6. CASE FanOut  BY <1>6 DEF FanOut
<1>7. ASSUME NEW to \in States, Move(to) PROVE Unhindered  BY <1>7 DEF Move
<1>8. CASE UNCHANGED vars  BY <1>8 DEF vars
<1>. QED  BY <1>1, <1>2, <1>3, <1>4, <1>5, <1>6, <1>7, <1>8 DEF Next

(* The manifest is stored with the fan-out, and never removed.             *)
LEMMA NextManifest == TypeOK /\ ManifestInv /\ [Next]_vars => ManifestInv'
<1>. SUFFICES ASSUME TypeOK, ManifestInv, [Next]_vars PROVE ManifestInv'  OBVIOUS
<1>. USE DEF TypeOK, ManifestInv, world, history, others, Reads
<1>1. ASSUME NEW ok \in BOOLEAN,
             \/ ReadManifest(ok) \/ ReadJob(ok) \/ Recheck(ok)
             \/ Identify(ok) \/ Poll(ok) \/ View(ok) \/ Reread(ok)
      PROVE  ManifestInv'
  BY <1>1 DEF ReadManifest, ReadJob, Recheck, Identify, Poll, View, Reread
<1>2. ASSUME NEW ok \in BOOLEAN, Cancel(ok) \/ Request(ok) \/ CancelFlow(ok) \/ Flow(ok)
      PROVE  ManifestInv'
  BY <1>2 DEF Cancel, Request, CancelFlow, Flow, FlowEffect, Cancelled, Asked, Accepts
<1>3. CASE Unreached \/ FanOut \/ UNCHANGED vars  BY <1>3 DEF Unreached, FanOut, vars
<1>4. ASSUME NEW to \in States, Move(to) PROVE ManifestInv'  BY <1>4 DEF Move, Moves
<1>. QED  BY <1>1, <1>2, <1>3, <1>4 DEF Next

(* An id is looked up before anything is done to its job.                  *)
LEMMA NextOurs == TypeOK /\ OursInv /\ [Next]_vars => OursInv'
<1>. SUFFICES ASSUME TypeOK, OursInv, [Next]_vars PROVE OursInv'  OBVIOUS
<1>. USE DEF TypeOK, Calls, OursInv, world, history, others, Reads, At, GoTo, Answer, Refused
<1>1. ASSUME NEW ok \in BOOLEAN, ReadManifest(ok) \/ ReadJob(ok) \/ Recheck(ok)
      PROVE  OursInv'
  BY <1>1 DEF ReadManifest, ReadJob, Recheck
<1>2. ASSUME NEW ok \in BOOLEAN, Identify(ok) \/ Poll(ok) \/ View(ok) \/ Reread(ok)
      PROVE  OursInv'
  BY <1>2 DEF Identify, Poll, View, Reread
<1>3. ASSUME NEW ok \in BOOLEAN, Cancel(ok) \/ Request(ok) PROVE OursInv'
  BY <1>3 DEF Cancel, Request, Accepts, Executed
<1>4. ASSUME NEW ok \in BOOLEAN, CancelFlow(ok) \/ Flow(ok) PROVE OursInv'
  BY <1>4 DEF CancelFlow, Flow, Accepts, Executed
<1>5. CASE Unreached  BY <1>5 DEF Unreached
<1>6. CASE FanOut  BY <1>6 DEF FanOut
<1>7. ASSUME NEW to \in States, Move(to) PROVE OursInv'  BY <1>7 DEF Move
<1>8. CASE UNCHANGED vars  BY <1>8 DEF vars
<1>. QED  BY <1>1, <1>2, <1>3, <1>4, <1>5, <1>6, <1>7, <1>8 DEF Next

(* An unhindered cancellation goes from the call its job asks for to the   *)
(* next one it asks for, and is not refused.                               *)
LEMMA NextCall == CancelInv /\ [Next]_vars => CallInv'
<1>. SUFFICES ASSUME CancelInv, [Next]_vars, Unhindered'
              PROVE  /\ answer' # "error"
                     /\ answer' = "none" => IF kind' = "flow" THEN FlowCall' ELSE JobCall'
  BY DEF CallInv
<1>. DEFINE Fits == /\ answer' # "error"
                    /\ answer' = "none" => IF kind' = "flow" THEN FlowCall' ELSE JobCall'
<1>0. /\ Unhindered /\ answer # "error" /\ TypeOK /\ ManifestInv
      /\ answer = "none" => IF kind = "flow" THEN FlowCall ELSE JobCall
  BY Hindered DEF CancelInv, CallInv
<1>. USE DEF TypeOK, Calls, Unhindered, FlowCall, JobCall, ManifestInv, world, history, others,
             Reads, At, GoTo, Answer, Refused
<1>1. ASSUME NEW ok \in BOOLEAN, ReadManifest(ok) PROVE Fits
  BY <1>0, <1>1 DEF ReadManifest
<1>2. ASSUME NEW ok \in BOOLEAN, ReadJob(ok) PROVE Fits
  BY <1>0, <1>2 DEF ReadJob, Decoded
<1>3. ASSUME NEW ok \in BOOLEAN, Recheck(ok) PROVE Fits
  BY <1>0, <1>3 DEF Recheck
<1>4. ASSUME NEW ok \in BOOLEAN, Identify(ok) PROVE Fits
  BY <1>0, <1>4 DEF Identify, Decoded
<1>5. ASSUME NEW ok \in BOOLEAN, Poll(ok) PROVE Fits
  BY <1>0, <1>5 DEF Poll, Decoded
<1>6. ASSUME NEW ok \in BOOLEAN, View(ok) PROVE Fits
  BY <1>0, <1>6 DEF View
<1>7. ASSUME NEW ok \in BOOLEAN, Reread(ok) PROVE Fits
  BY <1>0, <1>7 DEF Reread
<1>8. ASSUME NEW ok \in BOOLEAN, Cancel(ok) PROVE Fits
  BY <1>0, <1>8 DEF Cancel, Cancelled, Accepts, Executed
<1>9. ASSUME NEW ok \in BOOLEAN, Request(ok) PROVE Fits
  BY <1>0, <1>9 DEF Request, Asked, Accepts, Executed
<1>10. ASSUME NEW ok \in BOOLEAN, CancelFlow(ok) PROVE Fits
  BY <1>0, <1>10 DEF CancelFlow, FlowEffect, FlowAccepts, Cancelled, Accepts, Executed
<1>11. ASSUME NEW ok \in BOOLEAN, Flow(ok) PROVE Fits
  BY <1>0, <1>11 DEF Flow, FlowEffect, FlowAccepts, Cancelled, Asked, Accepts
<1>12. CASE Unreached  BY <1>0, <1>12 DEF Unreached
<1>13. CASE FanOut  BY <1>0, <1>13 DEF FanOut
<1>14. ASSUME NEW to \in States, Move(to) PROVE Fits  BY <1>14 DEF Move
<1>15. CASE UNCHANGED vars  BY <1>0, <1>15 DEF vars
<1>. QED
  BY <1>1, <1>2, <1>3, <1>4, <1>5, <1>6, <1>7, <1>8, <1>9, <1>10, <1>11, <1>12, <1>13, <1>14,
     <1>15 DEF Next

-----------------------------------------------------------------------------
(* Theorems about the cancellation.                                        *)

(* The invariant holds of every cancellation.                              *)
THEOREM CancelInvariant == Spec => []CancelInv
<1>1. Init => CancelInv
  BY InitType
  DEF Init, CancelInv, CallInv, FlowCall, JobCall, Unhindered, ManifestInv, OursInv
<1>2. CancelInv /\ [Next]_vars => CancelInv'
  BY NextType, NextManifest, NextOurs, NextCall DEF CancelInv
<1>. QED  BY <1>1, <1>2, PTL DEF Spec

(* An unhindered cancellation is not refused.                              *)
LEMMA CauseNeeded == CancelInv => RefusedForCause
<1>. SUFFICES ASSUME CancelInv, answer = "error"
              PROVE  \/ ~ours \/ failed \/ moved
                     \/ job.state \in {"absent", "finished", "cancelled"}
                     \/ kind = "job" /\ (fanned \/ ~view)
  BY DEF RefusedForCause
<1>. QED  BY DEF CancelInv, CallInv, Unhindered, TypeOK, States

(* A cancellation of a job or a flow is refused only for a cause.          *)
THEOREM RefusedForCauseCorrect == Spec => []RefusedForCause
  BY CauseNeeded, CancelInvariant, PTL

(* A cancellation is acknowledged only if a call of it was accepted, and   *)
(* no call of it is accepted by a job or a flow of another contract.       *)
THEOREM AcknowledgedStopsCorrect == Spec => []AcknowledgedStops
<1>1. CancelInv => AcknowledgedStops  BY DEF CancelInv, OursInv, AcknowledgedStops
<1>. QED  BY <1>1, CancelInvariant, PTL

-----------------------------------------------------------------------------
(* The client.                                                             *)

(* What the client adds, the session and the wait, leaves a cancellation   *)
(* to itself: each of its steps is one of Cancellation or none.            *)
THEOREM ClientImplements == ClientSpec => Spec
<1>1. ClientInit => Init  BY DEF ClientInit
<1>2. [ClientNext]_clientVars => [Next]_vars
  <2>1. Refusal => Next  BY DEF Refusal, Next
  <2>2. Cancels => Next  BY <2>1 DEF Cancels, Next
  <2>. QED
    BY <2>2
    DEF ClientNext, clientVars, StartWait, EngineAnswers, Continue, Fire, AbortWait, CloseSession
<1>. QED  BY <1>1, <1>2, PTL DEF ClientSpec, Spec

(* The wait, and why its engine was stopped before its answer is looked    *)
(* at: its timer had fired or its caller had given up.                     *)
WaitInv ==
  /\ session \in [ready : BOOLEAN, events : BOOLEAN]
  /\ wait \in [pc : {"idle", "waiting", "answered", "settled"},
               timer : {"none", "armed", "fired", "cleared"},
               signal : {"none", "live", "aborted"},
               engine : EngineSays,
               told : EngineSays \cup {"timeout", "aborted"}]
  /\ wait.pc = "answered" /\ wait.engine = "stopped"
       => wait.timer = "fired" \/ wait.signal = "aborted"
  /\ HonestWait

(* What telling the caller does to the wait.                               *)
LEMMA Tells ==
  ASSUME WaitInv, NEW outcome \in EngineSays \cup {"timeout", "aborted"}, Told(outcome)
  PROVE  /\ wait' \in [pc : {"idle", "waiting", "answered", "settled"},
                       timer : {"none", "armed", "fired", "cleared"},
                       signal : {"none", "live", "aborted"},
                       engine : EngineSays,
                       told : EngineSays \cup {"timeout", "aborted"}]
         /\ wait'.pc = "settled" /\ wait'.told = outcome /\ wait'.signal = wait.signal
         /\ wait'.timer = IF wait.timer = "armed" THEN "cleared" ELSE wait.timer
BY DEF WaitInv, Told

(* Every step keeps it, whichever of the answer, the timer and the signal  *)
(* comes first.                                                            *)
LEMMA NextWait == WaitInv /\ [ClientNext]_clientVars => WaitInv'
<1>. SUFFICES ASSUME WaitInv, [ClientNext]_clientVars PROVE WaitInv'  OBVIOUS
<1>. USE DEF WaitInv, HonestWait, EngineSays
<1>1. ASSUME NEW valid \in BOOLEAN, NEW events \in BOOLEAN, NEW timeout \in BOOLEAN,
             StartWait(valid, events, timeout)
      PROVE  WaitInv'
  <2>1. CASE Told("error")
    BY <1>1, <2>1, Tells DEF StartWait
  <2>2. CASE wait.signal = "aborted" /\ Told("aborted")
    BY <1>1, <2>2, Tells DEF StartWait
  <2>3. CASE wait' = [wait EXCEPT !.pc = IF session.ready THEN "waiting" ELSE "answered",
                                  !.timer = IF timeout THEN "armed" ELSE "none",
                                  !.engine = IF session.ready THEN "none" ELSE "error"]
    <3>1. wait'.pc # "settled" /\ wait'.engine # "stopped"
      BY <2>3
    <3>2. wait' \in [pc : {"idle", "waiting", "answered", "settled"},
                     timer : {"none", "armed", "fired", "cleared"},
                     signal : {"none", "live", "aborted"},
                     engine : EngineSays,
                     told : EngineSays \cup {"timeout", "aborted"}]
      BY <2>3
    <3>. QED  BY <1>1, <3>1, <3>2 DEF StartWait
  <2>. QED  BY <1>1, <2>1, <2>2, <2>3 DEF StartWait
<1>2. ASSUME NEW seen \in EngineSays, EngineAnswers(seen) PROVE WaitInv'
  BY <1>2 DEF EngineAnswers, Sees
<1>3. CASE Continue
  <2>1. wait.pc = "answered" /\ UNCHANGED session  BY <1>3 DEF Continue
  <2>2. CASE wait.timer = "fired" /\ Told("timeout")
    BY <2>1, <2>2, Tells
  <2>3. CASE wait.timer # "fired" /\ wait.signal = "aborted" /\ Told("aborted")
    BY <2>1, <2>3, Tells
  <2>4. CASE wait.timer # "fired" /\ wait.signal # "aborted" /\ Told(wait.engine)
    BY <2>1, <2>4, Tells
  <2>. QED  BY <1>3, <2>2, <2>3, <2>4 DEF Continue
<1>4. CASE Fire  BY <1>4 DEF Fire
<1>5. CASE AbortWait  BY <1>5 DEF AbortWait
<1>6. CASE CloseSession  BY <1>6 DEF CloseSession
<1>7. CASE Cancels \/ UNCHANGED clientVars  BY <1>7 DEF Cancels, clientVars
<1>. QED  BY <1>1, <1>2, <1>3, <1>4, <1>5, <1>6, <1>7 DEF ClientNext

(* Every variable of the client keeps its type.                            *)
THEOREM ClientTypeCorrect == ClientSpec => []ClientTypeOK
<1>1. ClientInit => WaitInv
  BY DEF ClientInit, WaitInv, HonestWait, EngineSays
<1>2. TypeOK /\ WaitInv => ClientTypeOK  BY DEF WaitInv, ClientTypeOK
<1>3. CancelInv => TypeOK  BY DEF CancelInv
<1>. QED
  BY <1>1, <1>2, <1>3, NextWait, ClientImplements, CancelInvariant, PTL DEF ClientSpec

(* A caller of awaitResult is told what is true of its bounds.             *)
THEOREM HonestWaitCorrect == ClientSpec => []HonestWait
<1>1. ClientInit => WaitInv
  BY DEF ClientInit, WaitInv, HonestWait, EngineSays
<1>2. WaitInv => HonestWait  BY DEF WaitInv
<1>. QED  BY <1>1, <1>2, NextWait, PTL DEF ClientSpec

(* Both promises of a cancellation hold beside the client's waits, and on  *)
(* an engine that closes between its calls.                                *)
THEOREM ClientCancels == ClientSpec => [](RefusedForCause /\ AcknowledgedStops)
  BY ClientImplements, RefusedForCauseCorrect, AcknowledgedStopsCorrect, PTL
=============================================================================
