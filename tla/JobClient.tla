------------------------------ MODULE JobClient ------------------------------
(***************************************************************************)
(* The client of a job: a caller waits for its result (boundedWait) while  *)
(* the same job is claimed, settled and cancelled, by this client or by    *)
(* others.  The wait ends with the job, with its timer, with the caller's  *)
(* signal or with the engine; they race, and the engine's answer is looked *)
(* at only a turn after it was given.                                      *)
(***************************************************************************)
EXTENDS Cancellation

VARIABLES
  session,  \* whether the engine is ready, and an event reader with it
  wait      \* the wait: where it is, its timer, the signal, the answers

clientVars == <<vars, session, wait>>

EngineSays == {"none", "value", "failure", "cancelled", "stopped", "error"}

ClientTypeOK ==
  /\ TypeOK
  /\ session \in [ready : BOOLEAN, events : BOOLEAN]
  /\ wait \in [pc : {"idle", "waiting", "answered", "settled"},
               timer : {"none", "armed", "fired", "cleared"},
               signal : {"none", "live", "aborted"},
               engine : EngineSays,
               told : EngineSays \cup {"timeout", "aborted"}]

ClientInit ==
  /\ Init
  /\ session \in [ready : BOOLEAN, events : BOOLEAN]
  /\ session.events => session.ready
  /\ wait \in [pc : {"idle"}, timer : {"none"}, signal : {"none", "live", "aborted"},
               engine : {"none"}, told : {"none"}]

-----------------------------------------------------------------------------
(* boundedWait.                                                            *)

(* finally: whatever is told, the timer is gone.                           *)
Told(outcome) ==
  wait' = [wait EXCEPT !.pc = "settled", !.told = outcome,
                       !.timer = IF @ = "armed" THEN "cleared" ELSE @]

(* validateWaitOptions and assertEvents refuse before anything is set up;  *)
(* so does a signal that has aborted.  The timer runs before the engine is *)
(* asked, which only a ready one answers.                                  *)
StartWait(valid, events, timeout) ==
  /\ wait.pc = "idle"
  /\ IF ~valid \/ (events /\ ~(session.ready /\ session.events)) THEN Told("error")
     ELSE IF wait.signal = "aborted" THEN Told("aborted")
     ELSE wait' = [wait EXCEPT !.pc = IF session.ready THEN "waiting" ELSE "answered",
                               !.timer = IF timeout THEN "armed" ELSE "none",
                               !.engine = IF session.ready THEN "none" ELSE "error"]
  /\ UNCHANGED <<vars, session>>

(* Fault: the engine is given the caller's signal only.                    *)
SeesCallersSignal ==
  (CASE job.state = "finished" -> {"value", "failure"}
     [] job.state = "cancelled" -> {"cancelled"}
     [] OTHER -> {}) \cup
  (IF wait.signal = "aborted" THEN {"stopped"} ELSE {})

(* The engine sees the job over, or the combined signal.                   *)
Sees ==
  (CASE job.state = "finished" -> {"value", "failure"}
     [] job.state = "cancelled" -> {"cancelled"}
     [] OTHER -> {}) \cup
  (IF wait.timer = "fired" \/ wait.signal = "aborted" THEN {"stopped"} ELSE {})

EngineAnswers(seen) ==
  /\ wait.pc = "waiting"
  /\ seen \in Sees \cup {"error"}
  /\ wait' = [wait EXCEPT !.pc = "answered", !.engine = seen]
  /\ UNCHANGED <<vars, session>>

(* Fault: the engine's answer is given before the bounds are looked at.    *)
ContinueEngineFirst ==
  /\ wait.pc = "answered"
  /\ Told(IF wait.engine \in {"value", "failure", "cancelled"} THEN wait.engine
          ELSE IF wait.timer = "fired" THEN "timeout"
          ELSE IF wait.signal = "aborted" THEN "aborted"
          ELSE wait.engine)
  /\ UNCHANGED <<vars, session>>

(* The timeout first, then the caller's signal, then the answer; the same  *)
(* in the catch block.                                                     *)
Continue ==
  /\ wait.pc = "answered"
  /\ Told(IF wait.timer = "fired" THEN "timeout"
          ELSE IF wait.signal = "aborted" THEN "aborted"
          ELSE wait.engine)
  /\ UNCHANGED <<vars, session>>

-----------------------------------------------------------------------------
(* The clock, the caller and the application.                              *)

Fire ==
  /\ wait.timer = "armed"
  /\ wait' = [wait EXCEPT !.timer = "fired"]
  /\ UNCHANGED <<vars, session>>

AbortWait ==
  /\ wait.signal = "live" /\ wait.pc # "settled"
  /\ wait' = [wait EXCEPT !.signal = "aborted"]
  /\ UNCHANGED <<vars, session>>

(* The engine closes; what it is still asked for fails.                    *)
CloseSession ==
  /\ session.ready
  /\ session' = [ready |-> FALSE, events |-> FALSE]
  /\ UNCHANGED <<vars, wait>>

-----------------------------------------------------------------------------
(* A cancellation goes through the engine as well; on a closed one each of *)
(* its calls fails before it reaches the store.                            *)
Refusal ==
  \/ ReadManifest(FALSE) \/ ReadJob(FALSE) \/ Recheck(FALSE)
  \/ Identify(FALSE) \/ Poll(FALSE) \/ View(FALSE) \/ Reread(FALSE)
  \/ Unreached

Cancels ==
  /\ \/ session.ready /\ Next
     \/ ~session.ready /\ (Refusal \/ FanOut \/ \E to \in States : Move(to))
  /\ UNCHANGED <<session, wait>>

ClientNext ==
  \/ \E valid, events, timeout \in BOOLEAN : StartWait(valid, events, timeout)
  \/ \E seen \in EngineSays : EngineAnswers(seen)
  \/ Continue
  \/ Fire \/ AbortWait \/ CloseSession
  \/ Cancels

(* Its timer is due some time, the engine polls or listens until it is     *)
(* over or its signal aborts, and a promise's continuation runs.           *)
ClientSpec ==
  /\ ClientInit /\ [][ClientNext]_clientVars
  /\ WF_clientVars(Fire)
  /\ WF_clientVars(\E seen \in Sees : EngineAnswers(seen))
  /\ WF_clientVars(Continue)

-----------------------------------------------------------------------------
(* Properties.                                                             *)

(* A caller of awaitResult is told of the result only within its bounds,   *)
(* of the timeout or the abort only where it happened, and never of the    *)
(* engine being stopped by them, in whichever order the answer, the timer  *)
(* and the signal came; and no wait leaves its timer behind.               *)
HonestWait ==
  wait.pc = "settled" =>
    /\ wait.timer # "armed"
    /\ wait.told \in {"value", "failure", "cancelled"} =>
         wait.timer # "fired" /\ wait.signal # "aborted"
    /\ wait.told = "timeout" => wait.timer = "fired"
    /\ wait.told = "aborted" => wait.signal = "aborted"
    /\ wait.told # "stopped"

(* A wait with a timeout, or whose caller gave up, ends whatever happens   *)
(* to the job: nothing ever settles it, or it is retried over and over.    *)
WaitSettles ==
  (wait.pc = "waiting" /\ (wait.timer = "armed" \/ wait.signal = "aborted"))
    ~> wait.pc = "settled"
=============================================================================
