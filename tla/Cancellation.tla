---------------------------- MODULE Cancellation ----------------------------
(***************************************************************************)
(* One cancellation, of a job by its client (cancelJob) or of a flow       *)
(* (FlowsCoordinator.cancel), through the read view of flowReadStore.  An  *)
(* ordinary job, a parent before its fan-out and a parent with its         *)
(* manifest are cancelled by different calls, and between the reads that   *)
(* tell them apart and the call workers claim, release, settle and fan out *)
(* the job.                                                                *)
(***************************************************************************)

VARIABLES
  job,       \* the durable job: its state and whether its worker was asked to stop
  manifest,  \* whether it has fanned out, so that a flow is stored
  ours,      \* whether job and flow are of the contract the caller named
  view,      \* whether the adapter reads the states of flows
  kind,      \* "job" or "flow": whose cancel was called
  pc,        \* the storage call it is at
  answer,    \* what the caller was told
  failed,    \* a storage call failed or its answer was lost (history)
  stopped,   \* one of its calls was accepted (history)
  fanned,    \* the job fanned out since the cancel began (history)
  moved      \* it was changed otherwise by others since (history)

world == <<ours, view, kind>>
history == <<failed, stopped>>
others == <<fanned, moved>>
vars == <<job, manifest, world, pc, answer, history, others>>

States == {"absent", "waiting", "active", "children", "finished", "cancelled"}
Calls == {"manifest", "job", "identify", "view", "cancel", "cancelFlow", "reread",
          "poll", "request", "recheck", "flow"}

TypeOK ==
  /\ job \in [state : States, asked : BOOLEAN]
  /\ manifest \in BOOLEAN /\ ours \in BOOLEAN /\ view \in BOOLEAN
  /\ kind \in {"job", "flow"}
  /\ pc \in Calls
  /\ answer \in {"none", "ok", "error"}
  /\ failed \in BOOLEAN /\ stopped \in BOOLEAN
  /\ fanned \in BOOLEAN /\ moved \in BOOLEAN

Init ==
  /\ job \in [state : States, asked : {FALSE}]
  /\ manifest \in BOOLEAN
  /\ job.state = "children" => manifest
  /\ job.state = "absent" => ~manifest
  /\ ours \in BOOLEAN /\ view \in BOOLEAN
  /\ kind \in {"job", "flow"}
  /\ pc = IF kind = "flow" THEN "manifest" ELSE "identify"
  /\ answer = "none"
  /\ failed = FALSE /\ stopped = FALSE /\ fanned = FALSE /\ moved = FALSE

-----------------------------------------------------------------------------
At(call) == answer = "none" /\ pc = call
GoTo(call) == pc' = call /\ UNCHANGED answer
Answer(a) == answer' = a /\ UNCHANGED pc

(* A step that reads only.                                                 *)
Reads == UNCHANGED <<job, manifest, world, others, stopped>>

(* What can be read of the job without the flow view.                      *)
Decoded == view \/ job.state # "children"

(* Fault: a refused mutation is final, a fan-out or not.                   *)
RefusedFinally(reason) ==
  IF kind = "job" /\ reason = "active" THEN GoTo("poll") ELSE Answer("error")

(* A refused call on the job: a flow's cancel looks whether the job has    *)
(* fanned out meanwhile, a job's goes on if it is only active.             *)
Refused(reason) ==
  IF kind = "flow" THEN GoTo("recheck")
  ELSE IF reason = "active" THEN GoTo("poll")
  ELSE Answer("error")

-----------------------------------------------------------------------------
(* FlowsCoordinator.cancel.                                                *)

(* Fault: the manifest's flow is cancelled whoever's it is.                *)
ReadManifestUnidentified(ok) ==
  /\ At("manifest")
  /\ IF ~ok THEN Answer("error") ELSE GoTo(IF manifest THEN "flow" ELSE "job")
  /\ failed' = (failed \/ ~ok)
  /\ Reads

ReadManifest(ok) ==
  /\ At("manifest")
  /\ IF ~ok \/ (manifest /\ ~ours) THEN Answer("error")
     ELSE GoTo(IF manifest THEN "flow" ELSE "job")
  /\ failed' = (failed \/ ~ok)
  /\ Reads

(* Fault: a record that cannot be decoded is an error of its own.          *)
ReadJobStrictly(ok) ==
  /\ At("job")
  /\ IF ~ok \/ ~Decoded \/ job.state = "absent" \/ ~ours THEN Answer("error")
     ELSE GoTo(IF job.state = "active" THEN "request" ELSE "view")
  /\ failed' = (failed \/ ~ok)
  /\ Reads

(* Without a manifest the parent is an ordinary job; one that cannot be    *)
(* read may have fanned out since.                                         *)
ReadJob(ok) ==
  /\ At("job")
  /\ IF ~ok \/ ~Decoded THEN GoTo("recheck")
     ELSE IF job.state = "absent" \/ ~ours THEN Answer("error")
     ELSE GoTo(IF job.state = "active" THEN "request" ELSE "view")
  /\ failed' = (failed \/ ~ok)
  /\ Reads

Recheck(ok) ==
  /\ At("recheck")
  /\ IF ok /\ manifest /\ ours THEN GoTo("flow") ELSE Answer("error")
  /\ failed' = (failed \/ ~ok)
  /\ Reads

-----------------------------------------------------------------------------
(* cancelJob.  The engine looks at the job's identity.                     *)

Identify(ok) ==
  /\ At("identify")
  /\ IF ok /\ Decoded /\ job.state # "absent" /\ ours THEN GoTo("view") ELSE Answer("error")
  /\ failed' = (failed \/ ~ok)
  /\ Reads

(* An active job is read again; its worker is then asked to stop.          *)
Poll(ok) ==
  /\ At("poll")
  /\ IF ok /\ Decoded /\ job.state # "absent" /\ ours THEN GoTo("request") ELSE Answer("error")
  /\ failed' = (failed \/ ~ok)
  /\ Reads

-----------------------------------------------------------------------------
(* flowReadStore.cancel.                                                   *)

(* With the view, a parent that waits for its children is cancelled as a   *)
(* flow.                                                                   *)
View(ok) ==
  /\ At("view")
  /\ IF ~view THEN GoTo("cancel")
     ELSE IF ~ok THEN Refused("failure")
     ELSE GoTo(IF job.state = "children" THEN "cancelFlow" ELSE "cancel")
  /\ failed' = (failed \/ (view /\ ~ok))
  /\ Reads

(* A cancelled flow must be seen as a cancelled parent.                    *)
Reread(ok) ==
  /\ At("reread")
  /\ IF ok /\ job.state = "cancelled" THEN Answer("ok") ELSE Refused("failure")
  /\ failed' = (failed \/ ~ok)
  /\ Reads

-----------------------------------------------------------------------------
(* The mutations, as the store executes them.                              *)

Cancelled == job' = [job EXCEPT !.state = "cancelled"]
Asked == job' = [job EXCEPT !.asked = TRUE]
Accepts == stopped' = TRUE /\ UNCHANGED <<manifest, world, others>>

(* The call was executed; its answer arrives, or is lost.                  *)
Executed(answered, then) ==
  /\ IF answered THEN then ELSE Refused("failure")
  /\ failed' = (failed \/ ~answered)

(* store.cancel takes a waiting job only.                                  *)
Cancel(answered) ==
  /\ At("cancel")
  /\ IF job.state = "waiting"
       THEN Cancelled /\ Accepts /\ Executed(answered, Answer("ok"))
       ELSE /\ Refused(IF answered /\ job.state = "active" THEN "active" ELSE "failure")
            /\ failed' = (failed \/ ~answered)
            /\ Reads

(* requestCancellation asks the worker of an active job.                   *)
Request(answered) ==
  /\ At("request")
  /\ IF job.state = "active"
       THEN Asked /\ Accepts /\ Executed(answered, Answer("ok"))
       ELSE /\ Refused("failure")
            /\ failed' = (failed \/ ~answered)
            /\ Reads

(* The flow store cancels a parent that no worker has, asks the worker of  *)
(* a collecting one, and accepts the cancellation of a cancelled one.      *)
FlowEffect ==
  CASE job.state \in {"waiting", "children"} -> Cancelled
    [] job.state = "active" -> Asked
    [] OTHER -> UNCHANGED job
FlowAccepts == manifest /\ job.state \in {"waiting", "children", "active", "cancelled"}

CancelFlow(answered) ==
  /\ At("cancelFlow")
  /\ IF FlowAccepts
       THEN FlowEffect /\ Accepts /\ Executed(answered, GoTo("reread"))
       ELSE /\ Refused("failure")
            /\ failed' = (failed \/ ~answered)
            /\ Reads

Flow(answered) ==
  /\ At("flow")
  /\ IF FlowAccepts
       THEN FlowEffect /\ Accepts /\ Answer(IF answered THEN "ok" ELSE "error")
       ELSE Answer("error") /\ Reads
  /\ failed' = (failed \/ ~answered)

(* A mutation does not reach the store.                                    *)
Unreached ==
  /\ answer = "none"
  /\ pc \in {"cancel", "request", "cancelFlow", "flow"}
  /\ IF pc = "flow" THEN Answer("error") ELSE Refused("failure")
  /\ failed' = TRUE
  /\ Reads

-----------------------------------------------------------------------------
(* The others.                                                             *)

(* A worker's fan-out is one transaction of job and manifest.              *)
FanOut ==
  /\ job.state = "active" /\ ~manifest
  /\ job' = [job EXCEPT !.state = "children"]
  /\ manifest' = TRUE
  /\ fanned' = TRUE
  /\ UNCHANGED <<world, pc, answer, history, moved>>

Moves == {<<"waiting", "active">>, <<"active", "waiting">>, <<"active", "finished">>,
          <<"active", "cancelled">>, <<"waiting", "cancelled">>, <<"children", "waiting">>,
          <<"children", "finished">>, <<"children", "cancelled">>,
          <<"finished", "waiting">>, <<"cancelled", "waiting">>}

(* Claim, release, settlement, the children's outcome, another             *)
(* cancellation or an administrative retry.                                *)
Move(to) ==
  /\ <<job.state, to>> \in Moves
  /\ job' = [state |-> to, asked |-> job.asked /\ to # "waiting"]
  /\ moved' = TRUE
  /\ UNCHANGED <<manifest, world, pc, answer, history, fanned>>

-----------------------------------------------------------------------------
Next ==
  \/ \E ok \in BOOLEAN :
       \/ ReadManifest(ok) \/ ReadJob(ok) \/ Recheck(ok) \/ Identify(ok) \/ Poll(ok)
       \/ View(ok) \/ Reread(ok)
       \/ Cancel(ok) \/ Request(ok) \/ CancelFlow(ok) \/ Flow(ok)
  \/ Unreached
  \/ FanOut
  \/ \E to \in States : Move(to)

Spec == Init /\ [][Next]_vars

-----------------------------------------------------------------------------
(* Properties.                                                             *)

(* A cancellation is refused only for a cause: the id is another's or the  *)
(* job is over, the storage failed, or others changed the job meanwhile.   *)
(* That the job merely fans out between two reads is no cause for a flow's *)
(* cancel, whatever call it is at.                                         *)
RefusedForCause ==
  answer = "error" =>
    \/ ~ours \/ failed \/ moved
    \/ job.state \in {"absent", "finished", "cancelled"}
    \/ kind = "job" /\ (fanned \/ ~view)

(* A caller is told of a cancellation only if one of its calls cancelled   *)
(* the job or its flow, or asked the job's worker to stop; and such a call *)
(* never hits a job or a flow of another contract whose id was guessed.    *)
AcknowledgedStops == (answer = "ok" => stopped) /\ (stopped => ours)
=============================================================================
