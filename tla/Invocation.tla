----------------------------- MODULE Invocation -----------------------------
(***************************************************************************)
(* One invocation of a processor: MqPipeline.run around a handler.  Guards *)
(* and pipes run one after the other, interceptors nest around the handler *)
(* through a next that they may keep, repeat or never await, filters catch *)
(* what failed.  A Collect invocation first checks that it still owns the  *)
(* parent's lease and has a reader of the children's results, closed with  *)
(* it.  The job's signal may abort between any two steps.                  *)
(***************************************************************************)
EXTENDS Integers

CONSTANTS
  Enhancers,     \* number of guards and pipes, in the order they run
  Interceptors,  \* number of interceptors
  Filters,       \* number of exception filters
  Collect,       \* whether the invocation is a Collect phase
  MaxReads       \* bound of the reads in flight

ASSUME InvocationAssumption ==
  /\ Enhancers \in Nat /\ Interceptors \in Nat /\ Filters \in Nat
  /\ Collect \in BOOLEAN
  /\ MaxReads \in Nat

VARIABLES
  stage,     \* where run is: its phase and the index of the enhancer
  level,     \* the nested dispatches, the handler's last
  violation, \* interceptors seen to misuse next before they settled
  starts,    \* how often each level's code was started (history)
  aborted,   \* the job's signal
  reader,    \* the reader of the children's results
  reads,     \* its reads in flight
  outcome    \* what the supervisor is told

vars == <<stage, level, violation, starts, aborted, reader, reads, outcome>>

Levels == 1..(Interceptors + 1)
Handler == Interceptors + 1
Largest == IF Enhancers > Filters THEN Enhancers ELSE Filters

Phases == {"verify", "instance", "resolve", "call", "dispatch",
           "select", "supports", "handle", "close", "settled"}
Level == [pc : {"idle", "queued", "resolve", "running", "drain", "done"},
          result : {"none", "ok", "error"}]

TypeOK ==
  /\ stage \in [phase : Phases, at : 0..Largest]
  /\ level \in [Levels -> Level]
  /\ violation \in SUBSET (Levels \ {Handler})
  /\ starts \in [Levels -> Nat]
  /\ aborted \in BOOLEAN
  /\ reader \in {"none", "open", "closed"}
  /\ reads \in 0..MaxReads
  /\ outcome \in {"none", "ok", "error", "aborted"}

Init ==
  /\ stage = [phase |-> IF Collect THEN "verify" ELSE "instance", at |-> 0]
  /\ level = [k \in Levels |-> [pc |-> "idle", result |-> "none"]]
  /\ violation = {}
  /\ starts = [k \in Levels |-> 0]
  /\ aborted = FALSE
  /\ reader = "none"
  /\ reads = 0
  /\ outcome = "none"

-----------------------------------------------------------------------------
(* The coroutine of run, from one await to the next.                       *)

GoTo(phase, at) == stage' = [phase |-> phase, at |-> at]

(* The invocation ends; a Collect one closes its reader first.             *)
Finish(answer) ==
  /\ outcome' = answer
  /\ IF reader = "open" THEN GoTo("close", 0) /\ reader' = "closed"
                        ELSE GoTo("settled", 0) /\ UNCHANGED reader

(* The catch block: an abort is never offered to the filters.              *)
Failed ==
  IF aborted THEN Finish("aborted")
  ELSE IF Filters = 0 THEN Finish("error")
  ELSE GoTo("select", 1) /\ UNCHANGED <<reader, outcome>>

(* Level k's code is called.                                               *)
Started(k) ==
  /\ level' = [level EXCEPT ![k].pc = "running"]
  /\ starts' = [starts EXCEPT ![k] = @ + 1]

Rejected(k) ==
  /\ level' = [level EXCEPT ![k] = [pc |-> "done", result |-> "error"]]
  /\ UNCHANGED starts

(* Fault: the signal is only looked at between the enhancers of run.       *)
DispatchedAnyway(k) ==
  IF k = Handler THEN Started(k)
  ELSE level' = [level EXCEPT ![k].pc = "resolve"] /\ UNCHANGED starts

(* dispatch of level k, up to its first await.                             *)
Dispatched(k) ==
  IF aborted THEN Rejected(k)
  ELSE IF k = Handler THEN Started(k)
  ELSE level' = [level EXCEPT ![k].pc = "resolve"] /\ UNCHANGED starts

(* What follows the enhancer at i: the next one, or the first dispatch.    *)
Advance(i) ==
  IF aborted THEN Finish("aborted") /\ UNCHANGED <<level, starts>>
  ELSE /\ UNCHANGED <<reader, outcome>>
       /\ IF i < Enhancers
            THEN GoTo("resolve", i + 1) /\ UNCHANGED <<level, starts>>
            ELSE GoTo("dispatch", 0) /\ Dispatched(1)

(* Collect reads its job again: it goes on only with the parent's lease.   *)
Verify(owned) ==
  /\ stage.phase = "verify"
  /\ IF owned /\ ~aborted
       THEN reader' = "open" /\ GoTo("instance", 0) /\ UNCHANGED outcome
       ELSE Finish("error")
  /\ UNCHANGED <<level, violation, starts, aborted, reads>>

(* The worker's instance is resolved, or its retry reference refused.      *)
Instance(ok) ==
  /\ stage.phase = "instance"
  /\ IF ok THEN Advance(0) ELSE Finish("error") /\ UNCHANGED <<level, starts>>
  /\ UNCHANGED <<violation, aborted, reads>>

(* A guard or pipe is resolved; only then is it called.                    *)
Resolved(ok) ==
  /\ stage.phase = "resolve"
  /\ IF ok /\ ~aborted THEN GoTo("call", stage.at) /\ UNCHANGED <<reader, outcome>>
                       ELSE Failed
  /\ UNCHANGED <<level, violation, starts, aborted, reads>>

(* The guard accepts, the pipe's value is decoded; or either fails.        *)
Called(ok) ==
  /\ stage.phase = "call"
  /\ IF ok THEN Advance(stage.at) ELSE Failed /\ UNCHANGED <<level, starts>>
  /\ UNCHANGED <<violation, aborted, reads>>

(* The outermost dispatch settles.                                         *)
Return ==
  /\ stage.phase = "dispatch"
  /\ level[1].pc = "done"
  /\ IF level[1].result = "ok" THEN Finish("ok") ELSE Failed
  /\ UNCHANGED <<level, violation, starts, aborted, reads>>

FilterResolved(ok) ==
  /\ stage.phase = "select"
  /\ IF ~ok THEN Finish("error")
     ELSE IF aborted THEN Finish("aborted")
     ELSE GoTo("supports", stage.at) /\ UNCHANGED <<reader, outcome>>
  /\ UNCHANGED <<level, violation, starts, aborted, reads>>

(* The filter accepts the cause, declines it, does not answer properly, or *)
(* throws.                                                                 *)
Supported(answer) ==
  /\ stage.phase = "supports"
  /\ IF answer = "throws" THEN Finish("error")
     ELSE IF aborted THEN Finish("aborted")
     ELSE CASE answer = "yes" -> GoTo("handle", stage.at) /\ UNCHANGED <<reader, outcome>>
            [] answer = "no" /\ stage.at < Filters ->
                 GoTo("select", stage.at + 1) /\ UNCHANGED <<reader, outcome>>
            [] OTHER -> Finish("error")
  /\ UNCHANGED <<level, violation, starts, aborted, reads>>

Handled(ok) ==
  /\ stage.phase = "handle"
  /\ Finish(IF ok THEN "ok" ELSE "error")
  /\ UNCHANGED <<level, violation, starts, aborted, reads>>

(* Fault: the reads under way are not awaited.                             *)
ClosedUndrained ==
  /\ stage.phase = "close"
  /\ GoTo("settled", 0)
  /\ UNCHANGED <<level, violation, starts, aborted, reader, reads, outcome>>

(* The reader's close waits for the reads it admitted.                     *)
Closed ==
  /\ stage.phase = "close"
  /\ reads = 0
  /\ GoTo("settled", 0)
  /\ UNCHANGED <<level, violation, starts, aborted, reader, reads, outcome>>

-----------------------------------------------------------------------------
(* The nested dispatches.                                                  *)

(* Fault: next is valid while its interceptor is active, again and again.  *)
AdmitsAgain(k) == level[k].pc = "running"

(* next is single-use and only valid inside its interceptor.               *)
Admits(k) == level[k].pc = "running" /\ level[k + 1].pc = "idle"

(* Code that holds the next of interceptor k calls it.  Once k has settled *)
(* nobody looks at a violation any more.                                   *)
CallNext(k) ==
  /\ level[k].pc \in {"running", "drain", "done"}
  /\ IF Admits(k)
       THEN level' = [level EXCEPT ![k + 1].pc = "queued"] /\ UNCHANGED violation
       ELSE /\ violation' = IF level[k].pc = "done" THEN violation ELSE violation \cup {k}
            /\ UNCHANGED level
  /\ UNCHANGED <<stage, starts, aborted, reader, reads, outcome>>

Dequeue(k) ==
  /\ level[k].pc = "queued"
  /\ Dispatched(k)
  /\ UNCHANGED <<stage, violation, aborted, reader, reads, outcome>>

(* The interceptor of level k is resolved; only then is it called.         *)
InterceptorResolved(k, ok) ==
  /\ level[k].pc = "resolve"
  /\ IF ok /\ ~aborted THEN Started(k) ELSE Rejected(k)
  /\ UNCHANGED <<stage, violation, aborted, reader, reads, outcome>>

HandlerReturns(result) ==
  /\ level[Handler].pc = "running"
  /\ level' = [level EXCEPT ![Handler] = [pc |-> "done", result |-> result]]
  /\ UNCHANGED <<stage, violation, starts, aborted, reader, reads, outcome>>

(* intercept returns or throws: next closes.                               *)
Intercepted(k, result) ==
  /\ level[k].pc = "running"
  /\ level' = [level EXCEPT ![k] = [pc |-> "drain", result |-> result]]
  /\ UNCHANGED <<stage, violation, starts, aborted, reader, reads, outcome>>

(* Fault: the continuation is not awaited.                                 *)
SettleUndrained(k) ==
  /\ level[k].pc = "drain"
  /\ level' = [level EXCEPT ![k] = [pc |-> "done",
       result |-> IF k \in violation THEN "error" ELSE @.result]]
  /\ UNCHANGED <<stage, violation, starts, aborted, reader, reads, outcome>>

(* Fault: a violation is forgotten.                                        *)
SettleLenient(k) ==
  /\ level[k].pc = "drain"
  /\ level[k + 1].pc \in {"idle", "done"}
  /\ level' = [level EXCEPT ![k].pc = "done"]
  /\ UNCHANGED <<stage, violation, starts, aborted, reader, reads, outcome>>

(* Fault: an interceptor that never called next waits for it.              *)
SettleAfterNext(k) ==
  /\ level[k].pc = "drain"
  /\ level[k + 1].pc = "done"
  /\ level' = [level EXCEPT ![k] = [pc |-> "done",
       result |-> IF k \in violation THEN "error" ELSE @.result]]
  /\ UNCHANGED <<stage, violation, starts, aborted, reader, reads, outcome>>

(* Its continuation has settled; a violation fails it.                     *)
Settle(k) ==
  /\ level[k].pc = "drain"
  /\ level[k + 1].pc \in {"idle", "done"}
  /\ level' = [level EXCEPT ![k] = [pc |-> "done",
       result |-> IF k \in violation THEN "error" ELSE @.result]]
  /\ UNCHANGED <<stage, violation, starts, aborted, reader, reads, outcome>>

-----------------------------------------------------------------------------
(* The results reader and the environment.                                 *)

(* Whoever holds the reader starts page or all; a closed one refuses.      *)
StartRead ==
  /\ reader = "open" /\ stage.phase # "instance"
  /\ reads < MaxReads
  /\ reads' = reads + 1
  /\ UNCHANGED <<stage, level, violation, starts, aborted, reader, outcome>>

EndRead ==
  /\ reads > 0
  /\ reads' = reads - 1
  /\ UNCHANGED <<stage, level, violation, starts, aborted, reader, outcome>>

Abort ==
  /\ ~aborted
  /\ aborted' = TRUE
  /\ UNCHANGED <<stage, level, violation, starts, reader, reads, outcome>>

-----------------------------------------------------------------------------
Run ==
  \/ \E ok \in BOOLEAN : \/ Verify(ok) \/ Instance(ok) \/ Resolved(ok) \/ Called(ok)
                         \/ FilterResolved(ok) \/ Handled(ok)
  \/ \E answer \in {"yes", "no", "bad", "throws"} : Supported(answer)
  \/ Return
  \/ Closed

Proceed(k) ==
  \/ Dequeue(k)
  \/ /\ k # Handler
     /\ \/ \E ok \in BOOLEAN : InterceptorResolved(k, ok)
        \/ \E result \in {"ok", "error"} : Intercepted(k, result)
        \/ Settle(k)
  \/ k = Handler /\ \E result \in {"ok", "error"} : HandlerReturns(result)

Next ==
  \/ Run
  \/ \E k \in Levels : Proceed(k)
  \/ \E k \in Levels \ {Handler} : CallNext(k)
  \/ StartRead
  \/ EndRead
  \/ Abort

Spec == Init /\ [][Next]_vars

-----------------------------------------------------------------------------
(* Properties.                                                             *)

InFlight(k) == level[k].pc \in {"queued", "resolve", "running", "drain"}

(* However next is called, an interceptor and the handler run once at most *)
(* in an invocation, and no dispatch is left running or waiting outside    *)
(* run's own: neither while a filter looks at the failure nor after the    *)
(* attempt was settled.  Nor is a read of the children's results under way *)
(* when the supervisor is answered, or begun after it.                     *)
SingleNested ==
  /\ \A k \in Levels : starts[k] <= 1
  /\ stage.phase # "dispatch" => \A k \in Levels : ~InFlight(k)
  /\ stage.phase = "settled" => reads = 0

(* An interceptor that misused next does not succeed, even if it misused   *)
(* it after it had returned, while its continuation was draining.          *)
MisuseFails == \A k \in violation : level[k].pc = "done" => level[k].result = "error"

(* The application's code that is running.                                 *)
UserCode ==
  {<<"level", k>> : k \in {j \in Levels : level[j].pc = "running"}} \cup
  (IF stage.phase \in {"call", "supports", "handle"}
     THEN {<<stage.phase, stage.at>>} ELSE {})

(* Once the signal has aborted, no guard, pipe, interceptor, handler or    *)
(* filter is started any more.                                             *)
AbortStops == [][aborted => UserCode' \subseteq UserCode]_vars
=============================================================================
