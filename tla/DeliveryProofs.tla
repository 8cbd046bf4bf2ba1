--------------------------- MODULE DeliveryProofs ---------------------------
(***************************************************************************)
(* Proofs about a job's way to its handler and about the invocation that   *)
(* runs it, for any number of enhancers, interceptors and filters, any     *)
(* policies, keys, applications, callers and flows.  The parts of Delivery *)
(* share no state, so each has its own invariant and its own steps.        *)
(***************************************************************************)
EXTENDS Delivery, FiniteSetTheorems, WellFoundedInduction, TLAPS

(* The dispatches outside one in flight are running or draining; a level   *)
(* that has not been called yet was never started; nothing is in flight    *)
(* outside the dispatch phase, and before it no level was even asked for.  *)
NestedInv ==
  /\ \A j, k \in Levels : j < k /\ InFlight(k) => level[j].pc \in {"running", "drain"}
  /\ \A k \in Levels : /\ starts[k] <= 1
                       /\ level[k].pc \in {"idle", "queued", "resolve"} => starts[k] = 0
  /\ stage.phase # "dispatch" => \A k \in Levels : ~InFlight(k)
  /\ stage.phase \in {"verify", "instance", "resolve", "call"} =>
       \A k \in Levels : level[k].pc = "idle"

(* The reader is open from the verification to the end of the invocation,  *)
(* and only an open one, or one that is being closed, has reads in flight. *)
ReaderInv ==
  /\ reader = "open" => stage.phase \notin {"verify", "close", "settled"}
  /\ reads # 0 => reader = "open" \/ stage.phase = "close"

InvocationInv == TypeOK /\ NestedInv /\ ReaderInv /\ MisuseFails

(* A registered job has the policy that was declared last; what is claimed *)
(* is referred to as it was published, and runs only where it agrees.      *)
JobInv ==
  /\ \A c \in contract : c.job.retry = c.declared
  /\ PayloadKept /\ RetryAsDeclared /\ KeyedWhereLimited
  /\ \A q \in request : DOMAIN q = {"stored", "keyed", "derived", "declared"}
  /\ \A c \in claim :
       /\ c.own \in Optional(Policies)
       /\ c.reference = c.published
       /\ life \in {"running", "decided"} => c.own = c.published

(* A call is bound where it was made, has nothing published before the     *)
(* engine took it and everything when it waits for the result; what was    *)
(* validated of it is not malformed, what the engine is asked for is good. *)
CallType ==
  /\ application \in [Applications -> [host : {"new", "starting", "bound", "serving", "failed"},
                                       session : {"new", "ready", "closed"}]]
  /\ binding \subseteq Applications
  /\ DOMAIN call = Callers /\ DOMAIN published = Callers

CallWhole(d, stored) ==
  /\ stored \in {{}, d.at \X DOMAIN d.items}
  /\ stored # {} => Range(d.items) \subseteq {"good"}
  /\ d.told = "value" /\ d.op # "prepare" => stored = d.at \X DOMAIN d.items

OneCallInv(d, stored) ==
  /\ CallWhole(d, stored)
  /\ DOMAIN d = {"pc", "op", "items", "at", "client", "left", "told"}
  /\ \A i \in DOMAIN d.items : d.items[i] \in Items
  /\ d.client = d.at
  /\ d.pc \in {"idle", "parsing", "engine"} => stored = {}
  /\ d.pc # "settled" => d.told = "none"
  /\ d.pc = "parsing" => \A i \in DOMAIN d.items \ d.left : d.items[i] # "malformed"
  /\ d.pc \in {"engine", "await"} => Range(d.items) \subseteq {"good"}
  /\ d.pc = "await" => stored = d.at \X DOMAIN d.items

CallInv ==
  /\ CallType /\ KeptBound
  /\ \A c \in Callers : OneCallInv(call[c], published[c])

(* The parents left behind are unfinished still; what the activation has   *)
(* found are parents of its own flows, and what it has not found yet is on *)
(* a connection that it has still to read.                                 *)
SeedInv ==
  /\ recover.flows \subseteq Flows
  /\ DOMAIN recover = {"pc", "flows", "unread", "ids"}
  /\ DOMAIN parents = Parents
  /\ \A p \in Parents :
       /\ DOMAIN parents[p] = {"flow", "state", "cascade"}
       /\ parents[p].state # "absent" => parents[p].flow \in Flows
       /\ parents[p].state = "absent" => ~Unfinished(parents[p])
  /\ left \subseteq {p \in Parents : Unfinished(parents[p])}
  /\ recover.pc \in {"reading", "started"} =>
       /\ recover.ids \subseteq {p \in Parents : /\ parents[p].state # "absent"
                                                 /\ parents[p].flow \in recover.flows}
       /\ \A p \in left : parents[p].flow \in recover.flows =>
            p \in recover.ids \/ parents[p].flow[1] \in recover.unread
  /\ recover.pc = "started" => recover.unread = {}

(* What a Collect phase reads.                                             *)
Kids == [key : Nat, job : Jobs, fanOut : {1, 2}, outcome : Outcomes \cup {"missing"}]
Reader == [pc : {"idle", "page", "restore", "decode", "done", "failed"}, all : BOOLEAN,
           job : SUBSET Jobs, max : Nat, limit : Nat, at : Nat, snapshot : Seq(Kids),
           items : Seq(Kids), seen : SUBSET Nat]

CollectType ==
  /\ manifest \in Seq([job : Jobs, outcome : Outcomes])
  /\ fanOut \in {0, 1, 2} /\ cursors \subseteq Nat
  /\ read \in Reader
  /\ fanOut = 0 => read.pc = "idle"
  /\ read.pc = "idle" => read = NoRead

(* A child that was read is one of the flow's, with the result that its    *)
(* fan-out has stored for it or none; or it has exactly the child's.       *)
Own(child) ==
  /\ child.key \in DOMAIN manifest /\ child.job = manifest[child.key].job
  /\ child.fanOut <= fanOut
  /\ child.outcome \in {Stored(child.fanOut)[child.key].outcome, "missing"}
Exact(child) == child.outcome = manifest[child.key].outcome

(* The answer for the children at some positions: each once, in its place. *)
Ascending(items) == \A i, k \in DOMAIN items : i < k => items[i].key < items[k].key
AnswersFor(items, positions) ==
  /\ {items[i].key : i \in DOMAIN items} = {key \in positions : {manifest[key].job} = read.job}
  /\ Ascending(items)
  /\ \A i \in DOMAIN items : Exact(items[i])

(* A snapshot is of the whole flow; only null results are still missing.   *)
SnapshotInv ==
  read.pc \in {"restore", "decode"} =>
    /\ DOMAIN read.snapshot = DOMAIN manifest
    /\ \A i \in DOMAIN manifest :
         /\ read.snapshot[i].key = i /\ Own(read.snapshot[i])
         /\ fanOut = 1 => \/ Exact(read.snapshot[i])
                          \/ /\ read.pc = "restore" /\ read.snapshot[i].outcome = "missing"
                             /\ manifest[i].outcome = "null"

(* all has answered for the pages before its cursor.                       *)
PagesInv ==
  read.pc \in {"page", "restore", "decode"} =>
    /\ ~read.all => read.items = <<>>
    /\ read.all => /\ read.at = 0 \/ read.at \in read.seen
                   /\ read.at <= Len(manifest)
                   /\ fanOut = 1 => AnswersFor(read.items, 1..read.at)

CollectInv ==
  /\ CollectType /\ SnapshotInv /\ PagesInv
  /\ \A i \in DOMAIN read.items : Own(read.items[i])
  /\ read.pc = "done" /\ fanOut = 1 =>
       AnswersFor(read.items, IF read.all THEN DOMAIN manifest ELSE Covered)

IInv == InvocationInv /\ JobInv /\ CallInv /\ SeedInv /\ CollectInv

-----------------------------------------------------------------------------
(* The invocation: where run goes.                                         *)

(* The levels and the indices of the phases are numbers in order.          *)
LEMMA Indices ==
  /\ Largest \in Nat /\ Enhancers <= Largest /\ Filters <= Largest
  /\ Handler \in Levels /\ 1 \in Levels /\ Levels \subseteq Nat
  /\ \A k \in Levels : 1 <= k /\ k <= Handler /\ (k # Handler => k + 1 \in Levels)
BY InvocationAssumption DEF Largest, Handler, Levels

Running == Phases \ {"verify", "close", "settled"}

(* run goes on to another phase, its reader as it was.                     *)
LEMMA Moves ==
  ASSUME TypeOK, ReaderInv, stage.phase \in Running,
         NEW phase \in Running, NEW i \in 0..Largest, GoTo(phase, i),
         UNCHANGED <<reader, reads, outcome>>
  PROVE  /\ stage' \in [phase : Phases, at : 0..Largest] /\ stage'.phase = phase
         /\ ReaderInv'
<1>1. stage' = [phase |-> phase, at |-> i]  BY DEF GoTo
<1>. QED  BY <1>1 DEF Running, ReaderInv

(* run ends; if it has a reader, that is closed first.                     *)
LEMMA Ends ==
  ASSUME TypeOK, ReaderInv, stage.phase \notin {"close", "settled"},
         NEW answer \in {"ok", "error", "aborted"}, Finish(answer), UNCHANGED reads
  PROVE  /\ stage' \in [phase : Phases, at : 0..Largest]
         /\ stage'.phase \in {"close", "settled"}
         /\ reader' \in {"none", "open", "closed"}
         /\ outcome' \in {"none", "ok", "error", "aborted"}
         /\ ReaderInv'
<1>1. 0 \in 0..Largest /\ {"close", "settled"} \subseteq Phases
  BY Indices DEF Phases
<1>2. outcome' = answer  BY DEF Finish
<1>3. CASE reader = "open"
  <2>1. stage' = [phase |-> "close", at |-> 0] /\ reader' = "closed"
    BY <1>3 DEF Finish, GoTo
  <2>. QED  BY <1>1, <1>2, <2>1 DEF ReaderInv
<1>4. CASE reader # "open"
  <2>1. stage' = [phase |-> "settled", at |-> 0] /\ reader' = reader
    BY <1>4 DEF Finish, GoTo
  <2>. QED  BY <1>1, <1>2, <1>4, <2>1 DEF TypeOK, ReaderInv
<1>. QED  BY <1>3, <1>4

(* A failure ends it or goes to the first filter.                          *)
LEMMA Fails ==
  ASSUME TypeOK, ReaderInv, stage.phase \in Running, Failed, UNCHANGED reads
  PROVE  /\ stage' \in [phase : Phases, at : 0..Largest]
         /\ stage'.phase \in {"close", "settled", "select"}
         /\ aborted => stage'.phase # "select"
         /\ reader' \in {"none", "open", "closed"}
         /\ outcome' \in {"none", "ok", "error", "aborted"}
         /\ ReaderInv'
<1>1. CASE aborted \/ Filters = 0
  <2>1. PICK answer \in {"error", "aborted"} : Finish(answer)
    BY <1>1 DEF Failed
  <2>2. stage.phase \notin {"close", "settled"}  BY DEF Running
  <2>. QED  BY <2>1, <2>2, Ends
<1>2. CASE ~aborted /\ Filters # 0
  <2>1. GoTo("select", 1) /\ UNCHANGED <<reader, outcome>>
    BY <1>2 DEF Failed
  <2>2. 1 \in 0..Largest
    BY <1>2, Indices, InvocationAssumption
  <2>3. "select" \in Running  BY DEF Running, Phases
  <2>4. stage' \in [phase : Phases, at : 0..Largest] /\ stage'.phase = "select" /\ ReaderInv'
    BY <2>1, <2>2, <2>3, Moves
  <2>. QED  BY <1>2, <2>1, <2>4 DEF TypeOK
<1>. QED  BY <1>1, <1>2

-----------------------------------------------------------------------------
(* The invocation: what becomes of the levels.                             *)

(* Nothing happens to them: all stays as it was, where the phase allows it.*)
LEMMA LevelsKept ==
  ASSUME NestedInv, MisuseFails, UNCHANGED <<level, starts, violation>>,
         stage'.phase # "dispatch" => \A k \in Levels : ~InFlight(k),
         stage'.phase \in {"verify", "instance", "resolve", "call"} =>
           \A k \in Levels : level[k].pc = "idle"
  PROVE  NestedInv' /\ MisuseFails'
BY DEF NestedInv, MisuseFails, InFlight

(* What the levels keep of their types, their order and their starts.      *)
LevelsInv ==
  /\ level \in [Levels -> Level] /\ starts \in [Levels -> Nat]
  /\ \A j, k \in Levels : j < k /\ InFlight(k) => level[j].pc \in {"running", "drain"}
  /\ \A k \in Levels : /\ starts[k] <= 1
                       /\ level[k].pc \in {"idle", "queued", "resolve"} => starts[k] = 0

(* A level that nothing is in flight below moves on from a state in which  *)
(* it was not started, keeping what is outside it in flight.               *)
LEMMA LevelMoves ==
  ASSUME LevelsInv, MisuseFails, violation' = violation,
         NEW k \in Levels, NEW to \in Level, level' = [level EXCEPT ![k] = to],
         \A j \in Levels : j < k => level[j].pc \in {"running", "drain"},
         \A m \in Levels : m > k => ~InFlight(m),
         starts' \in [Levels -> Nat], starts'[k] <= 1,
         \A m \in Levels \ {k} : starts'[m] = starts[m],
         to.pc \in {"idle", "queued", "resolve"} => starts'[k] = 0,
         k \in violation /\ to.pc = "done" => to.result = "error"
  PROVE  LevelsInv' /\ MisuseFails'
<1>1. level' \in [Levels -> Level]
  BY DEF LevelsInv
<1>2. level'[k] = to /\ \A m \in Levels \ {k} : level'[m] = level[m]
  BY DEF LevelsInv
<1>3. ASSUME NEW i \in Levels, NEW m \in Levels, i < m, InFlight(m)'
      PROVE  level'[i].pc \in {"running", "drain"}
  <2>1. CASE m = k
    BY <1>2, <1>3, <2>1, Indices
  <2>2. CASE m # k
    <3>1. InFlight(m)  BY <1>2, <1>3, <2>2 DEF InFlight
    <3>2. m < k  BY <2>2, <3>1, Indices
    <3>3. i # k  BY <1>3, <3>2, Indices
    <3>. QED  BY <1>2, <1>3, <3>1, <3>3 DEF LevelsInv
  <2>. QED  BY <2>1, <2>2
<1>4. \A m \in Levels : /\ starts'[m] <= 1
                        /\ level'[m].pc \in {"idle", "queued", "resolve"} => starts'[m] = 0
  BY <1>2 DEF LevelsInv
<1>5. MisuseFails'
  <2>1. SUFFICES ASSUME NEW m \in violation, level'[m].pc = "done"
                 PROVE  level'[m].result = "error"
    BY DEF MisuseFails
  <2>2. CASE m = k  BY <1>2, <2>1, <2>2
  <2>3. CASE m # k
    <3>1. level'[m] = level[m]  BY <2>3 DEF LevelsInv
    <3>. QED  BY <2>1, <3>1 DEF MisuseFails
  <2>. QED  BY <2>2, <2>3
<1>. QED  BY <1>1, <1>3, <1>4, <1>5 DEF LevelsInv

(* The invariant gives what the lemmas on the levels need.                 *)
LEMMA LevelsOf ==
  ASSUME TypeOK, NestedInv
  PROVE  LevelsInv
BY DEF TypeOK, NestedInv, LevelsInv

(* Only a running or draining dispatch has one in flight below it, and all *)
(* around one in flight are such.                                          *)
LEMMA Around ==
  ASSUME NestedInv, NEW k \in Levels
  PROVE  /\ level[k].pc \notin {"running", "drain"} => \A m \in Levels : m > k => ~InFlight(m)
         /\ InFlight(k) => /\ \A j \in Levels : j < k => level[j].pc \in {"running", "drain"}
                          /\ stage.phase = "dispatch"
BY Indices DEF NestedInv

(* A level that was not started starts once.                               *)
LEMMA StartsOnce ==
  ASSUME LevelsInv, MisuseFails, violation' = violation,
         NEW k \in Levels, level[k].pc \in {"idle", "queued", "resolve"}, Started(k),
         \A j \in Levels : j < k => level[j].pc \in {"running", "drain"},
         \A m \in Levels : m > k => ~InFlight(m)
  PROVE  LevelsInv' /\ MisuseFails'
<1> DEFINE to == [level[k] EXCEPT !.pc = "running"]
<1>1. level[k] \in Level /\ starts[k] = 0
  BY DEF LevelsInv
<1>2. to \in Level /\ to.pc = "running"
  BY <1>1 DEF Level
<1>3. level' = [level EXCEPT ![k] = to]
  BY DEF Started
<1>4. /\ starts' \in [Levels -> Nat] /\ starts'[k] <= 1
      /\ \A m \in Levels \ {k} : starts'[m] = starts[m]
  BY <1>1 DEF Started, LevelsInv
<1>. HIDE DEF to
<1>. QED  BY <1>2, <1>3, <1>4, LevelMoves

(* A level that was not started may be refused, and fails.                 *)
LEMMA RefusesLevel ==
  ASSUME LevelsInv, MisuseFails, violation' = violation,
         NEW k \in Levels, level[k].pc \in {"idle", "queued", "resolve"}, Rejected(k),
         \A j \in Levels : j < k => level[j].pc \in {"running", "drain"},
         \A m \in Levels : m > k => ~InFlight(m)
  PROVE  LevelsInv' /\ MisuseFails'
<1>1. [pc |-> "done", result |-> "error"] \in Level
  BY DEF Level
<1>2. starts' \in [Levels -> Nat] /\ starts'[k] <= 1 /\ starts' = starts
  BY DEF Rejected, LevelsInv
<1>3. level' = [level EXCEPT ![k] = [pc |-> "done", result |-> "error"]]
  BY DEF Rejected
<1>. QED  BY <1>1, <1>2, <1>3, LevelMoves

(* dispatch starts the handler, has an interceptor resolved or is refused. *)
LEMMA DispatchedLevels ==
  ASSUME LevelsInv, MisuseFails, violation' = violation,
         NEW k \in Levels, level[k].pc \in {"idle", "queued"}, Dispatched(k),
         \A j \in Levels : j < k => level[j].pc \in {"running", "drain"},
         \A m \in Levels : m > k => ~InFlight(m)
  PROVE  LevelsInv' /\ MisuseFails'
<1>1. CASE Rejected(k)
  BY <1>1, RefusesLevel
<1>2. CASE Started(k)
  BY <1>2, StartsOnce
<1>3. CASE level' = [level EXCEPT ![k].pc = "resolve"] /\ UNCHANGED starts
  <2> DEFINE to == [level[k] EXCEPT !.pc = "resolve"]
  <2>1. level[k] \in Level /\ starts[k] = 0
    BY DEF LevelsInv
  <2>2. to \in Level /\ to.pc = "resolve"
    BY <2>1 DEF Level
  <2>3. level' = [level EXCEPT ![k] = to]
    BY <1>3
  <2>4. /\ starts' \in [Levels -> Nat] /\ starts'[k] <= 1 /\ starts'[k] = 0
        /\ \A m \in Levels \ {k} : starts'[m] = starts[m]
    BY <1>3, <2>1 DEF LevelsInv
  <2>. HIDE DEF to
  <2>. QED  BY <2>2, <2>3, <2>4, LevelMoves
<1>. QED  BY <1>1, <1>2, <1>3 DEF Dispatched

(* After the enhancers comes the first dispatch.                           *)
LEMMA AdvanceStep ==
  ASSUME InvocationInv, stage.phase \in {"instance", "call"}, NEW i \in 0..Largest, Advance(i),
         UNCHANGED <<violation, aborted, reads>>
  PROVE  InvocationInv'
<1>. USE DEF InvocationInv
<1>0. \A k \in Levels : level[k].pc = "idle" /\ ~InFlight(k)
  BY DEF NestedInv, InFlight
<1>1. stage.phase \in Running  BY DEF Running, Phases
<1>2. CASE aborted
  <2>1. Finish("aborted") /\ UNCHANGED <<level, starts>>
    BY <1>2 DEF Advance
  <2>2. /\ stage' \in [phase : Phases, at : 0..Largest] /\ stage'.phase \in {"close", "settled"}
        /\ reader' \in {"none", "open", "closed"}
        /\ outcome' \in {"none", "ok", "error", "aborted"} /\ ReaderInv'
    BY <2>1, Ends
  <2>3. NestedInv' /\ MisuseFails'
    BY <1>0, <2>1, <2>2, LevelsKept
  <2>. QED  BY <2>1, <2>2, <2>3 DEF TypeOK
<1>3. CASE ~aborted /\ i < Enhancers
  <2>1. GoTo("resolve", i + 1) /\ UNCHANGED <<reader, outcome, level, starts>>
    BY <1>3 DEF Advance
  <2>2. i + 1 \in 0..Largest /\ "resolve" \in Running
    BY <1>3, Indices, InvocationAssumption DEF Running, Phases
  <2>3. stage' \in [phase : Phases, at : 0..Largest] /\ stage'.phase = "resolve" /\ ReaderInv'
    BY <1>1, <2>1, <2>2, Moves
  <2>4. NestedInv' /\ MisuseFails'
    BY <1>0, <2>1, <2>3, LevelsKept
  <2>. QED  BY <2>1, <2>3, <2>4 DEF TypeOK
<1>4. CASE ~aborted /\ ~(i < Enhancers)
  <2>1. GoTo("dispatch", 0) /\ UNCHANGED <<reader, outcome>> /\ Dispatched(1)
    BY <1>4 DEF Advance
  <2>2. 0 \in 0..Largest /\ "dispatch" \in Running
    BY Indices DEF Running, Phases
  <2>3. stage' \in [phase : Phases, at : 0..Largest] /\ stage'.phase = "dispatch" /\ ReaderInv'
    BY <1>1, <2>1, <2>2, Moves
  <2>4. LevelsInv' /\ MisuseFails'
    BY <1>0, <2>1, Indices, LevelsOf, DispatchedLevels
  <2>5. NestedInv'
    BY <2>3, <2>4 DEF NestedInv, LevelsInv
  <2>. QED  BY <2>1, <2>3, <2>4, <2>5 DEF TypeOK, LevelsInv
<1>. QED  BY <1>2, <1>3, <1>4

(* A step of run that leaves the levels alone.                             *)
LEMMA StageStep ==
  ASSUME InvocationInv, UNCHANGED <<level, violation, starts, aborted, reads>>,
         stage' \in [phase : Phases, at : 0..Largest],
         reader' \in {"none", "open", "closed"},
         outcome' \in {"none", "ok", "error", "aborted"}, ReaderInv',
         stage'.phase # "dispatch",
         stage.phase # "dispatch" \/ \A k \in Levels : ~InFlight(k),
         stage'.phase \in {"verify", "instance", "resolve", "call"} =>
           stage.phase \in {"verify", "instance", "resolve", "call"}
  PROVE  InvocationInv'
<1>1. \A k \in Levels : ~InFlight(k)
  BY DEF InvocationInv, NestedInv
<1>2. NestedInv' /\ MisuseFails'
  <2>1. stage'.phase \in {"verify", "instance", "resolve", "call"} =>
          \A k \in Levels : level[k].pc = "idle"
    BY DEF InvocationInv, NestedInv
  <2>. QED  BY <1>1, <2>1, LevelsKept DEF InvocationInv
<1>. QED  BY <1>2 DEF InvocationInv, TypeOK

(* The steps of run.                                                       *)
LEMMA VerifyStep ==
  ASSUME InvocationInv, NEW ok \in BOOLEAN, Verify(ok)
  PROVE  InvocationInv'
<1>. USE DEF InvocationInv
<1>1. stage.phase = "verify" /\ UNCHANGED <<level, violation, starts, aborted, reads>>
  BY DEF Verify
<1>2. CASE ok /\ ~aborted
  <2>1. stage' = [phase |-> "instance", at |-> 0] /\ reader' = "open" /\ outcome' = outcome
    BY <1>2 DEF Verify, GoTo
  <2>2. stage' \in [phase : Phases, at : 0..Largest]
    BY <2>1, Indices DEF Phases
  <2>3. ReaderInv'
    BY <2>1 DEF ReaderInv
  <2>. QED  BY <1>1, <2>1, <2>2, <2>3, StageStep DEF TypeOK
<1>3. CASE ~(ok /\ ~aborted)
  <2>1. Finish("error")
    BY <1>3 DEF Verify
  <2>2. /\ stage' \in [phase : Phases, at : 0..Largest] /\ stage'.phase \in {"close", "settled"}
        /\ reader' \in {"none", "open", "closed"}
        /\ outcome' \in {"none", "ok", "error", "aborted"} /\ ReaderInv'
    BY <1>1, <2>1, Ends
  <2>. QED  BY <1>1, <2>2, StageStep
<1>. QED  BY <1>2, <1>3

(* It ends, in a phase in which nothing is in flight.                      *)
LEMMA FinishStep ==
  ASSUME InvocationInv, stage.phase \in Running, NEW answer \in {"ok", "error", "aborted"},
         Finish(answer), UNCHANGED <<level, violation, starts, aborted, reads>>,
         stage.phase # "dispatch" \/ \A k \in Levels : ~InFlight(k)
  PROVE  InvocationInv'
<1>1. stage.phase \notin {"close", "settled"}  BY DEF Running
<1>2. /\ stage' \in [phase : Phases, at : 0..Largest] /\ stage'.phase \in {"close", "settled"}
      /\ reader' \in {"none", "open", "closed"}
      /\ outcome' \in {"none", "ok", "error", "aborted"} /\ ReaderInv'
  BY <1>1, Ends DEF InvocationInv
<1>. QED  BY <1>2, StageStep

(* It fails, in such a phase.                                              *)
LEMMA FailedStep ==
  ASSUME InvocationInv, stage.phase \in Running,
         Failed, UNCHANGED <<level, violation, starts, aborted, reads>>,
         stage.phase # "dispatch" \/ \A k \in Levels : ~InFlight(k)
  PROVE  InvocationInv'
<1>1. /\ stage' \in [phase : Phases, at : 0..Largest]
      /\ stage'.phase \in {"close", "settled", "select"}
      /\ reader' \in {"none", "open", "closed"}
      /\ outcome' \in {"none", "ok", "error", "aborted"} /\ ReaderInv'
  BY Fails DEF InvocationInv
<1>. QED  BY <1>1, StageStep

(* It goes on to a phase that calls the application's code or a filter.    *)
LEMMA GoesOn ==
  ASSUME InvocationInv, stage.phase \in Running \ {"dispatch"},
         NEW phase \in {"call", "select", "supports", "handle"}, NEW i \in 0..Largest,
         GoTo(phase, i), UNCHANGED <<reader, outcome, level, violation, starts, aborted, reads>>,
         phase = "call" => stage.phase = "resolve"
  PROVE  InvocationInv'
<1>1. phase \in Running  BY DEF Running, Phases
<1>2. /\ stage' \in [phase : Phases, at : 0..Largest] /\ stage'.phase = phase /\ ReaderInv'
  BY <1>1, Moves DEF InvocationInv
<1>. QED  BY <1>2, StageStep DEF InvocationInv, TypeOK

(* The instance is resolved, well or not.                                  *)
LEMMA InstanceStep ==
  ASSUME InvocationInv, NEW ok \in BOOLEAN, Instance(ok)
  PROVE  InvocationInv'
<1>1. stage.phase = "instance" /\ UNCHANGED <<violation, aborted, reads>>
  BY DEF Instance
<1>2. CASE ok
  <2>1. Advance(0)  BY <1>2 DEF Instance
  <2>. QED  BY <1>1, <2>1, Indices, AdvanceStep
<1>3. CASE ~ok
  <2>1. Finish("error") /\ UNCHANGED <<level, starts>>  BY <1>3 DEF Instance
  <2>. QED  BY <1>1, <2>1, FinishStep DEF Running, Phases
<1>. QED  BY <1>2, <1>3

(* An enhancer is resolved, well or not.                                   *)
LEMMA ResolvedStep ==
  ASSUME InvocationInv, NEW ok \in BOOLEAN, Resolved(ok)
  PROVE  InvocationInv'
<1>1. stage.phase = "resolve" /\ UNCHANGED <<level, violation, starts, aborted, reads>>
  BY DEF Resolved
<1>2. stage.phase \in Running \ {"dispatch"} /\ stage.at \in 0..Largest
  BY <1>1 DEF Running, Phases, InvocationInv, TypeOK
<1>3. CASE ok /\ ~aborted
  BY <1>1, <1>2, <1>3, GoesOn DEF Resolved
<1>4. CASE ~(ok /\ ~aborted)
  BY <1>1, <1>2, <1>4, FailedStep DEF Resolved
<1>. QED  BY <1>3, <1>4

(* An enhancer was called, well or not.                                    *)
LEMMA CalledStep ==
  ASSUME InvocationInv, NEW ok \in BOOLEAN, Called(ok)
  PROVE  InvocationInv'
<1>1. stage.phase = "call" /\ UNCHANGED <<violation, aborted, reads>>
  BY DEF Called
<1>2. stage.phase \in Running /\ stage.at \in 0..Largest
  BY <1>1 DEF Running, Phases, InvocationInv, TypeOK
<1>3. CASE ok
  <2>1. Advance(stage.at)  BY <1>3 DEF Called
  <2>. QED  BY <1>1, <1>2, <2>1, AdvanceStep
<1>4. CASE ~ok
  <2>1. Failed /\ UNCHANGED <<level, starts>>  BY <1>4 DEF Called
  <2>. QED  BY <1>1, <1>2, <2>1, FailedStep
<1>. QED  BY <1>3, <1>4

(* The outermost dispatch is done, so none inside it is in flight.         *)
LEMMA ReturnStep ==
  ASSUME InvocationInv, Return
  PROVE  InvocationInv'
<1>1. /\ stage.phase = "dispatch" /\ level[1].pc = "done"
      /\ UNCHANGED <<level, violation, starts, aborted, reads>>
  BY DEF Return
<1>2. \A k \in Levels : ~InFlight(k)
  <2>1. \A k \in Levels : k > 1 => ~InFlight(k)
    BY <1>1, Indices, Around DEF InvocationInv
  <2>2. ~InFlight(1)
    BY <1>1 DEF InFlight
  <2>. QED  BY <2>1, <2>2, Indices
<1>3. stage.phase \in Running
  BY <1>1 DEF Running, Phases
<1>4. CASE level[1].result = "ok"
  BY <1>1, <1>2, <1>3, <1>4, FinishStep DEF Return
<1>5. CASE level[1].result # "ok"
  BY <1>1, <1>2, <1>3, <1>5, FailedStep DEF Return
<1>. QED  BY <1>4, <1>5

(* A filter is resolved, well or not.                                      *)
LEMMA FilterResolvedStep ==
  ASSUME InvocationInv, NEW ok \in BOOLEAN, FilterResolved(ok)
  PROVE  InvocationInv'
<1>1. stage.phase = "select" /\ UNCHANGED <<level, violation, starts, aborted, reads>>
  BY DEF FilterResolved
<1>2. stage.phase \in Running \ {"dispatch"} /\ stage.at \in 0..Largest
  BY <1>1 DEF Running, Phases, InvocationInv, TypeOK
<1>3. CASE aborted \/ ~ok
  <2>1. PICK answer \in {"error", "aborted"} : Finish(answer)
    BY <1>3 DEF FilterResolved
  <2>. QED  BY <1>1, <1>2, <2>1, FinishStep
<1>4. CASE ~aborted /\ ok
  BY <1>1, <1>2, <1>4, GoesOn DEF FilterResolved
<1>. QED  BY <1>3, <1>4

(* A filter says whether it handles the failure.                           *)
LEMMA SupportedStep ==
  ASSUME InvocationInv, NEW answer \in {"yes", "no", "bad", "throws"}, Supported(answer)
  PROVE  InvocationInv'
<1>1. stage.phase = "supports" /\ UNCHANGED <<level, violation, starts, aborted, reads>>
  BY DEF Supported
<1>2. stage.phase \in Running \ {"dispatch"} /\ stage.at \in 0..Largest
  BY <1>1 DEF Running, Phases, InvocationInv, TypeOK
<1>3. CASE aborted \/ answer = "throws"
  <2>1. PICK end \in {"error", "aborted"} : Finish(end)
    BY <1>3 DEF Supported
  <2>. QED  BY <1>1, <1>2, <2>1, FinishStep
<1>4. CASE ~aborted /\ answer = "yes"
  <2>1. GoTo("handle", stage.at) /\ UNCHANGED <<reader, outcome>>
    BY <1>4 DEF Supported
  <2>. QED  BY <1>1, <1>2, <2>1, GoesOn
<1>5. CASE ~aborted /\ answer = "no" /\ stage.at < Filters
  <2>1. GoTo("select", stage.at + 1) /\ UNCHANGED <<reader, outcome>>
    BY <1>5 DEF Supported
  <2>2. stage.at + 1 \in 0..Largest
    BY <1>2, <1>5, Indices, InvocationAssumption
  <2>. QED  BY <1>1, <1>2, <2>1, <2>2, GoesOn
<1>6. CASE ~aborted /\ answer \notin {"yes", "throws"} /\ ~(answer = "no" /\ stage.at < Filters)
  <2>1. Finish("error")  BY <1>6 DEF Supported
  <2>. QED  BY <1>1, <1>2, <2>1, FinishStep
<1>. QED  BY <1>3, <1>4, <1>5, <1>6

(* A filter has handled the failure or failed itself, which ends the run.  *)
LEMMA HandledStep ==
  ASSUME InvocationInv, NEW ok \in BOOLEAN, Handled(ok)
  PROVE  InvocationInv'
<1>1. PICK answer \in {"ok", "error"} : Finish(answer)
  BY DEF Handled
<1>2. stage.phase = "handle" /\ UNCHANGED <<level, violation, starts, aborted, reads>>
  BY DEF Handled
<1>3. stage.phase \in Running  BY <1>2 DEF Running, Phases
<1>. QED  BY <1>1, <1>2, <1>3, FinishStep

(* A closed reader has no read in flight.                                  *)
LEMMA ClosedStep ==
  ASSUME InvocationInv, Closed
  PROVE  InvocationInv'
<1>1. /\ stage.phase = "close" /\ stage' = [phase |-> "settled", at |-> 0] /\ reads = 0
      /\ UNCHANGED <<level, violation, starts, aborted, reader, reads, outcome>>
  BY DEF Closed, GoTo
<1>2. stage' \in [phase : Phases, at : 0..Largest] /\ stage'.phase = "settled"
  BY <1>1, Indices DEF Phases
<1>3. ReaderInv'
  BY <1>1, <1>2 DEF InvocationInv, ReaderInv
<1>. QED  BY <1>1, <1>2, <1>3, StageStep DEF InvocationInv, TypeOK

-----------------------------------------------------------------------------
(* The steps of the dispatches, which take place in the dispatch phase.    *)

(* What keeps the levels sound during a dispatch keeps the whole           *)
(* invariant.                                                              *)
LEMMA LevelStep ==
  ASSUME InvocationInv, stage.phase = "dispatch", LevelsInv', MisuseFails',
         violation' \in SUBSET (Levels \ {Handler}),
         UNCHANGED <<stage, aborted, reader, reads, outcome>>
  PROVE  InvocationInv'
BY DEF InvocationInv, TypeOK, LevelsInv, NestedInv, ReaderInv

(* A valid call of next queues the level below; any other is a violation   *)
(* of an interceptor that has not settled, and changes no level.           *)
LEMMA CallNextStep ==
  ASSUME InvocationInv, NEW k \in Levels \ {Handler}, CallNext(k)
  PROVE  InvocationInv'
<1>. USE DEF InvocationInv
<1>1. UNCHANGED <<stage, starts, aborted, reader, reads, outcome>> /\ k + 1 \in Levels
  BY Indices DEF CallNext
<1>2. CASE Admits(k)
  <2> DEFINE to == [level[k + 1] EXCEPT !.pc = "queued"]
  <2>1. /\ level[k].pc = "running" /\ level[k + 1].pc = "idle" /\ violation' = violation
        /\ level' = [level EXCEPT ![k + 1] = to]
    BY <1>2 DEF CallNext, Admits
  <2>2. to \in Level /\ to.pc = "queued"
    BY <1>1 DEF TypeOK, Level
  <2>3. InFlight(k) /\ stage.phase = "dispatch"
    BY <2>1, Around DEF InFlight
  <2>4. \A j \in Levels : j < k + 1 => level[j].pc \in {"running", "drain"}
    <3>1. \A j \in Levels : j < k + 1 => j < k \/ j = k  BY Indices
    <3>. QED  BY <2>1, <2>3, <3>1, Around
  <2>5. \A m \in Levels : m > k + 1 => ~InFlight(m)
    BY <1>1, <2>1, Around
  <2>6. /\ LevelsInv /\ starts' \in [Levels -> Nat] /\ starts'[k + 1] <= 1 /\ starts'[k + 1] = 0
        /\ \A m \in Levels \ {k + 1} : starts'[m] = starts[m]
    BY <1>1, <2>1, LevelsOf DEF LevelsInv
  <2>. HIDE DEF to
  <2>7. LevelsInv' /\ MisuseFails'
    BY <1>1, <2>1, <2>2, <2>4, <2>5, <2>6, LevelMoves
  <2>. QED  BY <1>1, <2>1, <2>3, <2>7, LevelStep DEF TypeOK
<1>3. CASE ~Admits(k)
  <2>1. /\ level' = level
        /\ violation' = IF level[k].pc = "done" THEN violation ELSE violation \cup {k}
    BY <1>3 DEF CallNext
  <2>2. TypeOK' /\ NestedInv' /\ ReaderInv'
    BY <1>1, <2>1 DEF TypeOK, NestedInv, ReaderInv, InFlight
  <2>3. MisuseFails'
    BY <2>1 DEF MisuseFails
  <2>. QED  BY <2>2, <2>3
<1>. QED  BY <1>2, <1>3

(* What holds around a level that is in flight.                            *)
LEMMA InFlightFacts ==
  ASSUME InvocationInv, NEW k \in Levels, InFlight(k)
  PROVE  /\ LevelsInv /\ MisuseFails /\ level[k] \in Level /\ stage.phase = "dispatch"
         /\ \A j \in Levels : j < k => level[j].pc \in {"running", "drain"}
         /\ level[k].pc \notin {"running", "drain"} => \A m \in Levels : m > k => ~InFlight(m)
         /\ violation \in SUBSET (Levels \ {Handler})
BY LevelsOf, Around DEF InvocationInv, TypeOK

(* A queued dispatch comes to its turn.                                    *)
LEMMA DequeueStep ==
  ASSUME InvocationInv, NEW k \in Levels, Dequeue(k)
  PROVE  InvocationInv'
<1>1. /\ level[k].pc = "queued" /\ Dispatched(k)
      /\ UNCHANGED <<stage, violation, aborted, reader, reads, outcome>>
  BY DEF Dequeue
<1>2. InFlight(k)  BY <1>1 DEF InFlight
<1>3. LevelsInv' /\ MisuseFails'
  BY <1>1, <1>2, InFlightFacts, DispatchedLevels
<1>. QED  BY <1>1, <1>2, <1>3, InFlightFacts, LevelStep

(* An interceptor is resolved and starts, or its dispatch fails.           *)
LEMMA InterceptorResolvedStep ==
  ASSUME InvocationInv, NEW k \in Levels, NEW ok \in BOOLEAN, InterceptorResolved(k, ok)
  PROVE  InvocationInv'
<1>1. /\ level[k].pc = "resolve"
      /\ Started(k) \/ Rejected(k)
      /\ UNCHANGED <<stage, violation, aborted, reader, reads, outcome>>
  BY DEF InterceptorResolved
<1>2. InFlight(k)  BY <1>1 DEF InFlight
<1>3. LevelsInv' /\ MisuseFails'
  BY <1>1, <1>2, InFlightFacts, StartsOnce, RefusesLevel
<1>. QED  BY <1>1, <1>2, <1>3, InFlightFacts, LevelStep

(* A level in flight with nothing in flight below it ends, drains or goes  *)
(* on, unless it ends well in spite of a violation.                        *)
LEMMA InFlightMoves ==
  ASSUME InvocationInv, NEW k \in Levels, InFlight(k), NEW to \in Level,
         level' = [level EXCEPT ![k] = to], to.pc \in {"running", "drain", "done"},
         \A m \in Levels : m > k => ~InFlight(m),
         k \in violation /\ to.pc = "done" => to.result = "error",
         UNCHANGED <<stage, violation, starts, aborted, reader, reads, outcome>>
  PROVE  InvocationInv'
<1>1. /\ starts' \in [Levels -> Nat] /\ starts'[k] <= 1
      /\ \A m \in Levels \ {k} : starts'[m] = starts[m]
  BY InFlightFacts DEF LevelsInv
<1>2. LevelsInv' /\ MisuseFails'
  BY <1>1, InFlightFacts, LevelMoves
<1>. QED  BY <1>2, InFlightFacts, LevelStep

(* The handler has returned, which ends its dispatch.                      *)
LEMMA HandlerReturnsStep ==
  ASSUME InvocationInv, NEW result \in {"ok", "error"}, HandlerReturns(result)
  PROVE  InvocationInv'
<1> DEFINE to == [pc |-> "done", result |-> result]
<1>1. /\ level[Handler].pc = "running" /\ level' = [level EXCEPT ![Handler] = to]
      /\ UNCHANGED <<stage, violation, starts, aborted, reader, reads, outcome>>
  BY DEF HandlerReturns
<1>2. InFlight(Handler) /\ to \in Level
  BY <1>1 DEF InFlight, Level
<1>3. \A m \in Levels : m > Handler => ~InFlight(m)
  BY Indices
<1>4. Handler \notin violation
  BY DEF InvocationInv, TypeOK
<1>. QED  BY <1>1, <1>2, <1>3, <1>4, Indices, InFlightMoves

(* An interceptor that has returned drains, whatever is in flight below.   *)
LEMMA InterceptedStep ==
  ASSUME InvocationInv, NEW k \in Levels \ {Handler}, NEW result \in {"ok", "error"},
         Intercepted(k, result)
  PROVE  InvocationInv'
<1> DEFINE to == [pc |-> "drain", result |-> result]
<1>1. /\ level[k].pc = "running" /\ level' = [level EXCEPT ![k] = to]
      /\ UNCHANGED <<stage, violation, starts, aborted, reader, reads, outcome>>
  BY DEF Intercepted
<1>2. InFlight(k) /\ to \in Level
  BY <1>1 DEF InFlight, Level
<1>3. LevelsInv /\ MisuseFails /\ stage.phase = "dispatch"
      /\ violation \in SUBSET (Levels \ {Handler})
  BY <1>2, InFlightFacts
<1>4. /\ level'[k].pc = "drain" /\ level' \in [Levels -> Level]
      /\ \A m \in Levels \ {k} : level'[m] = level[m]
  BY <1>1, <1>2, <1>3 DEF LevelsInv
<1>5. \A m \in Levels : InFlight(m)' <=> InFlight(m)
  BY <1>1, <1>4 DEF InFlight
<1>6. LevelsInv'
  BY <1>1, <1>3, <1>4, <1>5 DEF LevelsInv
<1>7. MisuseFails'
  BY <1>1, <1>3, <1>4 DEF MisuseFails
<1>. QED  BY <1>1, <1>3, <1>6, <1>7, LevelStep

(* It settles when its continuation has, and fails if it was misused.      *)
LEMMA SettleStep ==
  ASSUME InvocationInv, NEW k \in Levels \ {Handler}, Settle(k)
  PROVE  InvocationInv'
<1> DEFINE to == [pc |-> "done",
                  result |-> IF k \in violation THEN "error" ELSE level[k].result]
<1>1. /\ level[k].pc = "drain" /\ level[k + 1].pc \in {"idle", "done"}
      /\ level' = [level EXCEPT ![k] = to]
      /\ UNCHANGED <<stage, violation, starts, aborted, reader, reads, outcome>>
  BY DEF Settle
<1>2. InFlight(k)  BY <1>1 DEF InFlight
<1>3. to \in Level
  BY <1>2, InFlightFacts DEF Level
<1>4. \A m \in Levels : m > k => ~InFlight(m)
  <2>1. k + 1 \in Levels /\ ~InFlight(k + 1)
    BY <1>1, Indices DEF InFlight
  <2>2. \A m \in Levels : m > k + 1 => ~InFlight(m)
    BY <1>1, <2>1, Around DEF InvocationInv
  <2>3. \A m \in Levels : m > k => m = k + 1 \/ m > k + 1
    BY Indices
  <2>. QED  BY <2>1, <2>2, <2>3
<1>5. to.pc = "done" /\ (k \in violation => to.result = "error")
  OBVIOUS
<1>. HIDE DEF to
<1>. QED  BY <1>1, <1>2, <1>3, <1>4, <1>5, InFlightMoves

(* Reads of the results and the signal.                                    *)
LEMMA ReadsStep ==
  ASSUME InvocationInv, StartRead \/ EndRead \/ Abort
  PROVE  InvocationInv'
<1>. USE DEF InvocationInv
<1>1. UNCHANGED <<stage, level, violation, starts, reader, outcome>>
  BY DEF StartRead, EndRead, Abort
<1>2. NestedInv' /\ MisuseFails'
  BY <1>1 DEF NestedInv, MisuseFails, InFlight
<1>3. reads' \in 0..MaxReads /\ aborted' \in BOOLEAN
  <2>1. reads \in 0..MaxReads /\ MaxReads \in Nat /\ aborted \in BOOLEAN
    BY InvocationAssumption DEF TypeOK
  <2>2. CASE StartRead
    BY <2>1, <2>2 DEF StartRead
  <2>3. CASE EndRead
    BY <2>1, <2>3 DEF EndRead
  <2>4. CASE Abort
    BY <2>1, <2>4 DEF Abort
  <2>. QED  BY <2>2, <2>3, <2>4
<1>4. ReaderInv'
  BY <1>1 DEF TypeOK, ReaderInv, StartRead, EndRead, Abort
<1>. QED  BY <1>1, <1>2, <1>3, <1>4 DEF TypeOK

(* Before an invocation nothing was dispatched or read.                    *)
THEOREM InvocationInit == Init => InvocationInv
<1>1. SUFFICES ASSUME Init PROVE InvocationInv  OBVIOUS
<1>. USE <1>1 DEF Init
<1>2. 0 \in 0..Largest /\ 0 \in 0..MaxReads /\ {"verify", "instance"} \subseteq Phases
  BY Indices, InvocationAssumption DEF Phases
<1>3. [pc |-> "idle", result |-> "none"] \in Level
  BY DEF Level
<1>4. TypeOK
  BY <1>2, <1>3, InvocationAssumption DEF TypeOK
<1>5. NestedInv
  BY DEF NestedInv, InFlight
<1>6. ReaderInv /\ MisuseFails
  BY DEF ReaderInv, MisuseFails
<1>. QED  BY <1>4, <1>5, <1>6 DEF InvocationInv

(* Every step of an invocation keeps its invariant.                        *)
THEOREM InvocationStep == InvocationInv /\ [Next]_vars => InvocationInv'
<1>1. SUFFICES ASSUME InvocationInv, [Next]_vars PROVE InvocationInv'  OBVIOUS
<1>2. CASE Run
  BY <1>1, <1>2, VerifyStep, InstanceStep, ResolvedStep, CalledStep, FilterResolvedStep,
     HandledStep, SupportedStep, ReturnStep, ClosedStep DEF Run
<1>3. CASE \E k \in Levels : Proceed(k)
  BY <1>1, <1>3, DequeueStep, InterceptorResolvedStep, InterceptedStep, SettleStep,
     HandlerReturnsStep DEF Proceed
<1>4. CASE \E k \in Levels \ {Handler} : CallNext(k)
  BY <1>1, <1>4, CallNextStep
<1>5. CASE StartRead \/ EndRead \/ Abort
  BY <1>1, <1>5, ReadsStep
<1>6. CASE UNCHANGED vars
  BY <1>1, <1>6 DEF vars, InvocationInv, TypeOK, NestedInv, ReaderInv, MisuseFails, InFlight
<1>. QED  BY <1>1, <1>2, <1>3, <1>4, <1>5, <1>6 DEF Next

-----------------------------------------------------------------------------
(* After the signal.                                                       *)

(* An invocation that ends closes its reader or settles.                   *)
LEMMA FinishPhase ==
  ASSUME NEW answer, Finish(answer)
  PROVE  stage'.phase \in {"close", "settled"}
BY DEF Finish, GoTo

(* Each await of run looks at the signal before it calls anything.         *)
LEMMA AbortedStage ==
  ASSUME aborted, Next
  PROVE  stage'.phase \in {"call", "supports", "handle"} => stage' = stage
<1>1. Failed \/ (\E i \in {0, stage.at} : Advance(i)) => stage'.phase \in {"close", "settled"}
  BY FinishPhase DEF Failed, Advance
<1>2. CASE \E ok \in BOOLEAN : Verify(ok)
  <2>1. PICK ok \in BOOLEAN : Verify(ok)  BY <1>2
  <2>2. Finish("error")  BY <2>1 DEF Verify
  <2>. QED  BY <2>2, FinishPhase
<1>3. CASE \E ok \in BOOLEAN : Instance(ok) \/ Called(ok)
  <2>1. PICK ok \in BOOLEAN : Instance(ok) \/ Called(ok)  BY <1>3
  <2>2. Failed \/ Finish("error") \/ \E i \in {0, stage.at} : Advance(i)
    BY <2>1 DEF Instance, Called
  <2>. QED  BY <1>1, <2>2, FinishPhase
<1>4. CASE \E ok \in BOOLEAN : Resolved(ok)
  <2>1. PICK ok \in BOOLEAN : Resolved(ok)  BY <1>4
  <2>2. Failed  BY <2>1 DEF Resolved
  <2>. QED  BY <1>1, <2>2
<1>5. CASE \E ok \in BOOLEAN : FilterResolved(ok) \/ Handled(ok)
  <2>1. PICK ok \in BOOLEAN : FilterResolved(ok) \/ Handled(ok)  BY <1>5
  <2>2. \E answer \in {"ok", "error", "aborted"} : Finish(answer)
    BY <2>1 DEF FilterResolved, Handled
  <2>. QED  BY <2>2, FinishPhase
<1>6. CASE \E answer \in {"yes", "no", "bad", "throws"} : Supported(answer)
  <2>1. \E end \in {"error", "aborted"} : Finish(end)
    BY <1>6 DEF Supported
  <2>. QED  BY <2>1, FinishPhase
<1>7. CASE Return
  <2>1. Finish("ok") \/ Failed  BY <1>7 DEF Return
  <2>. QED  BY <1>1, <2>1, FinishPhase
<1>8. CASE Closed
  BY <1>8 DEF Closed, GoTo
<1>9. CASE \E k \in Levels : Proceed(k)
  BY <1>9 DEF Proceed, Dequeue, InterceptorResolved, Intercepted, Settle, HandlerReturns
<1>10. CASE (\E k \in Levels \ {Handler} : CallNext(k)) \/ StartRead \/ EndRead \/ Abort
  BY <1>10 DEF CallNext, StartRead, EndRead, Abort
<1>. QED  BY <1>2, <1>3, <1>4, <1>5, <1>6, <1>7, <1>8, <1>9, <1>10 DEF Next, Run

(* So does each dispatch.                                                  *)
LEMMA AbortedLevels ==
  ASSUME TypeOK, aborted, Next, NEW m \in Levels, level'[m].pc = "running"
  PROVE  level[m].pc = "running"
<1>1. level \in [Levels -> Level]
  BY DEF TypeOK
<1>2. CASE Run
  <2>1. \A i : Advance(i) => level' = level
    BY DEF Advance
  <2>2. level' = level
    BY <1>2, <2>1 DEF Run, Verify, Instance, Resolved, Called, FilterResolved, Handled,
       Supported, Return, Closed
  <2>. QED  BY <2>2
<1>3. CASE \E k \in Levels : Proceed(k)
  <2>1. PICK k \in Levels : Proceed(k)  BY <1>3
  <2>2. \E to \in Level : level' = [level EXCEPT ![k] = to] /\ to.pc # "running"
    <3>1. CASE Rejected(k)
      <4>1. [pc |-> "done", result |-> "error"] \in Level  BY DEF Level
      <4>. QED  BY <3>1, <4>1 DEF Rejected
    <3>2. CASE Dequeue(k) \/ \E ok \in BOOLEAN : InterceptorResolved(k, ok)
      <4>1. Rejected(k)  BY <3>2 DEF Dequeue, Dispatched, InterceptorResolved
      <4>. QED  BY <3>1, <4>1
    <3>3. CASE k # Handler /\ \E result \in {"ok", "error"} : Intercepted(k, result)
      <4>1. \A result \in {"ok", "error"} : [pc |-> "drain", result |-> result] \in Level
        BY DEF Level
      <4>. QED  BY <3>3, <4>1 DEF Intercepted
    <3>4. CASE k # Handler /\ Settle(k)
      <4> DEFINE to == [pc |-> "done",
                        result |-> IF k \in violation THEN "error" ELSE level[k].result]
      <4>1. to \in Level  BY <1>1 DEF Level
      <4>2. level' = [level EXCEPT ![k] = to]  BY <3>4 DEF Settle
      <4>3. to.pc # "running"  OBVIOUS
      <4>. HIDE DEF to
      <4>. QED  BY <4>1, <4>2, <4>3
    <3>5. CASE k = Handler /\ \E result \in {"ok", "error"} : HandlerReturns(result)
      <4>1. \A result \in {"ok", "error"} : [pc |-> "done", result |-> result] \in Level
        BY DEF Level
      <4>. QED  BY <3>5, <4>1 DEF HandlerReturns
    <3>. QED  BY <2>1, <3>2, <3>3, <3>4, <3>5 DEF Proceed
  <2>. QED  BY <1>1, <2>2
<1>4. CASE \E k \in Levels \ {Handler} : CallNext(k)
  <2>1. PICK k \in Levels \ {Handler} : CallNext(k)  BY <1>4
  <2>2. level' = level \/ level' = [level EXCEPT ![k + 1].pc = "queued"]
    BY <2>1 DEF CallNext
  <2>3. k + 1 \in Levels  BY Indices
  <2>. QED  BY <1>1, <2>2, <2>3 DEF Level
<1>5. CASE StartRead \/ EndRead \/ Abort
  BY <1>5 DEF StartRead, EndRead, Abort
<1>. QED  BY <1>2, <1>3, <1>4, <1>5 DEF Next

-----------------------------------------------------------------------------
(* The invocation is a part of the whole: what happens elsewhere is a      *)
(* stutter of it.                                                          *)
LEMMA InvocationPart ==
  DeliveryNext => [Next]_vars
<1>1. SUFFICES ASSUME DeliveryNext PROVE [Next]_vars  OBVIOUS
<1>2. CASE OnlyJob(JobNext)
  <2>1. (\E ok \in BOOLEAN : Enter(ok)) => Run
    BY DEF Enter, Run
  <2>2. RunDelivered => Run
    BY <2>1 DEF RunDelivered, Delivered
  <2>3. \A k \in Levels : Delivered(Proceed(k)) => Proceed(k)
    BY DEF Delivered
  <2>4. \A k \in Levels \ {Handler} : Delivered(CallNext(k)) => CallNext(k)
    BY DEF Delivered
  <2>5. /\ Delivered(StartRead) => StartRead
        /\ Delivered(EndRead) => EndRead
        /\ Delivered(Abort) => Abort
    BY DEF Delivered
  <2>6. Start \/ Encode \/ Publish \/ AppendOutbox \/ Claim \/ Decide => UNCHANGED vars
    BY DEF Start, Encode, Publish, AppendOutbox, Claim, Decide
  <2>. QED
    BY <1>2, <2>2, <2>3, <2>4, <2>5, <2>6 DEF OnlyJob, JobNext, Next
<1>3. CASE Recovery \/ Collection \/ Reading
  BY <1>3 DEF Recovery, Collection, Reading
<1>4. CASE Calling
  BY <1>4 DEF Calling
<1>. QED  BY <1>1, <1>2, <1>3, <1>4 DEF DeliveryNext

(* What a delivery does to the invocation is what Invocation allows.       *)
THEOREM IsInvocation == DeliverySpec => Spec
<1>1. DeliveryInit => Init
  BY DEF DeliveryInit
<1>2. [DeliveryNext]_allVars => [Next]_vars
  <2>1. UNCHANGED allVars => UNCHANGED vars
    BY DEF allVars
  <2>. QED  BY <2>1, InvocationPart
<1>. QED  BY <1>1, <1>2, PTL DEF DeliverySpec, Spec

(* The invariant of the invocation holds in its own specification.         *)
THEOREM InvocationInvariant == Spec => []InvocationInv
BY InvocationInit, InvocationStep, PTL DEF Spec

(* However next is called, an interceptor and the handler run at most once *)
(* in an invocation, nothing is left in flight outside the dispatch phase  *)
(* and no read when the supervisor is answered: MqPipeline.run.            *)
THEOREM SingleNestedCorrect == DeliverySpec => []SingleNested
<1>1. InvocationInv => SingleNested
  <2>1. InvocationInv => (stage.phase = "settled" => reads = 0)
    BY DEF InvocationInv, ReaderInv
  <2>. QED  BY <2>1 DEF InvocationInv, NestedInv, SingleNested
<1>. QED  BY <1>1, IsInvocation, InvocationInvariant, PTL

(* An interceptor that misused its next fails, even if it did so after it  *)
(* had returned.                                                           *)
THEOREM MisuseFailsCorrect == DeliverySpec => []MisuseFails
<1>1. InvocationInv => MisuseFails  BY DEF InvocationInv
<1>. QED  BY <1>1, IsInvocation, InvocationInvariant, PTL

(* Once the job's signal has aborted, run and its dispatches start none of *)
(* the application's code.                                                 *)
THEOREM AbortStopsCorrect == DeliverySpec => AbortStops
<1>1. ASSUME InvocationInv, [Next]_vars, aborted
      PROVE  UserCode' \subseteq UserCode
  <2>1. CASE UNCHANGED vars
    BY <2>1 DEF vars, UserCode
  <2>2. CASE Next
    <3>1. \A m \in Levels : level'[m].pc = "running" => level[m].pc = "running"
      BY <1>1, <2>2, AbortedLevels DEF InvocationInv
    <3>2. stage'.phase \in {"call", "supports", "handle"} => stage' = stage
      BY <1>1, <2>2, AbortedStage
    <3>. QED  BY <3>1, <3>2 DEF UserCode
  <2>. QED  BY <1>1, <2>1, <2>2
<1>2. InvocationInv /\ [Next]_vars => [aborted => UserCode' \subseteq UserCode]_vars
  BY <1>1
<1>. QED  BY <1>2, IsInvocation, InvocationInvariant, PTL DEF Spec, AbortStops

-----------------------------------------------------------------------------
(* The layers of a policy.                                                 *)

(* The larger of two numbers of attempts.                                  *)
LEMMA Maxima == Max({1, 2}) = 2 /\ Max({1}) = 1 /\ Max({2}) = 2
<1>1. Max({1, 2}) = 2  BY DEF Max
<1>2. Max({1}) = 1  BY DEF Max
<1>3. Max({2}) = 2  BY DEF Max
<1>. QED  BY <1>1, <1>2, <1>3

Defaults == [retry |-> Retry(1, {}), delay |-> {0}, timeout |-> {}]
RetryOf(layer, retry) == CHOOSE r \in Else(layer.retry, {retry}) : TRUE
Overridden(resolved, layer) ==
  [retry |-> RetryOf(layer, resolved.retry),
   delay |-> Else(layer.delay, resolved.delay),
   timeout |-> Else(layer.timeout, resolved.timeout)]

(* The fold over two layers, spelled out: the function that it is defined  *)
(* by exists, since it can be given, and is what it must be at each set of *)
(* indices.                                                                *)
LEMMA TwoLayers ==
  ASSUME NEW a, NEW b
  PROVE  ResolveJobPolicy(<<a, b>>) = Overridden(Overridden(Defaults, a), b)
<1> DEFINE S == DOMAIN <<a, b>>
           G(f) == [s \in SUBSET S |->
                     IF s = {} THEN Defaults
                     ELSE LET x == Max(s) IN Overridden(f[s \ {x}], <<a, b>>[x])]
           w == [s \in SUBSET S |->
                  IF s = {} THEN Defaults
                  ELSE IF s = {1} THEN Overridden(Defaults, a)
                  ELSE IF s = {2} THEN Overridden(Defaults, b)
                  ELSE Overridden(Overridden(Defaults, a), b)]
           iter == CHOOSE f : f = G(f)
<1>1. ResolveJobPolicy(<<a, b>>) = iter[S]
  BY DEF ResolveJobPolicy, FoldLeft, MapThenFoldSet, Defaults, Overridden, RetryOf
<1>. HIDE DEF iter
<1>2. S = {1, 2} /\ <<a, b>>[1] = a /\ <<a, b>>[2] = b
  OBVIOUS
<1>3. SUBSET S = {{}, {1}, {2}, {1, 2}}
  BY <1>2
<1>4. /\ {1} # {} /\ {2} # {} /\ {1, 2} # {} /\ {1} # {2} /\ {1, 2} # {1} /\ {1, 2} # {2}
      /\ {1} \ {1} = {} /\ {2} \ {2} = {} /\ {1, 2} \ {2} = {1}
  OBVIOUS
<1>5. /\ w[{}] = Defaults /\ w[{1}] = Overridden(Defaults, a) /\ w[{2}] = Overridden(Defaults, b)
      /\ w[{1, 2}] = Overridden(Overridden(Defaults, a), b)
  BY <1>3, <1>4, Zenon
<1>6. ASSUME NEW f
      PROVE  /\ G(f)[{}] = Defaults /\ G(f)[{1}] = Overridden(f[{}], a)
             /\ G(f)[{2}] = Overridden(f[{}], b) /\ G(f)[{1, 2}] = Overridden(f[{1}], b)
  BY <1>2, <1>3, <1>4, Maxima, Zenon
<1>7. w = G(w)
  <2>. HIDE DEF w
  <2>1. w = [s \in SUBSET S |-> w[s]]  BY DEF w
  <2>2. G(w) = [s \in SUBSET S |-> G(w)[s]]  OBVIOUS
  <2>. HIDE DEF G
  <2>3. /\ G(w)[{}] = Defaults /\ G(w)[{1}] = Overridden(w[{}], a)
        /\ G(w)[{2}] = Overridden(w[{}], b) /\ G(w)[{1, 2}] = Overridden(w[{1}], b)
    BY <1>6
  <2>4. ASSUME NEW s \in SUBSET S PROVE w[s] = G(w)[s]
    <3>1. s = {} \/ s = {1} \/ s = {2} \/ s = {1, 2}
      <4>. HIDE DEF S
      <4>. QED  BY <1>3, <2>4, Zenon
    <3>2. w[{}] = G(w)[{}] /\ w[{1}] = G(w)[{1}]
      BY <1>5, <2>3
    <3>3. w[{2}] = G(w)[{2}] /\ w[{1, 2}] = G(w)[{1, 2}]
      BY <1>5, <2>3
    <3>. QED  BY <3>1, <3>2, <3>3, Zenon
  <2>. QED  BY <2>1, <2>2, <2>4
<1>8. iter = G(iter)
  <2>. HIDE DEF w
  <2>1. \E f : f = G(f)  BY <1>7
  <2>. QED  BY <2>1, Zenon DEF iter
<1>9. iter[S] = Overridden(Overridden(Defaults, a), b)
  <2>. HIDE DEF w, G
  <2>. QED  BY <1>2, <1>6, <1>8
<1>. QED  BY <1>1, <1>9

(* The resolved retry policy is the last one that was declared.            *)
LEMMA ResolvedRetry ==
  ASSUME NEW layers \in Layer \X Layer
  PROVE  ResolveJobPolicy(layers).retry = Declared(layers)
<1>1. PICK a \in Layer, b \in Layer : layers = <<a, b>>
  OBVIOUS
<1>2. ResolveJobPolicy(layers).retry = RetryOf(b, RetryOf(a, Retry(1, {})))
  <2>1. Defaults.retry = Retry(1, {})  BY DEF Defaults
  <2>2. \A resolved, layer : Overridden(resolved, layer).retry = RetryOf(layer, resolved.retry)
    BY DEF Overridden
  <2>3. ResolveJobPolicy(layers) = Overridden(Overridden(Defaults, a), b)
    BY <1>1, TwoLayers
  <2>. QED  BY <2>1, <2>2, <2>3
<1> DEFINE declaring == {i \in DOMAIN layers : layers[i].retry # {}}
<1>3. DOMAIN layers = {1, 2} /\ layers[1] = a /\ layers[2] = b
  BY <1>1
<1>4. CASE b.retry # {}
  <2>1. (CHOOSE i \in declaring : \A j \in declaring : j <= i) = 2
    BY <1>3, <1>4
  <2>2. declaring # {}
    BY <1>3, <1>4
  <2>3. Declared(layers) = CHOOSE r \in b.retry : TRUE
    BY <1>3, <2>1, <2>2, Zenon DEF Declared
  <2>4. \A retry : RetryOf(b, retry) = CHOOSE r \in b.retry : TRUE
    BY <1>4 DEF RetryOf, Else
  <2>. QED  BY <1>2, <2>3, <2>4
<1>5. CASE b.retry = {} /\ a.retry # {}
  <2>1. declaring = {1}
    BY <1>3, <1>5
  <2>2. (CHOOSE i \in declaring : \A j \in declaring : j <= i) = 1
    BY <2>1
  <2>3. Declared(layers) = CHOOSE r \in a.retry : TRUE
    BY <1>3, <2>1, <2>2, Zenon DEF Declared
  <2>4. \A retry : RetryOf(a, retry) = CHOOSE r \in a.retry : TRUE
    BY <1>5 DEF RetryOf, Else
  <2>5. \A retry : RetryOf(b, retry) = retry
    BY <1>5 DEF RetryOf, Else
  <2>. QED  BY <1>2, <2>3, <2>4, <2>5
<1>6. CASE b.retry = {} /\ a.retry = {}
  <2>1. declaring = {}
    BY <1>3, <1>6
  <2>2. Declared(layers) = Retry(1, {})
    BY <2>1 DEF Declared
  <2>3. \A retry : RetryOf(a, retry) = retry /\ RetryOf(b, retry) = retry
    BY <1>6 DEF RetryOf, Else
  <2>. QED  BY <1>2, <2>2, <2>3
<1>. QED  BY <1>4, <1>5, <1>6

-----------------------------------------------------------------------------
(* A schema or codec that answers for a value answers for what is stored.  *)
LEMMA Restored ==
  ASSUME NEW schema, NEW input, NEW value \in ValidateSchema(schema, input),
         NEW text \in EncodeSchema(schema, value)
  PROVE  UNION {DecodeSchema(schema, t) : t \in SchemaCodec(schema, text)} = {value}
<1>1. DecodeSchema(schema, text) = {value}
  <2>1. CASE schema.codec
    BY <2>1 DEF EncodeSchema
  <2>2. CASE ~schema.codec
    <3>1. text = value /\ value \in ValidateSchema(schema, value)
      BY <2>2 DEF EncodeSchema, JsonText
    <3>. QED  BY <3>1 DEF DecodeSchema, ValidateSchema
  <2>. QED  BY <2>1, <2>2
<1>2. SchemaCodec(schema, text) = EncodeSchema(schema, value)
  <2>1. ValidateSchema(schema, text) = {value}  BY <1>1 DEF DecodeSchema
  <2>. QED  BY <2>1 DEF SchemaCodec
<1>3. \A t \in EncodeSchema(schema, value) : DecodeSchema(schema, t) = {value}
  <2>1. CASE schema.codec
    BY <2>1 DEF EncodeSchema
  <2>2. CASE ~schema.codec
    <3>1. \A t \in EncodeSchema(schema, value) : t = value /\ text = value
      BY <2>2 DEF EncodeSchema, JsonText
    <3>. QED  BY <1>1, <3>1
  <2>. QED  BY <2>1, <2>2
<1>. QED  BY <1>2, <1>3

-----------------------------------------------------------------------------
(* The ways of a job.                                                      *)

(* The retry policy that a publication asks for.                           *)
Asked(c, o) == CHOOSE r \in Else(o.retry, {c.declared}) : TRUE

(* A published job with what goes with it as a history.                    *)
Requested(c, o, job) ==
  [stored |-> job, keyed |-> ~c.job.limited \/ job.key # {},
   derived |-> GetDispatchKey(c.job) \subseteq job.key, declared |-> Asked(c, o)]

(* A publication's policy is the one it asks for, which refers to the same *)
(* custom policy as the contract's.                                        *)
LEMMA PublishedRetry ==
  ASSUME NEW c, c.job.retry = c.declared, NEW o \in PublishOptions,
         NEW retry \in PublicationRetry(c.job, o.retry),
         NEW reference \in PublicationMetadata(c.job, o.metadata)
  PROVE  /\ retry = Asked(c, o) /\ reference = RetryReference(retry)
         /\ o.retry = {} => retry = c.job.retry
<1>1. PICK r \in Else(o.retry, {c.job.retry}) : retry \in CopyRetry(r)
  BY DEF PublicationRetry
<1>2. retry = r  BY <1>1 DEF CopyRetry
<1>3. reference = RetryReference(c.job.retry)
  BY DEF PublicationMetadata
<1>4. RetryReference(retry) = RetryReference(c.job.retry)
  BY DEF PublicationRetry
<1>5. o.retry \in Optional(Declarable)
  BY DEF PublishOptions
<1>6. CASE o.retry = {}
  <2>1. \A default : Else(o.retry, default) = default  BY <1>6 DEF Else
  <2>2. retry = c.declared  BY <1>1, <1>2, <2>1
  <2>3. Asked(c, o) = c.declared  BY <2>1 DEF Asked
  <2>. QED  BY <1>3, <1>4, <2>2, <2>3
<1>7. CASE o.retry # {}
  <2>1. PICK x : o.retry = {x}  BY <1>5, <1>7 DEF Optional
  <2>2. \A default : Else(o.retry, default) = {x}  BY <1>7, <2>1 DEF Else
  <2>3. retry = x  BY <1>1, <1>2, <2>2
  <2>4. Asked(c, o) = x  BY <2>2 DEF Asked
  <2>. QED  BY <1>3, <1>4, <1>7, <2>3, <2>4
<1>. QED  BY <1>6, <1>7

(* Whichever way a job goes, it is stored with that policy, and with a key *)
(* where it needs one, its own if it has one.                              *)
LEMMA PublishedJob ==
  ASSUME NEW c, c.job.retry = c.declared, NEW o \in PublishOptions,
         NEW job \in Enqueue(c.job, o) \cup Schedule(c.job, o) \cup Child(c.job, o)
  PROVE  /\ job.attempts = Asked(c, o).attempts
         /\ job.backoff = CompileBackoff(Asked(c, o))
         /\ job.reference = RetryReference(Asked(c, o))
         /\ ~c.job.limited \/ job.key # {}
         /\ GetDispatchKey(c.job) \subseteq job.key
<1>1. CASE job \in Enqueue(c.job, o)
  <2>1. PICK retry \in PublicationRetry(c.job, o.retry),
             reference \in PublicationMetadata(c.job, o.metadata),
             key \in {k \in PublicationKey(c.job, o.key) : c.job.limited => k # {}} :
               job = StoredJob(retry, reference, key)
    BY <1>1 DEF Enqueue
  <2>2. retry = Asked(c, o) /\ reference = RetryReference(retry)
    BY PublishedRetry
  <2>3. /\ job.attempts = retry.attempts /\ job.backoff = CompileBackoff(retry)
        /\ job.reference = reference /\ job.key = key
    BY <2>1 DEF StoredJob
  <2>4. GetDispatchKey(c.job) \subseteq key
    BY DEF PublicationKey, Else
  <2>. QED  BY <2>2, <2>3, <2>4
<1>2. CASE job \in Schedule(c.job, o)
  <2>1. ~c.job.limited /\ GetDispatchKey(c.job) = {}
    BY <1>2 DEF Schedule
  <2>2. PICK retry \in PublicationRetry(c.job, o.retry),
             reference \in PublicationMetadata(c.job, o.metadata) :
               job = StoredJob(retry, reference, {})
    BY <1>2, <2>1 DEF Schedule
  <2>3. retry = Asked(c, o) /\ reference = RetryReference(retry)
    BY PublishedRetry
  <2>. QED  BY <2>1, <2>2, <2>3 DEF StoredJob
<1>3. CASE job \in Child(c.job, o)
  <2>1. ~c.job.limited /\ GetDispatchKey(c.job) = {}
    BY <1>3 DEF Child, GetDispatchKey
  <2>2. PICK retry \in PublicationRetry(c.job, o.retry),
             reference \in PublicationMetadata(c.job, o.metadata) :
          /\ job = [StoredJob(retry, reference, {}) EXCEPT !.backoff = CompileBackoff(c.job.retry)]
          /\ o.retry # {} => CompileBackoff(retry) = CompileBackoff(c.job.retry)
    BY <1>3 DEF Child
  <2>3. /\ retry = Asked(c, o) /\ reference = RetryReference(retry)
        /\ o.retry = {} => retry = c.job.retry
    BY PublishedRetry
  <2>4. CompileBackoff(c.job.retry) = CompileBackoff(retry)
    BY <2>2, <2>3
  <2>5. /\ job.attempts = retry.attempts /\ job.reference = reference
        /\ job.backoff = CompileBackoff(c.job.retry)
    BY <2>2 DEF StoredJob
  <2>. QED  BY <2>1, <2>3, <2>4, <2>5
<1>. QED  BY <1>1, <1>2, <1>3

(* A registered job has the policy that was declared last.                 *)
LEMMA StartStep ==
  ASSUME JobInv, Start
  PROVE  JobInv'
<1>1. PICK layers \in Layer \X Layer, traits \in Traits :
        /\ contract' = {[job |-> j, declared |-> Declared(layers)] :
                        j \in UNION {CompileJob(r) : r \in Register(layers, traits)}}
        /\ life' \in {"refused", "registered"}
  BY DEF Start
<1>2. \A r \in Register(layers, traits) : r.retry = ResolveJobPolicy(layers).retry
  BY DEF Register
<1>3. \A r : \A j \in CompileJob(r) : j = r
  BY DEF CompileJob
<1>4. \A c \in contract' : c.job.retry = c.declared
  BY <1>1, <1>2, <1>3, ResolvedRetry
<1>. QED
  BY <1>1, <1>4 DEF Start, JobInv, PayloadKept, RetryAsDeclared, KeyedWhereLimited

(* What is encoded is read back as it was given.                           *)
LEMMA EncodeStep ==
  ASSUME JobInv, Encode
  PROVE  JobInv'
<1>1. \A p \in payload' : p.read = {p.given}
  BY Restored DEF Encode
<1>. QED
  BY <1>1 DEF Encode, JobInv, PayloadKept, RetryAsDeclared, KeyedWhereLimited

(* However it is published, the stored job is as declared.                 *)
LEMMA PublishStep ==
  ASSUME JobInv, Publish
  PROVE  JobInv'
<1>1. PICK c \in contract, o \in PublishOptions :
        \E way \in {<<"prepared", Enqueue(c.job, o)>>, <<"stored", Enqueue(c.job, o)>>,
                   <<"stored", Schedule(c.job, o)>>, <<"stored", Child(c.job, o)>>} :
          request' = {Requested(c, o, job) : job \in way[2]}
  BY Zenon DEF Publish, Requested, Asked
<1>2. c.job.retry = c.declared
  BY DEF JobInv
<1>3. ASSUME NEW q \in request'
      PROVE  /\ q.stored.attempts = q.declared.attempts
             /\ q.stored.backoff = CompileBackoff(q.declared)
             /\ q.stored.reference = RetryReference(q.declared)
             /\ q.keyed /\ q.derived
             /\ DOMAIN q = {"stored", "keyed", "derived", "declared"}
  <2>1. PICK job \in Enqueue(c.job, o) \cup Schedule(c.job, o) \cup Child(c.job, o) :
          q = Requested(c, o, job)
    BY <1>1
  <2>2. /\ q.stored = job /\ q.declared = Asked(c, o)
        /\ DOMAIN q = {"stored", "keyed", "derived", "declared"}
    BY <2>1 DEF Requested
  <2>3. /\ q.keyed = (~c.job.limited \/ job.key # {})
        /\ q.derived = (GetDispatchKey(c.job) \subseteq job.key)
    BY <2>1, Zenon DEF Requested
  <2>4. /\ job.attempts = Asked(c, o).attempts
        /\ job.backoff = CompileBackoff(Asked(c, o))
        /\ job.reference = RetryReference(Asked(c, o))
    BY <1>2, PublishedJob
  <2>5. (~c.job.limited \/ job.key # {}) /\ GetDispatchKey(c.job) \subseteq job.key
    BY <1>2, PublishedJob
  <2>6. q.keyed /\ q.derived
    BY <2>3, <2>5, Zenon
  <2>. QED  BY <2>2, <2>4, <2>6
<1>5. life' \in {"prepared", "stored"} /\ payload' = {} /\ contract' = {} /\ claim' = claim
  BY DEF Publish
<1>. QED
  BY <1>3, <1>5 DEF JobInv, PayloadKept, RetryAsDeclared, KeyedWhereLimited

(* Another release appends what was prepared, as it was.                   *)
LEMMA AppendOutboxStep ==
  ASSUME JobInv, AppendOutbox
  PROVE  JobInv'
<1> DEFINE Appended(job, q) ==
             [q EXCEPT !.keyed = ~job.limited \/ q.stored.key # {},
                       !.derived = GetDispatchKey(job) \subseteq q.stored.key]
<1>0. PICK layer \in Layer, traits \in Traits :
        \E job \in UNION {CompileJob(r) : r \in Register(<<layer>>, traits)}, q \in request :
          /\ CompileOutboxRecord(job, q.stored) # {}
          /\ request' = {[q EXCEPT !.keyed = ~job.limited \/ q.stored.key # {},
                                   !.derived = GetDispatchKey(job) \subseteq q.stored.key]}
  BY Zenon DEF AppendOutbox
<1>1. PICK job \in UNION {CompileJob(r) : r \in Register(<<layer>>, traits)}, q \in request :
        CompileOutboxRecord(job, q.stored) # {} /\ request' = {Appended(job, q)}
  BY <1>0
<1>2. /\ GetDispatchKey(job) # {} => q.stored.key = GetDispatchKey(job)
      /\ job.limited => q.stored.key # {}
  BY <1>1 DEF CompileOutboxRecord
<1>3. DOMAIN q = {"stored", "keyed", "derived", "declared"}
  BY DEF JobInv
<1>4. /\ Appended(job, q).stored = q.stored /\ Appended(job, q).declared = q.declared
      /\ DOMAIN Appended(job, q) = DOMAIN q
  OBVIOUS
<1>5. /\ Appended(job, q).keyed = (~job.limited \/ q.stored.key # {})
      /\ Appended(job, q).derived = (GetDispatchKey(job) \subseteq q.stored.key)
  BY <1>3, Zenon
<1>. HIDE DEF Appended
<1>6. \A r \in request' : r.keyed /\ r.derived
  BY <1>1, <1>2, <1>5
<1>7. RetryAsDeclared'
  BY <1>1, <1>4 DEF JobInv, RetryAsDeclared
<1>8. \A r \in request' : DOMAIN r = {"stored", "keyed", "derived", "declared"}
  BY <1>1, <1>3, <1>4
<1>9. life' = "stored" /\ UNCHANGED <<payload, contract, claim>>
  BY DEF AppendOutbox
<1>. QED
  BY <1>6, <1>7, <1>8, <1>9 DEF JobInv, PayloadKept, KeyedWhereLimited

(* What is claimed refers to the policy that it was published under.       *)
LEMMA ClaimStep ==
  ASSUME JobInv, Claim
  PROVE  JobInv'
<1>1. \A c \in claim' : c.own \in Optional(Policies) /\ c.reference = c.published
  BY DEF Claim, JobInv, RetryAsDeclared
<1>. QED
  BY <1>1 DEF Claim, JobInv, PayloadKept, RetryAsDeclared, KeyedWhereLimited

(* An optional policy of the contract refers to itself.                    *)
LEMMA OwnReference ==
  ASSUME NEW own \in Optional(Policies)
  PROVE  RetryReference(Retry(1, own)) = own
<1>1. own \subseteq Policies  BY DEF Optional
<1>. QED  BY <1>1 DEF RetryReference, Retry

(* Code is entered only under the saved policy.                            *)
LEMMA EnterStep ==
  ASSUME JobInv, NEW ok \in BOOLEAN, Enter(ok)
  PROVE  JobInv'
<1>1. life' \in {"running", "delivered"} /\ UNCHANGED <<payload, contract, request, claim>>
  BY DEF Enter
<1>2. life' = "running" => \A c \in claim : c.own = c.published
  BY OwnReference DEF Enter, JobInv, AssertRetryReference
<1>. QED
  BY <1>1, <1>2 DEF JobInv, PayloadKept, RetryAsDeclared, KeyedWhereLimited

(* What leaves the job alone keeps what is known of it.                    *)
LEMMA JobUnchanged ==
  ASSUME JobInv, UNCHANGED <<payload, contract, request, claim>>,
         life' = "stored" => life = "stored",
         life' \in {"running", "decided"} => life \in {"running", "decided"}
  PROVE  JobInv'
BY DEF JobInv, PayloadKept, RetryAsDeclared, KeyedWhereLimited

(* Every step keeps what is known of a job.                                *)
THEOREM JobStep == JobInv /\ [DeliveryNext]_allVars => JobInv'
<1>1. SUFFICES ASSUME JobInv, [DeliveryNext]_allVars PROVE JobInv'  OBVIOUS
<1>2. CASE JobNext
  <2>1. CASE Start \/ Encode \/ Publish \/ AppendOutbox \/ Claim
    BY <1>1, <2>1, StartStep, EncodeStep, PublishStep, AppendOutboxStep, ClaimStep
  <2>2. CASE Decide
    BY <1>1, <2>2, JobUnchanged DEF Decide
  <2>3. CASE \E ok \in BOOLEAN : Enter(ok)
    BY <1>1, <2>3, EnterStep
  <2>4. CASE UNCHANGED delivery
    BY <1>1, <2>4, JobUnchanged DEF delivery
  <2>. QED  BY <1>2, <2>1, <2>2, <2>3, <2>4 DEF JobNext, RunDelivered, Delivered
<1>3. CASE Recovery \/ Collection \/ Reading
  BY <1>1, <1>3, JobUnchanged DEF Recovery, Collection, Reading, delivery
<1>4. CASE Calling
  BY <1>1, <1>4, JobUnchanged DEF Calling
<1>5. CASE UNCHANGED allVars
  BY <1>1, <1>5, JobUnchanged DEF allVars, delivery
<1>. QED  BY <1>1, <1>2, <1>3, <1>4, <1>5 DEF DeliveryNext, OnlyJob

(* A job is as it was declared wherever it is stored or claimed.           *)
THEOREM JobInvariant == DeliverySpec => []JobInv
<1>1. DeliveryInit => JobInv
  BY DEF DeliveryInit, JobInv, PayloadKept, RetryAsDeclared, KeyedWhereLimited
<1>. QED  BY <1>1, JobStep, PTL DEF DeliverySpec

(* However a job was published, only a worker whose contract declares the  *)
(* policy it was published under runs code for it or decides its retry,    *)
(* and such a worker is never kept from it.                                *)
THEOREM PolicyFollowedCorrect == DeliverySpec => []PolicyFollowed
<1>1. JobInv => PolicyFollowed
  BY OwnReference DEF JobInv, PolicyFollowed, AssertRetryReference
<1>. QED  BY <1>1, JobInvariant, PTL

-----------------------------------------------------------------------------
(* The contracts and their calls.                                          *)

(* The host touches no call.                                               *)
LEMMA HostStep ==
  ASSUME CallInv, CallType', KeptBound', UNCHANGED <<call, published>>
  PROVE  CallInv'
BY DEF CallInv

(* An application that starts binds nothing yet.                           *)
LEMMA BootstrapStep ==
  ASSUME CallInv, NEW a \in Applications, Bootstrap(a)
  PROVE  CallInv'
<1>1. /\ application[a].host = "new" /\ UNCHANGED <<binding, call, published>>
      /\ application' = [application EXCEPT ![a] = [host |-> "starting", session |-> "ready"]]
  BY DEF Bootstrap
<1>2. CallType' /\ KeptBound'
  BY <1>1 DEF CallInv, CallType, KeptBound
<1>. QED  BY <1>1, <1>2, HostStep

(* Only a contract that nobody has is bound.                               *)
LEMMA BindStep ==
  ASSUME CallInv, NEW a \in Applications, Bind(a)
  PROVE  CallInv'
<1>. USE DEF CallInv
<1>1. application[a].host = "starting" /\ UNCHANGED <<call, published>> /\ a \notin binding
  BY DEF Bind, KeptBound
<1>2. application[a].session \in {"new", "ready", "closed"}
  BY DEF CallType
<1>3. CASE binding # {}
  <2>1. /\ binding' = binding
        /\ application' = [application EXCEPT ![a] = [host |-> "failed", session |-> "closed"]]
    BY <1>1, <1>3 DEF Bind, Unbind
  <2>2. CallType' /\ KeptBound'
    BY <1>1, <2>1 DEF CallType, KeptBound
  <2>. QED  BY <1>1, <2>2, HostStep
<1>4. CASE binding = {}
  <2>1. binding' = {a} /\ application' = [application EXCEPT ![a].host = "bound"]
    BY <1>4 DEF Bind
  <2>2. /\ \A b \in Applications \ {a} : application'[b] = application[b]
        /\ application'[a].host = "bound" /\ application'[a].session = application[a].session
    BY <2>1 DEF CallType
  <2>3. CallType'
    BY <1>1, <2>1, <2>2 DEF CallType
  <2>4. KeptBound'
    BY <1>4, <2>1, <2>2 DEF KeptBound
  <2>. QED  BY <1>1, <2>3, <2>4, HostStep
<1>. QED  BY <1>3, <1>4

(* What an application detaches is no other one's.                         *)
LEMMA ActivatedStep ==
  ASSUME CallInv, NEW a \in Applications, NEW ok \in BOOLEAN, Activated(a, ok)
  PROVE  CallInv'
<1>. USE DEF CallInv
<1>1. /\ application[a].host \in {"starting", "bound"} /\ UNCHANGED <<call, published>>
      /\ application[a].host = "starting" => ~ok
  BY DEF Activated
<1>2. CASE ok
  <2>1. binding' = binding /\ application' = [application EXCEPT ![a].host = "serving"]
    BY <1>2 DEF Activated
  <2>2. /\ \A b \in Applications \ {a} : application'[b] = application[b]
        /\ application'[a].host = "serving" /\ application'[a].session = application[a].session
    BY <2>1 DEF CallType
  <2>3. CallType'
    BY <1>1, <2>1, <2>2 DEF CallType
  <2>4. KeptBound'
    BY <1>1, <1>2, <2>1, <2>2 DEF CallType, KeptBound
  <2>. QED  BY <1>1, <2>3, <2>4, HostStep
<1>3. CASE ~ok
  <2>1. /\ binding' = binding \ {a}
        /\ application' = [application EXCEPT ![a] = [host |-> "failed", session |-> "closed"]]
    BY <1>3 DEF Activated, Unbind
  <2>2. /\ \A b \in Applications \ {a} : application'[b] = application[b]
        /\ application'[a] = [host |-> "failed", session |-> "closed"]
    BY <2>1 DEF CallType
  <2>3. CallType'
    <3>1. [host |-> "failed", session |-> "closed"] \in
            [host : {"new", "starting", "bound", "serving", "failed"},
             session : {"new", "ready", "closed"}]
      OBVIOUS
    <3>. QED  BY <1>1, <2>1, <3>1 DEF CallType
  <2>4. KeptBound'
    BY <2>1, <2>2 DEF KeptBound
  <2>. QED  BY <1>1, <2>3, <2>4, HostStep
<1>. QED  BY <1>2, <1>3

(* An application that stops gives back its own contracts only.            *)
LEMMA DestroyStep ==
  ASSUME CallInv, NEW a \in Applications, Destroy(a)
  PROVE  CallInv'
<1>. USE DEF CallInv
<1>1. /\ binding' = binding \ {a} /\ UNCHANGED <<call, published>>
      /\ application' = [application EXCEPT ![a].session = "closed"]
  BY DEF Destroy, Unbind
<1>2. /\ \A b \in Applications \ {a} : application'[b] = application[b]
      /\ application'[a].session = "closed" /\ application'[a].host = application[a].host
  BY <1>1 DEF CallType
<1>3. CallType'
  BY <1>1, <1>2 DEF CallType
<1>4. KeptBound'
  BY <1>1, <1>2 DEF CallType, KeptBound
<1>. QED  BY <1>1, <1>3, <1>4, HostStep

(* A step of one call leaves the others alone.                             *)
LEMMA OneCallStep ==
  ASSUME CallInv, NEW c \in Callers, NEW to, CallGoes(c, to), UNCHANGED <<application, binding>>,
         DOMAIN published' = Callers, \A b \in Callers \ {c} : published'[b] = published[b],
         OneCallInv(to, published'[c])
  PROVE  CallInv'
<1>1. CallType' /\ KeptBound'
  BY DEF CallInv, CallType, KeptBound, CallGoes
<1>2. call'[c] = to /\ \A b \in Callers \ {c} : call'[b] = call[b]
  BY DEF CallInv, CallType, CallGoes
<1>3. \A b \in Callers : OneCallInv(call'[b], published'[b])
  BY <1>2 DEF CallInv
<1>. QED  BY <1>1, <1>3 DEF CallInv

(* A call that settles without a value keeps what it has published.        *)
LEMMA SettlesStep ==
  ASSUME CallInv, NEW c \in Callers, NEW told, Settled(c, told),
         UNCHANGED <<application, binding, published>>,
         told = "value" /\ call[c].op # "prepare" =>
           published[c] = call[c].at \X DOMAIN call[c].items
  PROVE  CallInv'
<1> DEFINE d == call[c]
           to == [d EXCEPT !.pc = "settled", !.told = told]
<1>1. OneCallInv(d, published[c])
  BY DEF CallInv
<1>2. /\ to.pc = "settled" /\ to.told = told /\ to.op = d.op /\ to.items = d.items
      /\ to.at = d.at /\ to.client = d.client /\ DOMAIN to = DOMAIN d
  BY <1>1 DEF OneCallInv
<1>. HIDE DEF to
<1>3. OneCallInv(to, published[c])
  BY <1>1, <1>2 DEF OneCallInv, CallWhole
<1>4. CallGoes(c, to)
  BY DEF Settled, to
<1>5. DOMAIN published = Callers
  BY DEF CallInv, CallType
<1>. QED  BY <1>3, <1>4, <1>5, OneCallStep

(* A call finds the one client that its contract is bound to.              *)
LEMMA StartCallStep ==
  ASSUME CallInv, NEW c \in Callers, NEW op, NEW items \in BoundedSeq(Items, MaxItems),
         StartCall(c, op, items)
  PROVE  CallInv'
<1> DEFINE to == [NoCall EXCEPT !.pc = IF binding = {} THEN "settled" ELSE "parsing",
                                !.told = IF binding = {} THEN "unbound" ELSE "none",
                                !.op = op, !.items = items, !.at = binding,
                                !.client = binding, !.left = DOMAIN items]
<1>1. CallGoes(c, to) /\ UNCHANGED <<application, binding, published>> /\ call[c].pc = "idle"
  BY DEF StartCall
<1>2. published[c] = {} /\ DOMAIN published = Callers
  BY <1>1 DEF CallInv, OneCallInv, CallType
<1>3. \A i \in DOMAIN items : items[i] \in Items
  BY DEF BoundedSeq, SeqOf
<1>4. /\ to.pc = IF binding = {} THEN "settled" ELSE "parsing"
      /\ to.told = IF binding = {} THEN "unbound" ELSE "none"
      /\ to.items = items /\ to.at = binding /\ to.client = binding /\ to.left = DOMAIN items
      /\ DOMAIN to = {"pc", "op", "items", "at", "client", "left", "told"}
  BY DEF NoCall
<1>. HIDE DEF to
<1>5. OneCallInv(to, published[c])
  BY <1>2, <1>3, <1>4 DEF OneCallInv, CallWhole
<1>. QED  BY <1>1, <1>2, <1>5, OneCallStep

(* An item whose validation went well is not malformed.                    *)
LEMMA EncodedStep ==
  ASSUME CallInv, NEW c \in Callers, NEW i, Encoded(c, i)
  PROVE  CallInv'
<1> DEFINE d == call[c]
           to == [d EXCEPT !.left = @ \ {i}]
<1>1. OneCallInv(d, published[c]) /\ DOMAIN published = Callers
  BY DEF CallInv, CallType
<1>2. d.pc = "parsing" /\ UNCHANGED <<application, binding, published>>
  BY DEF Encoded
<1>3. CASE d.items[i] = "malformed"
  <2>1. Settled(c, "refused")  BY <1>3 DEF Encoded
  <2>. QED  BY <1>2, <2>1, SettlesStep
<1>4. CASE d.items[i] # "malformed"
  <2>1. CallGoes(c, to)  BY <1>4 DEF Encoded
  <2>2. /\ to.pc = d.pc /\ to.told = d.told /\ to.op = d.op /\ to.items = d.items
        /\ to.at = d.at /\ to.client = d.client /\ DOMAIN to = DOMAIN d
        /\ to.left = d.left \ {i}
    BY <1>1 DEF OneCallInv
  <2>. HIDE DEF to
  <2>3. OneCallInv(to, published[c])
    BY <1>1, <1>2, <1>4, <2>2 DEF OneCallInv, CallWhole
  <2>. QED  BY <1>1, <1>2, <2>1, <2>3, OneCallStep
<1>. QED  BY <1>3, <1>4

(* The engine is asked for good items only.                                *)
LEMMA ForwardedStep ==
  ASSUME CallInv, NEW c \in Callers, Forwarded(c)
  PROVE  CallInv'
<1> DEFINE d == call[c]
           to == [d EXCEPT !.pc = "engine"]
<1>1. OneCallInv(d, published[c]) /\ DOMAIN published = Callers
  BY DEF CallInv, CallType
<1>2. d.pc = "parsing" /\ d.left = {} /\ UNCHANGED <<application, binding, published>>
  BY DEF Forwarded
<1>3. CASE Settled(c, "refused") \/ Settled(c, "closed")
  BY <1>2, <1>3, SettlesStep
<1>4. CASE CallGoes(c, to) /\ "refused" \notin Range(d.items)
  <2>1. \A i \in DOMAIN d.items : d.items[i] = "good"
    BY <1>1, <1>2, <1>4 DEF OneCallInv, Items, Range
  <2>2. Range(d.items) \subseteq {"good"}
    BY <2>1 DEF Range
  <2>3. /\ to.pc = "engine" /\ to.told = d.told /\ to.op = d.op /\ to.items = d.items
        /\ to.at = d.at /\ to.client = d.client /\ DOMAIN to = DOMAIN d
    BY <1>1 DEF OneCallInv
  <2>. HIDE DEF to
  <2>4. OneCallInv(to, published[c])
    BY <1>1, <1>2, <2>2, <2>3 DEF OneCallInv, CallWhole
  <2>. QED  BY <1>1, <1>2, <1>4, <2>4, OneCallStep
<1>. QED  BY <1>3, <1>4 DEF Forwarded

(* The engine stores all of a call's items or none.                        *)
LEMMA ExecutedStep ==
  ASSUME CallInv, NEW c \in Callers, NEW stores \in BOOLEAN, NEW answers \in BOOLEAN,
         Executed(c, stores, answers)
  PROVE  CallInv'
<1> DEFINE d == call[c]
           all == d.at \X DOMAIN d.items
           told == IF stores /\ answers THEN "value" ELSE "failed"
           to == IF stores /\ answers /\ d.op = "execute" THEN [d EXCEPT !.pc = "await"]
                 ELSE [d EXCEPT !.pc = "settled", !.told = told]
<1>1. OneCallInv(d, published[c]) /\ DOMAIN published = Callers
  BY DEF CallInv, CallType
<1>2. d.pc = "engine" /\ UNCHANGED <<application, binding>>
  BY DEF Executed
<1>3. /\ published[c] = {} /\ Range(d.items) \subseteq {"good"} /\ d.client = d.at
      /\ d.told = "none"
  BY <1>1, <1>2 DEF OneCallInv
<1>4. /\ DOMAIN published' = Callers /\ \A b \in Callers \ {c} : published'[b] = published[b]
      /\ published'[c] = IF stores /\ d.op # "prepare" THEN all ELSE {}
  BY <1>1, <1>3 DEF Executed
<1>5. CallGoes(c, to)
  BY DEF Executed, Settled
<1>6. /\ to.op = d.op /\ to.items = d.items /\ to.at = d.at /\ to.client = d.client
      /\ DOMAIN to = DOMAIN d
      /\ IF stores /\ answers /\ d.op = "execute" THEN to.pc = "await" /\ to.told = d.told
         ELSE to.pc = "settled" /\ to.told = told
  BY <1>1 DEF OneCallInv
<1>. HIDE DEF to
<1>7. OneCallInv(to, published'[c])
  BY <1>1, <1>3, <1>4, <1>6 DEF OneCallInv, CallWhole
<1>. QED  BY <1>2, <1>4, <1>5, <1>7, OneCallStep

(* A result comes after everything was published.                          *)
LEMMA AwaitResultStep ==
  ASSUME CallInv, NEW c \in Callers, NEW ok \in BOOLEAN, AwaitResult(c, ok)
  PROVE  CallInv'
<1>1. /\ call[c].pc = "await" /\ UNCHANGED <<application, binding, published>>
      /\ \E told : Settled(c, told)
  BY DEF AwaitResult
<1>2. published[c] = call[c].at \X DOMAIN call[c].items
  BY <1>1 DEF CallInv, OneCallInv
<1>. QED  BY <1>1, <1>2, SettlesStep

(* Every step keeps what is known of applications and calls.               *)
THEOREM CallStep == CallInv /\ [DeliveryNext]_allVars => CallInv'
<1>1. SUFFICES ASSUME CallInv, [DeliveryNext]_allVars PROVE CallInv'  OBVIOUS
<1>2. CASE CallsNext
  <2>1. CASE \E a \in Applications :
               Bootstrap(a) \/ Bind(a) \/ Destroy(a) \/ \E ok \in BOOLEAN : Activated(a, ok)
    BY <1>1, <2>1, BootstrapStep, BindStep, DestroyStep, ActivatedStep
  <2>2. CASE \E c \in Callers, op \in {"enqueue", "many", "prepare", "execute"},
               items \in BoundedSeq(Items, MaxItems) : StartCall(c, op, items)
    BY <1>1, <2>2, StartCallStep
  <2>3. CASE \E c \in Callers : (\E i \in 1..MaxItems : Encoded(c, i)) \/ Forwarded(c)
    BY <1>1, <2>3, EncodedStep, ForwardedStep
  <2>4. CASE \E c \in Callers, ok, answers \in BOOLEAN : Executed(c, ok, answers) \/ AwaitResult(c, ok)
    BY <1>1, <2>4, ExecutedStep, AwaitResultStep
  <2>. QED  BY <1>2, <2>1, <2>2, <2>3, <2>4 DEF CallsNext
<1>3. CASE UNCHANGED callVars
  BY <1>1, <1>3 DEF callVars, CallInv, CallType, KeptBound
<1>. QED  BY <1>1, <1>2, <1>3 DEF DeliveryNext, OnlyJob, Calling, allVars

(* A call is whole and its contract bound in every reachable state.        *)
THEOREM CallInvariant == DeliverySpec => []CallInv
<1>1. DeliveryInit => CallInv
  <2>1. SUFFICES ASSUME DeliveryInit PROVE CallInv  OBVIOUS
  <2>2. CallType /\ KeptBound
    BY <2>1 DEF DeliveryInit, CallsInit, CallType, KeptBound
  <2>3. /\ DOMAIN NoCall = {"pc", "op", "items", "at", "client", "left", "told"}
        /\ NoCall.pc = "idle" /\ NoCall.told = "none" /\ NoCall.items = <<>>
        /\ NoCall.at = NoCall.client
    BY DEF NoCall
  <2>4. OneCallInv(NoCall, {})
    BY <2>3 DEF OneCallInv, CallWhole
  <2>5. \A c \in Callers : call[c] = NoCall /\ published[c] = {}
    BY <2>1 DEF DeliveryInit, CallsInit
  <2>. QED  BY <2>2, <2>4, <2>5 DEF CallInv
<1>. QED  BY <1>1, CallStep, PTL DEF DeliverySpec

(* A call publishes all of its items or none, in the application its       *)
(* contract was bound to; and what a worker claims is what was declared    *)
(* and published: its payload, its retries, its key.                       *)
THEOREM StoredAsDeclaredCorrect == DeliverySpec => []StoredAsDeclared
<1>1. CallInv => PublishedWhole
  BY DEF CallInv, OneCallInv, CallWhole, PublishedWhole, CallsWhole
<1>2. JobInv /\ CallInv => StoredAsDeclared
  BY <1>1 DEF JobInv, StoredAsDeclared
<1>. QED  BY <1>2, JobInvariant, CallInvariant, PTL

-----------------------------------------------------------------------------
(* The recovery of flow parents.                                           *)

(* An activation begins with nothing read and nothing found.               *)
LEMMA RecoveryStep ==
  ASSUME SeedInv, Recovery
  PROVE  SeedInv'
<1>1. PICK flows \in SUBSET Flows,
           stored \in [Parents -> [flow : Flows, state : {"open", "closed"}, cascade : BOOLEAN] \cup
                                 {[flow |-> <<>>, state |-> "absent", cascade |-> FALSE]}] :
             Activate(flows, stored)
  BY DEF Recovery
<1>2. /\ parents' = stored
      /\ recover' = [pc |-> "reading", flows |-> flows, unread |-> Routes, ids |-> {}]
      /\ left' = {p \in Parents : Unfinished(stored[p])}
  BY <1>1 DEF Activate
<1>3. \A p \in Parents :
        /\ DOMAIN stored[p] = {"flow", "state", "cascade"}
        /\ stored[p].state # "absent" => stored[p].flow \in Flows
        /\ stored[p].state = "absent" => ~Unfinished(stored[p])
  <2>1. SUFFICES ASSUME NEW p \in Parents
                 PROVE  /\ DOMAIN stored[p] = {"flow", "state", "cascade"}
                        /\ stored[p].state # "absent" => stored[p].flow \in Flows
                        /\ stored[p].state = "absent" => ~Unfinished(stored[p])
    OBVIOUS
  <2>2. CASE stored[p] \in [flow : Flows, state : {"open", "closed"}, cascade : BOOLEAN]
    BY <2>2
  <2>3. CASE stored[p] = [flow |-> <<>>, state |-> "absent", cascade |-> FALSE]
    BY <2>3 DEF Unfinished
  <2>. QED  BY <2>2, <2>3
<1>4. \A flow \in Flows : flow[1] \in Routes
  BY DEF Flows
<1>. QED  BY <1>2, <1>3, <1>4 DEF SeedInv, Flows

(* A connection that was read has yielded its parents.                     *)
LEMMA RecoverStep ==
  ASSUME SeedInv, NEW route \in Routes, NEW ok \in BOOLEAN, Recover(route, ok)
  PROVE  SeedInv'
<1> DEFINE names == {n \in FlowNames : <<route, n>> \in recover.flows}
           ids == RecoveryIds(route, names)
           rest == recover.unread \ {route}
<1>1. recover.pc = "reading" /\ UNCHANGED <<parents, left>>
  BY DEF Recover
<1>2. CASE recover' = [recover EXCEPT !.pc = "failed"]
  <2>1. /\ recover'.pc = "failed" /\ recover'.flows = recover.flows
        /\ DOMAIN recover' = DOMAIN recover
    BY <1>2 DEF SeedInv
  <2>. QED  BY <1>1, <2>1 DEF SeedInv
<1>3. CASE recover' = [recover EXCEPT !.pc = IF rest = {} THEN "started" ELSE @,
                                      !.unread = rest, !.ids = @ \cup ids]
  <2>1. /\ recover'.pc \in {"reading", "started"}
        /\ recover'.pc = "started" => rest = {}
        /\ recover'.flows = recover.flows /\ recover'.unread = rest
        /\ recover'.ids = recover.ids \cup ids
        /\ DOMAIN recover' = DOMAIN recover
    BY <1>1, <1>3 DEF SeedInv
  <2>2. \A p \in ids : /\ p \in Parents /\ parents[p].state # "absent"
                       /\ parents[p].flow \in recover.flows
    BY DEF RecoveryIds, SeedInv
  <2>3. ASSUME NEW p \in left, parents[p].flow \in recover.flows, parents[p].flow[1] = route
        PROVE  p \in ids
    <3>1. p \in Parents /\ Unfinished(parents[p])
      BY DEF SeedInv
    <3>2. PICK n \in FlowNames : parents[p].flow = <<route, n>>
      BY <2>3 DEF SeedInv, Flows
    <3>. QED  BY <2>3, <3>1, <3>2 DEF RecoveryIds
  <2>4. \A p \in left : parents[p].flow \in recover.flows =>
          p \in recover.ids \cup ids \/ parents[p].flow[1] \in rest
    BY <1>1, <2>3 DEF SeedInv
  <2>. QED  BY <1>1, <2>1, <2>2, <2>4 DEF SeedInv
<1>. QED  BY <1>2, <1>3 DEF Recover

(* Elsewhere a parent keeps its flow, and what it finishes is not left.    *)
LEMMA ElsewhereStep ==
  ASSUME SeedInv, NEW p \in Parents, NEW flow \in Flows, NEW state \in {"open", "closed"},
         NEW cascade \in BOOLEAN,
         Elsewhere(p, [flow |-> flow, state |-> state, cascade |-> cascade])
  PROVE  SeedInv'
<1> DEFINE parent == [flow |-> flow, state |-> state, cascade |-> cascade]
<1>1. /\ parent.flow \in Flows /\ parent.state # "absent"
      /\ DOMAIN parent = {"flow", "state", "cascade"}
  OBVIOUS
<1>. HIDE DEF parent
<1>2. /\ parents' = [parents EXCEPT ![p] = parent] /\ UNCHANGED recover
      /\ left' = IF Unfinished(parent) THEN left ELSE left \ {p}
  BY DEF Elsewhere, parent
<1>3. parents[p].state # "absent" => parent.flow = parents[p].flow
  BY DEF Elsewhere, parent
<1>4. /\ parents'[p] = parent /\ DOMAIN parents' = Parents
      /\ \A r \in Parents \ {p} : parents'[r] = parents[r]
  BY <1>2 DEF SeedInv
<1>5. left \subseteq Parents /\ left' \subseteq left /\ (p \in left' => Unfinished(parent))
  BY <1>2 DEF SeedInv
<1>6. \A r \in Parents : /\ parents[r].state # "absent" => /\ parents'[r].state # "absent"
                                                         /\ parents'[r].flow = parents[r].flow
  BY <1>1, <1>3, <1>4
<1>7. \A r \in left : parents[r].state # "absent"
  BY DEF SeedInv
<1>. QED  BY <1>1, <1>2, <1>4, <1>5, <1>6, <1>7 DEF SeedInv

(* Every step keeps what is known of a recovery.                           *)
THEOREM SeedStep == SeedInv /\ [DeliveryNext]_allVars => SeedInv'
<1>1. SUFFICES ASSUME SeedInv, [DeliveryNext]_allVars PROVE SeedInv'  OBVIOUS
<1>2. CASE Recovery
  BY <1>1, <1>2, RecoveryStep
<1>3. CASE \E route \in Routes, ok \in BOOLEAN : Recover(route, ok)
  BY <1>1, <1>3, RecoverStep
<1>4. CASE \E p \in Parents, flow \in Flows, state \in {"open", "closed"}, cascade \in BOOLEAN :
             Elsewhere(p, [flow |-> flow, state |-> state, cascade |-> cascade])
  BY <1>1, <1>4, ElsewhereStep
<1>5. CASE UNCHANGED <<parents, recover, left>>
  BY <1>1, <1>5 DEF SeedInv
<1>6. FlowNext => \/ \E route \in Routes, ok \in BOOLEAN : Recover(route, ok)
                  \/ \E p \in Parents, flow \in Flows, state \in {"open", "closed"},
                        cascade \in BOOLEAN :
                       Elsewhere(p, [flow |-> flow, state |-> state, cascade |-> cascade])
                  \/ UNCHANGED <<parents, recover, left>>
  BY DEF FlowNext, StartAll, StartPage, Snapshot, Restore, ReadPage, ReadAgain, Reads, Replaced
<1>7. OnlyJob(JobNext) \/ Collection \/ (Calling /\ UNCHANGED flowVars) \/ UNCHANGED allVars =>
        UNCHANGED <<parents, recover, left>>
  BY DEF OnlyJob, Collection, Collects, allVars, flowVars
<1>. QED  BY <1>1, <1>2, <1>3, <1>4, <1>5, <1>6, <1>7 DEF DeliveryNext, Reading

(* What is left behind is found or on a connection still to be read.       *)
THEOREM SeedInvariant == DeliverySpec => []SeedInv
<1>1. DeliveryInit => SeedInv
  BY DEF DeliveryInit, FlowInit, SeedInv, Unfinished
<1>. QED  BY <1>1, SeedStep, PTL DEF DeliverySpec

(* A worker starts with all parents of its flows that were left behind and *)
(* with none of another flow: the first half of FlowReadsExact.            *)
THEOREM SeedsExactCorrect == DeliverySpec => []SeedsExact
<1>1. SeedInv => SeedsExact
  BY DEF SeedInv, SeedsExact
<1>. QED  BY <1>1, SeedInvariant, PTL

-----------------------------------------------------------------------------
(* The collection: what a page selects.                                    *)

(* A set of numbers that is not empty has a least element.                 *)
LEMMA LeastNumber ==
  ASSUME NEW S, S \subseteq Nat, S # {}
  PROVE  \E n \in S : \A m \in S : n <= m
<1> DEFINE Below == {0..n : n \in S}
<1>1. Below \subseteq FiniteSubsetsOf(Nat) /\ Below # {}
  <2>1. ASSUME NEW n \in S PROVE 0..n \in FiniteSubsetsOf(Nat)
    <3>1. IsFiniteSet(0..n)
      BY FS_Interval
    <3>2. 0..n \subseteq Nat
      OBVIOUS
    <3>. QED  BY <3>1, <3>2 DEF FiniteSubsetsOf
  <2>. QED  BY <2>1
<1>2. IsWellFoundedOn(StrictSubsetOrdering(Nat), FiniteSubsetsOf(Nat))
  BY FS_StrictSubsetOrderingWellFounded
<1>. HIDE DEF Below
<1>3. PICK least \in Below : \A other \in Below : <<other, least>> \notin StrictSubsetOrdering(Nat)
  BY <1>1, <1>2, WFMin
<1>4. PICK n \in S : least = 0..n
  BY DEF Below
<1>5. ASSUME NEW m \in S, ~(n <= m) PROVE FALSE
  <2>1. 0..m \in Below
    BY DEF Below
  <2>2. 0..m \subseteq 0..n /\ 0..m # 0..n /\ 0..n \subseteq Nat
    <3>1. n \in 0..n /\ n \notin 0..m
      BY <1>5
    <3>. QED  BY <1>5, <3>1
  <2>3. <<0..m, 0..n>> \in StrictSubsetOrdering(Nat)
    BY <2>2 DEF StrictSubsetOrdering
  <2>. QED  BY <1>3, <1>4, <2>1, <2>3
<1>. QED  BY <1>5


(* A loop over a sequence has a result after any number of its elements.   *)
LEMMA SelectedUnfolds ==
  ASSUME NEW positions, NEW job, NEW children, Len(children) \in Nat
  PROVE  \E upTo :
           /\ Selected(positions, job, children) = upTo[Len(children)]
           /\ \A n \in 0..Len(children) :
                upTo[n] = IF n = 0 THEN <<>>
                          ELSE IF n \in positions /\ {children[n].job} = job
                          THEN Append(upTo[n - 1], children[n]) ELSE upTo[n - 1]
<1> DEFINE Body(f, n) == IF n = 0 THEN <<>>
                         ELSE IF n \in positions /\ {children[n].job} = job
                         THEN Append(f[n - 1], children[n]) ELSE f[n - 1]
           Rec(f, last) == [n \in 0..last |-> Body(f, n)]
           Unsolved == {last \in 0..Len(children) : ~\E f : f = Rec(f, last)}
<1>1. Unsolved = {}
  <2> SUFFICES ASSUME Unsolved # {} PROVE FALSE
    OBVIOUS
  <2>1. PICK last \in Unsolved : \A m \in Unsolved : last <= m
    <3>1. Unsolved \subseteq Nat
      OBVIOUS
    <3>. HIDE DEF Unsolved
    <3>. QED  BY <3>1, LeastNumber
  <2>2. CASE last = 0
    <3> DEFINE f == [n \in 0..0 |-> <<>>]
    <3>1. f = Rec(f, 0)
      OBVIOUS
    <3>. QED  BY <2>2, <3>1
  <2>3. CASE last # 0
    <3>1. last - 1 \in 0..Len(children) /\ last - 1 \notin Unsolved
      <4>1. last \in 0..Len(children)
        OBVIOUS
      <4>. HIDE DEF Unsolved
      <4>. QED  BY <2>1, <2>3, <4>1
    <3>2. PICK g : g = Rec(g, last - 1)
      BY <3>1
    <3> DEFINE f == [n \in 0..last |-> IF n = last THEN Body(g, last) ELSE g[n]]
    <3>3. \A n \in 0..last : f[n] = Body(f, n)
      <4>1. ASSUME NEW n \in 0..last - 1 PROVE f[n] = Body(g, n)
        <5>1. g[n] = Body(g, n)
          <6>. HIDE DEF Body
          <6>. QED  BY <3>2
        <5>. HIDE DEF Body
        <5>. QED  BY <3>1, <5>1
      <4>2. \A n \in 0..last - 1 : f[n] = g[n]
        BY <3>1
      <4>3. ASSUME NEW n \in 0..last PROVE Body(f, n) = Body(g, n)
        <5>1. CASE n = 0
          BY <5>1
        <5>2. CASE n # 0
          <6>1. f[n - 1] = g[n - 1]
            BY <3>1, <4>2, <5>2
          <6>. QED  BY <6>1
        <5>. QED  BY <5>1, <5>2
      <4>4. f[last] = Body(g, last)
        BY <3>1
      <4>. HIDE DEF f, Body
      <4>. QED  BY <3>1, <4>1, <4>3, <4>4
    <3>4. f = Rec(f, last)
      <4>. HIDE DEF Body
      <4>1. f = [n \in 0..last |-> f[n]]
        OBVIOUS
      <4>. HIDE DEF f
      <4>. QED  BY <3>3, <4>1
    <3>. QED  BY <3>4
  <2>. QED  BY <2>2, <2>3
<1>2. \E f : f = Rec(f, Len(children))
  <2>1. Len(children) \in 0..Len(children)
    OBVIOUS
  <2>. QED  BY <1>1, <2>1
<1> DEFINE upTo == CHOOSE f : f = Rec(f, Len(children))
<1>3. upTo = Rec(upTo, Len(children))
  <2>. HIDE DEF Rec
  <2>. QED  BY <1>2
<1>4. Selected(positions, job, children) = upTo[Len(children)]
  BY DEF Selected
<1>. HIDE DEF upTo
<1>5. \A n \in 0..Len(children) : upTo[n] = Body(upTo, n)
  <2>. HIDE DEF Body
  <2>. QED  BY <1>3
<1>. QED  BY <1>4, <1>5

(* Those of a flow's children that are of a contract and at some positions *)
(* are chosen, each once and in their order.                               *)
Chosen(chosen, children, positions, job) ==
  /\ \A i \in DOMAIN chosen :
       /\ chosen[i].key \in DOMAIN children /\ chosen[i] = children[chosen[i].key]
       /\ chosen[i].key \in positions /\ {chosen[i].job} = job
  /\ \A key \in DOMAIN children : key \in positions /\ {children[key].job} = job =>
       \E i \in DOMAIN chosen : chosen[i].key = key
  /\ Ascending(chosen)

(* The same of the first children.                                         *)
ChosenOf(n, chosen, children, positions, job) ==
  /\ \A i \in DOMAIN chosen :
       /\ chosen[i].key \in 1..n /\ chosen[i] = children[chosen[i].key]
       /\ chosen[i].key \in positions /\ {chosen[i].job} = job
  /\ \A key \in 1..n : key \in positions /\ {children[key].job} = job =>
       \E i \in DOMAIN chosen : chosen[i].key = key
  /\ Ascending(chosen)

(* One that was not asked for is passed over.                              *)
LEMMA OneNotAsked ==
  ASSUME NEW n \in Nat \ {0}, NEW chosen, NEW children, NEW positions, NEW job,
         ChosenOf(n - 1, chosen, children, positions, job),
         ~(n \in positions /\ {children[n].job} = job)
  PROVE  ChosenOf(n, chosen, children, positions, job)
<1>1. \A key \in 1..n : key = n \/ key \in 1..n - 1
  OBVIOUS
<1>2. 1..n - 1 \subseteq 1..n
  OBVIOUS
<1>. QED  BY <1>1, <1>2 DEF ChosenOf

(* One that was asked for comes last.                                      *)
LEMMA OneMore ==
  ASSUME NEW Things, NEW n \in Nat \ {0}, NEW before \in Seq(Things), NEW children,
         children[n] \in Things, children[n].key = n, NEW positions, NEW job,
         ChosenOf(n - 1, before, children, positions, job),
         n \in positions, {children[n].job} = job
  PROVE  /\ Append(before, children[n]) \in Seq(Things)
         /\ ChosenOf(n, Append(before, children[n]), children, positions, job)
<1> DEFINE after == Append(before, children[n])
           last == Len(before) + 1
<1>1. /\ after \in Seq(Things) /\ Len(before) \in Nat
      /\ DOMAIN after = 1..last /\ DOMAIN before = 1..Len(before)
      /\ \A i \in DOMAIN before : after[i] = before[i]
      /\ after[last] = children[n]
  OBVIOUS
<1>2. \A i \in DOMAIN after : i \in DOMAIN before \/ i = last
  BY <1>1
<1>3. DOMAIN before \subseteq DOMAIN after /\ last \in DOMAIN after
  BY <1>1
<1>4. /\ DOMAIN after \subseteq Int
      /\ \A i \in DOMAIN after : \A k \in DOMAIN before : i < k => i \in DOMAIN before
      /\ \A i \in DOMAIN after : i < last => i \in DOMAIN before
      /\ \A i \in DOMAIN after : ~(last < i)
  BY <1>1
<1>. HIDE DEF after, last
<1>5. 1..n - 1 \subseteq 1..n /\ n \in 1..n /\ \A key \in 1..n - 1 : key < n
  OBVIOUS
<1>6. \A key \in 1..n : key = n \/ key \in 1..n - 1
  OBVIOUS
<1>7. \A i \in DOMAIN after :
        /\ after[i].key \in 1..n /\ after[i] = children[after[i].key]
        /\ after[i].key \in positions /\ {after[i].job} = job
  <2>1. ASSUME NEW i \in DOMAIN before
        PROVE  /\ after[i].key \in 1..n /\ after[i] = children[after[i].key]
               /\ after[i].key \in positions /\ {after[i].job} = job
    BY <1>1, <1>5 DEF ChosenOf
  <2>. QED  BY <1>1, <1>2, <1>5, <2>1
<1>8. ASSUME NEW key \in 1..n, key \in positions /\ {children[key].job} = job
      PROVE  \E i \in DOMAIN after : after[i].key = key
  <2>1. CASE key = n
    BY <1>1, <1>3, <2>1
  <2>2. CASE key \in 1..n - 1
    <3>1. PICK i \in DOMAIN before : before[i].key = key
      BY <1>8, <2>2 DEF ChosenOf
    <3>. QED  BY <1>1, <1>3, <3>1
  <2>. QED  BY <1>6, <2>1, <2>2
<1>9. ASSUME NEW i \in DOMAIN after, NEW k \in DOMAIN after, i < k
      PROVE  after[i].key < after[k].key
  <2>1. CASE k \in DOMAIN before
    <3>1. i \in DOMAIN before
      BY <1>4, <1>9, <2>1
    <3>. QED  BY <1>1, <1>9, <2>1, <3>1 DEF ChosenOf, Ascending
  <2>2. CASE k = last
    <3>1. i \in DOMAIN before
      BY <1>4, <1>9, <2>2
    <3>2. before[i].key \in 1..n - 1
      BY <3>1 DEF ChosenOf
    <3>. QED  BY <1>1, <1>5, <2>2, <3>1, <3>2
  <2>. QED  BY <1>2, <2>1, <2>2
<1>10. Ascending(after)
  BY <1>9 DEF Ascending
<1>11. ChosenOf(n, after, children, positions, job)
  BY <1>7, <1>8, <1>10 DEF ChosenOf
<1>. QED  BY <1>1, <1>11 DEF after

(* The reader selects what was asked for, and only that.                   *)
LEMMA SelectedExact ==
  ASSUME NEW Things, NEW children \in Seq(Things),
         \A i \in DOMAIN children : children[i].key = i,
         NEW positions, NEW job
  PROVE  /\ Selected(positions, job, children) \in Seq(Things)
         /\ Chosen(Selected(positions, job, children), children, positions, job)
<1>1. Len(children) \in Nat /\ DOMAIN children = 1..Len(children)
  OBVIOUS
<1>2. PICK upTo :
        /\ Selected(positions, job, children) = upTo[Len(children)]
        /\ \A n \in 0..Len(children) :
             upTo[n] = IF n = 0 THEN <<>>
                       ELSE IF n \in positions /\ {children[n].job} = job
                       THEN Append(upTo[n - 1], children[n]) ELSE upTo[n - 1]
  BY <1>1, SelectedUnfolds
<1> DEFINE Right(n) == upTo[n] \in Seq(Things) /\ ChosenOf(n, upTo[n], children, positions, job)
           Wrong == {n \in 0..Len(children) : ~Right(n)}
<1>3. Wrong = {}
  <2> SUFFICES ASSUME Wrong # {} PROVE FALSE
    OBVIOUS
  <2>1. PICK n \in Wrong : \A m \in Wrong : n <= m
    <3>1. Wrong \subseteq Nat
      BY <1>1
    <3>. HIDE DEF Wrong
    <3>. QED  BY <3>1, LeastNumber
  <2>2. n \in 0..Len(children) /\ ~Right(n)
    <3>. HIDE DEF Right
    <3>. QED  OBVIOUS
  <2>3. CASE n = 0
    <3>1. upTo[n] = <<>>
      BY <1>2, <2>2, <2>3
    <3>2. ChosenOf(0, <<>>, children, positions, job)
      BY DEF ChosenOf, Ascending
    <3>. QED  BY <2>2, <2>3, <3>1, <3>2
  <2>4. CASE n # 0
    <3>1. n \in Nat \ {0} /\ n \in DOMAIN children /\ n - 1 \in 0..Len(children) /\ n - 1 < n
      <4>1. n \in 0..Len(children)
        BY <2>2
      <4>. HIDE DEF Wrong, Right
      <4>. QED  BY <1>1, <2>4, <4>1
    <3>2. Right(n - 1)
      <4>1. n - 1 \notin Wrong
        <5>. HIDE DEF Wrong
        <5>. QED  BY <2>1, <3>1
      <4>. HIDE DEF Right
      <4>. QED  BY <3>1, <4>1
    <3>3. children[n] \in Things /\ children[n].key = n
      BY <3>1
    <3>4. CASE ~(n \in positions /\ {children[n].job} = job)
      <4>1. upTo[n] = upTo[n - 1]
        BY <1>2, <2>2, <2>4, <3>4
      <4>2. Right(n)
        <5>. HIDE DEF Wrong
        <5>. QED  BY <3>1, <3>2, <3>4, <4>1, OneNotAsked
      <4>. HIDE DEF Right
      <4>. QED  BY <2>2, <4>2
    <3>5. CASE n \in positions /\ {children[n].job} = job
      <4>1. upTo[n] = Append(upTo[n - 1], children[n])
        BY <1>2, <2>2, <2>4, <3>5
      <4>2. Right(n)
        <5> DEFINE before == upTo[n - 1]
        <5>1. before \in Seq(Things) /\ ChosenOf(n - 1, before, children, positions, job)
          BY <3>2
        <5>2. upTo[n] = Append(before, children[n])
          BY <4>1
        <5>. HIDE DEF before, Wrong
        <5>3. /\ Append(before, children[n]) \in Seq(Things)
              /\ ChosenOf(n, Append(before, children[n]), children, positions, job)
          BY ONLY <3>1, <3>3, <3>5, <5>1, OneMore
        <5>. QED  BY <5>2, <5>3
      <4>. HIDE DEF Right
      <4>. QED  BY <2>2, <4>2
    <3>. QED  BY <3>4, <3>5
  <2>. QED  BY <2>3, <2>4
<1>4. Right(Len(children))
  <2>1. Len(children) \in 0..Len(children)
    BY <1>1
  <2>. HIDE DEF Right
  <2>. QED  BY <1>3, <2>1
<1>. QED  BY <1>1, <1>2, <1>4 DEF Chosen, ChosenOf

-----------------------------------------------------------------------------
(* The collection: the reader's steps.                                     *)

(* The rest of the worker's and of the callers' business does not touch it. *)
LEMMA CollectKept ==
  ASSUME CollectInv, UNCHANGED <<manifest, fanOut, read, cursors>>
  PROVE  CollectInv'
<1>1. CollectType'
  BY DEF CollectInv, CollectType, Reader
<1>2. SnapshotInv'
  BY DEF CollectInv, SnapshotInv, Own, Exact, Stored
<1>3. PagesInv'
  BY DEF CollectInv, PagesInv, AnswersFor, Ascending, Exact
<1>4. \A i \in DOMAIN read'.items : Own(read.items[i])'
  BY DEF CollectInv, Own, Stored
<1>5. AnswersFor(read.items, IF read.all THEN DOMAIN manifest ELSE Covered) =>
        AnswersFor(read.items, IF read.all THEN DOMAIN manifest ELSE Covered)'
  BY DEF AnswersFor, Ascending, Exact, Covered
<1>. QED  BY <1>1, <1>2, <1>3, <1>4, <1>5 DEF CollectInv

(* The elements of a sequence.                                             *)
LEMMA Elements ==
  ASSUME NEW S, NEW s \in Seq(S)
  PROVE  /\ Len(s) \in Nat /\ DOMAIN s = 1..Len(s) /\ DOMAIN s \subseteq Nat
         /\ \A i \in DOMAIN s : s[i] \in S
OBVIOUS

(* Bounded sequences are sequences.                                        *)
LEMMA BoundedSequences ==
  ASSUME NEW S, NEW n \in Nat
  PROVE  BoundedSeq(S, n) \subseteq Seq(S)
<1>1. BoundedSeq(S, n) = UNION {[1..m -> S] : m \in 0..n}
  BY DEF BoundedSeq, SeqOf
<1>2. \A m \in 0..n : [1..m -> S] \subseteq Seq(S)
  OBVIOUS
<1>. QED  BY <1>1, <1>2

(* The results that are stored.                                            *)
LEMMA StoredResults ==
  ASSUME manifest \in Seq([job : Jobs, outcome : Outcomes]), NEW n
  PROVE  \A i \in DOMAIN manifest :
           /\ Stored(n)[i].outcome \in Outcomes
           /\ n = 1 => Stored(n)[i].outcome = manifest[i].outcome
           /\ n # 1 => Stored(n)[i].outcome = "data"
<1>1. SUFFICES ASSUME NEW i \in DOMAIN manifest
      PROVE  /\ Stored(n)[i].outcome \in Outcomes
             /\ n = 1 => Stored(n)[i].outcome = manifest[i].outcome
             /\ n # 1 => Stored(n)[i].outcome = "data"
  OBVIOUS
<1>2. manifest[i] \in [job : Jobs, outcome : Outcomes]
  BY Elements
<1>3. CASE n = 1
  BY <1>2, <1>3 DEF Stored
<1>4. CASE n # 1
  <2>1. Stored(n)[i] = [manifest[i] EXCEPT !.outcome = "data"]
    BY <1>4 DEF Stored
  <2>2. [manifest[i] EXCEPT !.outcome = "data"].outcome = "data"
    BY <1>2
  <2>. QED  BY <1>4, <2>1, <2>2 DEF Outcomes
<1>. QED  BY <1>3, <1>4

(* A reader before its first question.                                     *)
LEMMA NothingRead ==
  /\ NoRead \in Reader
  /\ NoRead.pc = "idle" /\ NoRead.items = <<>> /\ NoRead.at = 0 /\ ~NoRead.all /\ DOMAIN <<>> = {}
BY DEF NoRead, Reader

(* A Collect phase begins with a flow and no question.                     *)
LEMMA CollectsStep ==
  ASSUME CollectInv, NEW children \in Manifests, Collects(children)
  PROVE  CollectInv'
<1>1. children \in Seq([job : Jobs, outcome : Outcomes])
  BY FlowReadsAssumption, BoundedSequences DEF Manifests
<1>2. read = NoRead /\ read' = NoRead /\ fanOut' = 1 /\ manifest' = children /\ cursors' = cursors
  BY DEF Collects, CollectInv, CollectType, Reader
<1>. QED
  BY <1>1, <1>2, NothingRead DEF CollectInv, CollectType, Reader, SnapshotInv, PagesInv

(* A flow that is replaced leaves what was read of it.                     *)
LEMMA ReplacedStep ==
  ASSUME CollectInv, Replaced
  PROVE  CollectInv'
<1>1. fanOut = 1 /\ fanOut' = 2 /\ UNCHANGED <<manifest, read, cursors>> /\ read.pc # "idle"
  BY DEF Replaced
<1>2. \A child \in Kids : Own(child) => Own(child)'
  BY <1>1 DEF Own, Stored, Kids
<1>3. CollectType'
  BY <1>1 DEF CollectInv, CollectType, Reader
<1>4. \A i \in DOMAIN read.items : read.items[i] \in Kids /\ Own(read.items[i])
  BY DEF CollectInv, CollectType, Reader
<1>5. SnapshotInv'
  <2>1. \A i \in DOMAIN read.snapshot : read.snapshot[i] \in Kids
    BY DEF CollectInv, CollectType, Reader
  <2>. QED  BY <1>1, <1>2, <2>1 DEF CollectInv, SnapshotInv
<1>. QED  BY <1>1, <1>2, <1>3, <1>4, <1>5 DEF CollectInv, PagesInv

(* A question begins with no answer.                                       *)
LEMMA StartsReading ==
  ASSUME CollectInv, fanOut # 0, UNCHANGED <<manifest, fanOut, cursors>>,
         read' \in Reader, read'.pc = "page", read'.items = <<>>, read'.all => read'.at = 0
  PROVE  CollectInv'
<1>2. CollectType'
  BY DEF CollectInv, CollectType, Reader
<1>3. PagesInv'
  <2>1. read'.all => AnswersFor(read.items, 1..read.at)'
    <3>1. read'.all => 1..read'.at = {} /\ DOMAIN read'.items = {}
      OBVIOUS
    <3>. QED  BY <3>1 DEF AnswersFor, Ascending
  <2>2. 0 <= Len(manifest)
    BY DEF CollectInv, CollectType, Reader
  <2>. QED  BY <2>1, <2>2 DEF PagesInv
<1>. QED  BY <1>2, <1>3, NothingRead DEF CollectInv, SnapshotInv

(* The store answers with the whole flow, null results missing.            *)
LEMMA SnapshotStep ==
  ASSUME CollectInv, Snapshot
  PROVE  CollectInv'
<1> DEFINE child(i) == [key |-> i, job |-> manifest[i].job, fanOut |-> fanOut,
                        outcome |-> IF Stored(fanOut)[i].outcome = "null" THEN "missing"
                                    ELSE Stored(fanOut)[i].outcome]
           snapshot == [i \in DOMAIN manifest |-> child(i)]
           pc == IF \E i \in DOMAIN snapshot : snapshot[i].outcome = "missing"
                 THEN "restore" ELSE "decode"
<1>1. /\ read' = [read EXCEPT !.snapshot = snapshot, !.pc = pc]
      /\ UNCHANGED <<manifest, fanOut, cursors>>
  BY DEF Snapshot, Reads
<1>2. fanOut \in {1, 2} /\ manifest \in Seq([job : Jobs, outcome : Outcomes])
  BY DEF CollectInv, CollectType, Reader, Snapshot
<1>3. \A i \in DOMAIN manifest : /\ Stored(fanOut)[i].outcome \in Outcomes
                                 /\ fanOut = 1 => Stored(fanOut)[i].outcome = manifest[i].outcome
  BY <1>2, StoredResults
<1>4. \A i \in DOMAIN manifest : child(i) \in Kids
  <2>1. \A i \in DOMAIN manifest : i \in Nat /\ manifest[i].job \in Jobs
    <3>1. /\ DOMAIN manifest \subseteq Nat
          /\ \A i \in DOMAIN manifest : manifest[i] \in [job : Jobs, outcome : Outcomes]
      BY <1>2, Elements
    <3>. QED  BY <3>1
  <2>. QED  BY <1>2, <1>3, <2>1 DEF Kids
<1>5. snapshot \in Seq(Kids) /\ DOMAIN snapshot = DOMAIN manifest
  <2>1. DOMAIN manifest = 1..Len(manifest) /\ Len(manifest) \in Nat
    BY <1>2
  <2>. HIDE DEF child
  <2>. QED  BY <1>4, <2>1
<1>6. \A i \in DOMAIN manifest :
        /\ snapshot[i].key = i /\ Own(snapshot[i])
        /\ fanOut = 1 => snapshot[i].outcome = manifest[i].outcome \/
             (snapshot[i].outcome = "missing" /\ manifest[i].outcome = "null")
  <2>1. ASSUME NEW i \in DOMAIN manifest
        PROVE  /\ child(i).key = i /\ Own(child(i))
               /\ fanOut = 1 => child(i).outcome = manifest[i].outcome \/
                    (child(i).outcome = "missing" /\ manifest[i].outcome = "null")
    <3>1. /\ child(i).key = i /\ child(i).job = manifest[i].job /\ child(i).fanOut = fanOut
          /\ child(i).outcome = IF Stored(fanOut)[i].outcome = "null" THEN "missing"
                                ELSE Stored(fanOut)[i].outcome
      OBVIOUS
    <3>. HIDE DEF child
    <3>. QED  BY <1>2, <1>3, <3>1 DEF Own
  <2>2. \A i \in DOMAIN manifest : snapshot[i] = child(i)
    OBVIOUS
  <2>. HIDE DEF child, snapshot
  <2>. QED  BY <2>1, <2>2
<1>7. /\ pc \in {"restore", "decode"}
      /\ pc = "decode" => \A i \in DOMAIN manifest : snapshot[i].outcome # "missing"
  BY <1>5
<1>. HIDE DEF snapshot, pc
<1>8. /\ read'.snapshot = snapshot /\ read'.pc = pc
      /\ read'.items = read.items /\ read'.all = read.all
      /\ read'.at = read.at /\ read'.seen = read.seen /\ read'.job = read.job
      /\ read' \in Reader
  BY <1>1, <1>5, <1>7 DEF CollectInv, CollectType, Reader
<1>9. CollectType'
  BY <1>1, <1>2, <1>7, <1>8 DEF CollectInv, CollectType, Reader
<1>10. SnapshotInv'
  BY <1>1, <1>5, <1>6, <1>7, <1>8 DEF SnapshotInv, Exact, Own, Stored
<1>11. PagesInv'
  BY <1>1, <1>8 DEF CollectInv, PagesInv, AnswersFor, Exact, Ascending, Snapshot
<1>12. \A i \in DOMAIN read.items : Own(read.items[i])'
  BY <1>1 DEF CollectInv, Own, Stored
<1>. QED  BY <1>1, <1>7, <1>8, <1>9, <1>10, <1>11, <1>12 DEF CollectInv

(* What is restored is the very child's, or the question fails.            *)
LEMMA RestoreStep ==
  ASSUME CollectInv, NEW ok \in BOOLEAN, Restore(ok)
  PROVE  CollectInv'
<1>1. /\ fanOut \in {1, 2} /\ read.pc = "restore" /\ UNCHANGED <<manifest, fanOut, cursors>>
      /\ manifest \in Seq([job : Jobs, outcome : Outcomes])
  BY DEF CollectInv, CollectType, Reader, Restore, Reads
<1>2. read'.items = read.items => \A i \in DOMAIN read'.items : Own(read.items[i])'
  BY <1>1 DEF CollectInv, Own, Stored
<1>3. CASE read' = [read EXCEPT !.pc = "failed"]
  <2>1. CollectType' /\ read'.pc = "failed" /\ read'.items = read.items
    BY <1>1, <1>3 DEF CollectInv, CollectType, Reader
  <2>. QED  BY <1>2, <2>1 DEF CollectInv, SnapshotInv, PagesInv
<1>4. CASE read' # [read EXCEPT !.pc = "failed"]
  <2> DEFINE child(i) == IF Restorable(i)
                         THEN [read.snapshot[i] EXCEPT !.outcome = Stored(fanOut)[i].outcome]
                         ELSE read.snapshot[i]
             snapshot == [i \in DOMAIN read.snapshot |-> child(i)]
  <2>1. /\ read' = [read EXCEPT !.pc = "decode", !.snapshot = snapshot]
        /\ \A i \in DOMAIN read.snapshot : Restorable(i) => read.snapshot[i].fanOut = fanOut
    BY <1>4 DEF Restore, Reads
  <2>2. /\ read.snapshot \in Seq(Kids) /\ DOMAIN read.snapshot = DOMAIN manifest
        /\ \A i \in DOMAIN manifest :
             /\ read.snapshot[i] \in Kids /\ read.snapshot[i].key = i /\ Own(read.snapshot[i])
             /\ fanOut = 1 => Exact(read.snapshot[i]) \/
                  (read.snapshot[i].outcome = "missing" /\ manifest[i].outcome = "null")
    BY <1>1 DEF CollectInv, CollectType, Reader, SnapshotInv
  <2>3. ASSUME NEW i \in DOMAIN manifest
        PROVE  /\ child(i) \in Kids /\ child(i).key = i /\ Own(child(i))
               /\ fanOut = 1 => child(i).outcome = manifest[i].outcome
    <3>1. /\ Stored(fanOut)[i].outcome \in Outcomes
          /\ fanOut = 1 => Stored(fanOut)[i].outcome = manifest[i].outcome
      BY <1>1, StoredResults
    <3>2. CASE Restorable(i)
      <4>1. child(i) = [read.snapshot[i] EXCEPT !.outcome = Stored(fanOut)[i].outcome]
        BY <3>2
      <4>s. read.snapshot[i].fanOut = fanOut /\ read.snapshot[i] \in Kids /\ read.snapshot[i].key = i
        BY <2>1, <2>2, <3>2
      <4>o. Stored(fanOut)[i].outcome \in Outcomes
        BY <3>1
      <4>2. /\ child(i) \in Kids /\ child(i).key = i /\ child(i).job = read.snapshot[i].job
            /\ child(i).fanOut = fanOut /\ child(i).outcome = Stored(fanOut)[i].outcome
        <5>. HIDE DEF child
        <5>. QED  BY <4>1, <4>s, <4>o DEF Kids
      <4>. HIDE DEF child
      <4>3. /\ child(i).key \in DOMAIN manifest /\ child(i).job = manifest[child(i).key].job
            /\ child(i).fanOut <= fanOut
            /\ Stored(child(i).fanOut)[child(i).key].outcome = Stored(fanOut)[i].outcome
        <5>1. read.snapshot[i].job = manifest[i].job
          BY <2>2 DEF Own
        <5>. QED  BY <1>1, <4>2, <5>1
      <4>4. Own(child(i))
        BY <4>2, <4>3 DEF Own
      <4>. QED  BY <3>1, <4>2, <4>4
    <3>3. CASE ~Restorable(i)
      <4>1. child(i) = read.snapshot[i]
        BY <3>3
      <4>2. fanOut = 1 => ~(read.snapshot[i].outcome = "missing" /\ manifest[i].outcome = "null")
        BY <3>1, <3>3 DEF Restorable
      <4>. HIDE DEF child
      <4>3. Exact(child(i)) => child(i).outcome = manifest[i].outcome
        BY <2>2, <4>1 DEF Exact
      <4>. QED  BY <2>2, <4>1, <4>2, <4>3
    <3>. QED  BY <3>2, <3>3
  <2>4. \A i \in DOMAIN manifest :
          /\ snapshot[i] \in Kids /\ snapshot[i].key = i /\ Own(snapshot[i])
          /\ fanOut = 1 => snapshot[i].outcome = manifest[i].outcome
    <3>1. \A i \in DOMAIN manifest : snapshot[i] = child(i)
      BY <2>2
    <3>. HIDE DEF child, snapshot
    <3>. QED  BY <2>3, <3>1
  <2>5. snapshot \in Seq(Kids) /\ DOMAIN snapshot = DOMAIN manifest
    <3>1. DOMAIN manifest = 1..Len(manifest) /\ Len(manifest) \in Nat
      BY <1>1, Elements
    <3>2. DOMAIN snapshot = DOMAIN manifest
      BY <2>2
    <3>3. snapshot = [i \in 1..Len(manifest) |-> snapshot[i]]
      BY <2>2, <3>1
    <3>. HIDE DEF snapshot
    <3>. QED  BY <2>4, <3>1, <3>2, <3>3
  <2>. HIDE DEF snapshot
  <2>6. /\ read'.snapshot = snapshot /\ read'.pc = "decode" /\ read'.items = read.items
        /\ read'.all = read.all /\ read'.at = read.at /\ read'.seen = read.seen
        /\ read'.job = read.job
        /\ read' \in Reader
    BY <2>1, <2>5 DEF CollectInv, CollectType, Reader
  <2>7. CollectType'
    BY <1>1, <2>6 DEF CollectInv, CollectType, Reader
  <2>8. SnapshotInv'
    BY <1>1, <2>4, <2>5, <2>6 DEF SnapshotInv, Exact, Own, Stored
  <2>9. PagesInv'
    BY <1>1, <2>6 DEF CollectInv, PagesInv, AnswersFor, Exact, Ascending
  <2>. QED  BY <1>2, <2>6, <2>7, <2>8, <2>9 DEF CollectInv
<1>. QED  BY <1>3, <1>4

(* What is appended to items with lower keys keeps them ascending.         *)
Joins(joined, before, more) ==
  /\ Ascending(joined)
  /\ \A i \in DOMAIN joined : \/ \E k \in DOMAIN before : joined[i] = before[k]
                              \/ \E k \in DOMAIN more : joined[i] = more[k]
  /\ \A k \in DOMAIN before : \E i \in DOMAIN joined : joined[i] = before[k]
  /\ \A k \in DOMAIN more : \E i \in DOMAIN joined : joined[i] = more[k]

(* Items and further ones behind them.                                     *)
LEMMA Joined ==
  ASSUME NEW Things, NEW before \in Seq(Things), NEW more \in Seq(Things),
         Ascending(before), Ascending(more),
         \A i \in DOMAIN before, k \in DOMAIN more : before[i].key < more[k].key
  PROVE  Joins(before \o more, before, more)
<1> DEFINE joined == before \o more
<1>1. /\ Len(before) \in Nat /\ Len(more) \in Nat /\ joined \in Seq(Things)
      /\ DOMAIN before = 1..Len(before) /\ DOMAIN more = 1..Len(more)
      /\ DOMAIN joined = 1..Len(before) + Len(more)
      /\ \A i \in DOMAIN joined :
           joined[i] = IF i <= Len(before) THEN before[i] ELSE more[i - Len(before)]
  OBVIOUS
<1>. HIDE DEF joined
<1>2. \A i \in DOMAIN joined : \/ i \in DOMAIN before /\ joined[i] = before[i]
                              \/ /\ i - Len(before) \in DOMAIN more /\ i > Len(before)
                                 /\ joined[i] = more[i - Len(before)]
  BY <1>1
<1>3. \A k \in DOMAIN before : \E i \in DOMAIN joined : joined[i] = before[k]
  <2>1. \A k \in DOMAIN before : k \in DOMAIN joined /\ joined[k] = before[k]
    BY <1>1
  <2>. QED  BY <2>1
<1>4. \A k \in DOMAIN more : \E i \in DOMAIN joined : joined[i] = more[k]
  <2>1. \A k \in DOMAIN more : k + Len(before) \in DOMAIN joined /\ joined[k + Len(before)] = more[k]
    BY <1>1
  <2>. QED  BY <2>1
<1>5. Ascending(joined)
  <2>1. SUFFICES ASSUME NEW i \in DOMAIN joined, NEW k \in DOMAIN joined, i < k
                 PROVE  joined[i].key < joined[k].key
    BY DEF Ascending
  <2>2. i \in Nat /\ k \in Nat  BY <1>1
  <2>3. CASE k \in DOMAIN before
    <3>1. i \in DOMAIN before /\ joined[i] = before[i] /\ joined[k] = before[k]
      BY <1>1, <2>1, <2>2, <2>3
    <3>. QED  BY <2>1, <2>3, <3>1 DEF Ascending
  <2>4. CASE k \notin DOMAIN before
    <3>1. k - Len(before) \in DOMAIN more /\ joined[k] = more[k - Len(before)]
      BY <1>2, <2>4
    <3>2. CASE i \in DOMAIN before
      <4>1. joined[i] = before[i]
        BY <1>1, <3>2
      <4>. QED  BY <3>1, <3>2, <4>1
    <3>3. CASE i \notin DOMAIN before
      <4>1. i - Len(before) \in DOMAIN more /\ joined[i] = more[i - Len(before)]
        BY <1>2, <3>3
      <4>2. i - Len(before) < k - Len(before)
        BY <1>1, <2>1, <2>2
      <4>. QED  BY <3>1, <4>1, <4>2 DEF Ascending
    <3>. QED  BY <3>2, <3>3
  <2>. QED  BY <2>3, <2>4
<1>6. \A i \in DOMAIN joined : \/ \E k \in DOMAIN before : joined[i] = before[k]
                              \/ \E k \in DOMAIN more : joined[i] = more[k]
  BY <1>2
<1>. QED  BY <1>1, <1>3, <1>4, <1>5, <1>6 DEF joined, Joins

(* What a page finds of the snapshot.                                      *)
LEMMA PageFinds ==
  ASSUME CollectInv, read.pc = "decode"
  PROVE  LET selected == Selected(Covered, read.job, read.snapshot)
         IN  /\ selected \in Seq(Kids)
             /\ \A i \in DOMAIN selected : /\ Own(selected[i])
                                           /\ selected[i].key \in Covered
             /\ Ascending(selected)
             /\ fanOut = 1 => AnswersFor(selected, Covered)
<1> DEFINE selected == Selected(Covered, read.job, read.snapshot)
<1>1. /\ read.snapshot \in Seq(Kids) /\ DOMAIN read.snapshot = DOMAIN manifest
      /\ \A i \in DOMAIN manifest :
           /\ read.snapshot[i].key = i /\ Own(read.snapshot[i])
           /\ fanOut = 1 => Exact(read.snapshot[i])
  BY DEF CollectInv, CollectType, Reader, SnapshotInv
<1>2. Covered \subseteq DOMAIN manifest
  <2>1. /\ manifest \in Seq([job : Jobs, outcome : Outcomes])
        /\ read.at \in Nat /\ read.limit \in Nat
    BY DEF CollectInv, CollectType, Reader
  <2>2. Len(manifest) \in Nat /\ DOMAIN manifest = 1..Len(manifest)
    BY <2>1, Elements
  <2>. QED  BY <2>1, <2>2 DEF Covered
<1>3. /\ selected \in Seq(Kids)
      /\ \A i \in DOMAIN selected :
           /\ selected[i].key \in DOMAIN manifest /\ selected[i] = read.snapshot[selected[i].key]
           /\ selected[i].key \in Covered /\ {selected[i].job} = read.job
      /\ \A key \in DOMAIN manifest : key \in Covered /\ {read.snapshot[key].job} = read.job =>
           \E i \in DOMAIN selected : selected[i].key = key
      /\ Ascending(selected)
  <2>1. \A i \in DOMAIN read.snapshot : read.snapshot[i].key = i
    BY <1>1
  <2>2. selected \in Seq(Kids) /\ Chosen(selected, read.snapshot, Covered, read.job)
    BY <1>1, <2>1, SelectedExact
  <2>. HIDE DEF selected
  <2>. QED  BY <1>1, <2>2 DEF Chosen
<1>. HIDE DEF selected
<1>4. \A i \in DOMAIN selected : Own(selected[i]) /\ (fanOut = 1 => Exact(selected[i]))
  BY <1>1, <1>3
<1>5. \A key \in DOMAIN manifest : read.snapshot[key].job = manifest[key].job
  BY <1>1 DEF Own
<1>6. {selected[i].key : i \in DOMAIN selected} = {key \in Covered : {manifest[key].job} = read.job}
  <2>1. ASSUME NEW i \in DOMAIN selected
        PROVE  selected[i].key \in Covered /\ {manifest[selected[i].key].job} = read.job
    BY <1>3, <1>5, <2>1
  <2>2. ASSUME NEW key \in Covered, {manifest[key].job} = read.job
        PROVE  \E i \in DOMAIN selected : selected[i].key = key
    BY <1>2, <1>3, <1>5, <2>2
  <2>. QED  BY <2>1, <2>2
<1>. QED  BY <1>3, <1>4, <1>6 DEF AnswersFor, selected
(* A page is read, and all goes on to the next.                            *)
LEMMA ReadPageStep ==
  ASSUME CollectInv, NEW ok \in BOOLEAN, NEW next \in Nat, ReadPage(ok, next)
  PROVE  CollectInv'
<1> DEFINE selected == Selected(Covered, read.job, read.snapshot)
           items == read.items \o selected
<1>1. /\ manifest \in Seq([job : Jobs, outcome : Outcomes]) /\ fanOut \in {1, 2}
      /\ read.at \in Nat /\ read.limit \in Nat /\ Len(manifest) \in Nat
      /\ DOMAIN manifest = 1..Len(manifest)
      /\ read.pc = "decode" /\ next \in NextCursors
      /\ UNCHANGED <<manifest, fanOut>> /\ cursors' \subseteq Nat
  BY Elements DEF CollectInv, CollectType, Reader, ReadPage, Reads
<1>2. /\ selected \in Seq(Kids)
      /\ \A i \in DOMAIN selected : Own(selected[i]) /\ selected[i].key \in Covered
      /\ Ascending(selected)
      /\ fanOut = 1 => AnswersFor(selected, Covered)
  BY <1>1, PageFinds
<1>3. CASE read' = [read EXCEPT !.pc = "failed"]
  <2>1. CollectType' /\ read'.pc = "failed" /\ read'.items = read.items
    BY <1>1, <1>3 DEF CollectInv, CollectType, Reader
  <2>2. \A i \in DOMAIN read'.items : Own(read.items[i])'
    BY <1>1, <2>1 DEF CollectInv, Own, Stored
  <2>. QED  BY <2>1, <2>2 DEF CollectInv, SnapshotInv, PagesInv
<1>4. CASE read' # [read EXCEPT !.pc = "failed"]
  <2> DEFINE to == IF read.all THEN NextPage(next) ELSE [read EXCEPT !.pc = "done"]
  <2>1. read' = [to EXCEPT !.items = items, !.snapshot = <<>>]
    BY <1>4 DEF ReadPage, Reads
  <2>. HIDE DEF selected
  <2>2. /\ items \in Seq(Kids) /\ \A i \in DOMAIN items : Own(items[i])
        /\ fanOut = 1 /\ read.all => AnswersFor(items, (1..read.at) \cup Covered)
        /\ fanOut = 1 /\ ~read.all => AnswersFor(items, Covered)
    <3>1. /\ read.items \in Seq(Kids) /\ \A i \in DOMAIN read.items : Own(read.items[i])
          /\ ~read.all => read.items = <<>>
          /\ fanOut = 1 /\ read.all => AnswersFor(read.items, 1..read.at)
      BY <1>1 DEF CollectInv, CollectType, Reader, PagesInv
    <3>2. CASE ~read.all
      <4>1. items = selected
        BY <1>2, <3>1, <3>2
      <4>. QED  BY <1>2, <3>2, <4>1
    <3>3. CASE read.all
      <4>1. items \in Seq(Kids)
        BY <1>2, <3>1
      <4>2. \A i \in DOMAIN items : \/ \E k \in DOMAIN read.items : items[i] = read.items[k]
                                    \/ \E k \in DOMAIN selected : items[i] = selected[k]
        <5>1. /\ Len(read.items) \in Nat /\ Len(selected) \in Nat
              /\ DOMAIN read.items = 1..Len(read.items) /\ DOMAIN selected = 1..Len(selected)
              /\ DOMAIN items = 1..Len(read.items) + Len(selected)
              /\ \A i \in DOMAIN items : items[i] = IF i <= Len(read.items) THEN read.items[i]
                                                    ELSE selected[i - Len(read.items)]
          BY <1>2, <3>1
        <5>. HIDE DEF items
        <5>2. \A i \in DOMAIN items : \/ i \in DOMAIN read.items /\ items[i] = read.items[i]
                                      \/ /\ i - Len(read.items) \in DOMAIN selected
                                         /\ items[i] = selected[i - Len(read.items)]
          BY <5>1
        <5>. QED  BY <5>2
      <4>3. \A i \in DOMAIN items : Own(items[i])
        <5>. HIDE DEF items
        <5>. QED  BY <1>2, <3>1, <4>2
      <4>4. ASSUME fanOut = 1 PROVE AnswersFor(items, (1..read.at) \cup Covered)
        <5>1. /\ AnswersFor(read.items, 1..read.at) /\ AnswersFor(selected, Covered)
          BY <1>2, <3>1, <3>3, <4>4
        <5>2. \A i \in DOMAIN read.items, k \in DOMAIN selected :
                read.items[i].key < selected[k].key
          <6>1. \A i \in DOMAIN read.items : read.items[i].key \in 1..read.at
            BY <5>1 DEF AnswersFor
          <6>2. \A k \in DOMAIN selected : selected[k].key \in Nat /\ selected[k].key > read.at
            BY <1>1, <1>2 DEF Covered
          <6>. QED  BY <1>1, <6>1, <6>2
        <5>3. /\ Ascending(items)
              /\ \A k \in DOMAIN read.items : \E i \in DOMAIN items : items[i] = read.items[k]
              /\ \A k \in DOMAIN selected : \E i \in DOMAIN items : items[i] = selected[k]
          <6>1. Ascending(read.items) /\ Ascending(selected)
            BY <5>1 DEF AnswersFor
          <6>2. Joins(items, read.items, selected)
            BY <1>2, <3>1, <5>2, <6>1, Joined
          <6>. HIDE DEF items
          <6>. QED  BY <6>2 DEF Joins
        <5>. HIDE DEF items
        <5>4. {items[i].key : i \in DOMAIN items} =
                {read.items[i].key : i \in DOMAIN read.items} \cup
                {selected[i].key : i \in DOMAIN selected}
          BY <4>2, <5>3
        <5>5. \A i \in DOMAIN items : Exact(items[i])
          BY <4>2, <5>1 DEF AnswersFor
        <5>. QED  BY <5>1, <5>3, <5>4, <5>5 DEF AnswersFor
      <4>. QED  BY <3>3, <4>1, <4>3, <4>4
    <3>. QED  BY <3>2, <3>3
  <2>. HIDE DEF items
  <2>3. read \in Reader
    BY DEF CollectInv, CollectType, Reader
  <2>6. <<>> \in Seq(Kids)
    OBVIOUS
  <2>4. CASE to = [read EXCEPT !.pc = "done"]
    <3>1. /\ read' = [read EXCEPT !.pc = "done", !.items = items, !.snapshot = <<>>]
          /\ read.all => next = 0
      BY <2>1, <2>3, <2>4 DEF NextPage, Reader
    <3>2. /\ read' \in Reader
          /\ read'.pc = "done" /\ read'.items = items /\ read'.all = read.all
          /\ read'.at = read.at /\ read'.limit = read.limit /\ read'.job = read.job
      BY <2>2, <2>3, <2>6, <3>1 DEF Reader
    <3>3. CollectType'
      BY <1>1, <3>2 DEF CollectInv, CollectType, Reader
    <3>4. read.all => (1..read.at) \cup Covered = DOMAIN manifest
      <4>1. read.all => read.at <= Len(manifest) /\ read.at + read.limit >= Len(manifest)
        BY <1>1, <3>1 DEF NextCursors, CollectInv, PagesInv
      <4>. QED  BY <1>1, <4>1 DEF Covered
    <3>5. fanOut = 1 => AnswersFor(items, IF read.all THEN DOMAIN manifest ELSE Covered)
      BY <2>2, <3>4
    <3>8. Covered' = Covered
      BY <1>1, <3>2 DEF Covered
    <3>6. fanOut' = 1 => AnswersFor(read.items, IF read.all THEN DOMAIN manifest ELSE Covered)'
      BY <1>1, <3>2, <3>5, <3>8 DEF AnswersFor, Exact, Ascending
    <3>7. \A i \in DOMAIN read'.items : Own(read.items[i])'
      BY <1>1, <2>2, <3>2 DEF Own, Stored
    <3>. QED  BY <3>2, <3>3, <3>6, <3>7 DEF CollectInv, SnapshotInv, PagesInv
  <2>5. CASE to # [read EXCEPT !.pc = "done"]
    <3>1. read.all /\ next # 0
      BY <2>5 DEF NextPage
    <3>2. read.at + read.limit < Len(manifest) /\ (read.at = 0 \/ read.at \in read.seen)
      BY <1>1, <3>1 DEF NextCursors, CollectInv, PagesInv
    <3>3. CASE next \in read.seen
      <4>1. to = [read EXCEPT !.pc = "failed"]
        BY <3>1, <3>3 DEF NextPage
      <4>2. read'.pc = "failed" /\ read'.items = items
            /\ read' \in Reader
        BY <2>1, <2>2, <2>3, <2>6, <4>1 DEF Reader
      <4>3. CollectType'
        BY <1>1, <4>2 DEF CollectInv, CollectType, Reader
      <4>4. \A i \in DOMAIN read'.items : Own(read.items[i])'
        BY <1>1, <2>2, <4>2 DEF Own, Stored
      <4>. QED  BY <4>2, <4>3, <4>4 DEF CollectInv, SnapshotInv, PagesInv
    <3>4. CASE next \notin read.seen
      <4>1. next = read.at + read.limit
        BY <1>1, <3>1, <3>2, <3>4 DEF NextCursors
      <4>2. to = [read EXCEPT !.pc = "page", !.seen = @ \cup {next}, !.at = next]
        BY <3>1, <3>4 DEF NextPage
      <4>3. /\ read' \in Reader
            /\ read'.pc = "page" /\ read'.items = items /\ read'.all = read.all
            /\ read'.at = next /\ read'.job = read.job /\ next \in read'.seen
        <5>. HIDE DEF to
        <5>1. /\ to \in Reader /\ to.pc = "page" /\ to.all = read.all /\ to.at = next
              /\ to.job = read.job /\ to.seen = read.seen \cup {next}
          BY <2>3, <4>2 DEF Reader
        <5>. QED  BY <2>1, <2>2, <2>6, <5>1 DEF Reader
      <4>4. CollectType'
        BY <1>1, <4>3 DEF CollectInv, CollectType, Reader
      <4>5. (1..read.at) \cup Covered = 1..next /\ next <= Len(manifest)
        BY <1>1, <3>2, <4>1 DEF Covered
      <4>6. fanOut = 1 => AnswersFor(items, 1..next)
        BY <2>2, <3>1, <4>5
      <4>7. fanOut' = 1 => AnswersFor(read.items, 1..read.at)'
        BY <1>1, <4>3, <4>6 DEF AnswersFor, Exact, Ascending
      <4>8. PagesInv'
        BY <1>1, <3>1, <4>3, <4>5, <4>7 DEF PagesInv
      <4>9. \A i \in DOMAIN read'.items : Own(read.items[i])'
        BY <1>1, <2>2, <4>3 DEF Own, Stored
      <4>. QED  BY <4>3, <4>4, <4>8, <4>9 DEF CollectInv, SnapshotInv
    <3>. QED  BY <3>3, <3>4
  <2>. QED  BY <2>4, <2>5
<1>. QED  BY <1>3, <1>4

(* Every step of the reader keeps the invariant.                           *)
LEMMA CollectStep ==
  ASSUME CollectInv, FlowNext
  PROVE  CollectInv'
<1>1. CASE UNCHANGED <<manifest, fanOut, read, cursors>>
  BY <1>1, CollectKept
<1>2. ASSUME NEW job \in Jobs, NEW max \in 0..MaxChildren + 1, StartAll(job, max)
      PROVE  CollectInv'
  <2>1. max \in Nat /\ Batch \in Nat
    BY FlowReadsAssumption
  <2>2. /\ read' = [NoRead EXCEPT !.pc = "page", !.all = TRUE, !.job = {job}, !.max = max,
                                 !.limit = Batch]
        /\ fanOut # 0 /\ UNCHANGED <<manifest, fanOut, cursors>>
    BY <1>2 DEF StartAll, Reads
  <2>3. read' \in Reader /\ read'.pc = "page" /\ read'.items = <<>> /\ read'.at = 0
    BY <2>1, <2>2, NothingRead DEF Reader
  <2>. QED  BY <2>2, <2>3, StartsReading
<1>3. ASSUME NEW job \in Jobs, NEW at \in 0..MaxChildren, NEW limit \in 1..MaxChildren,
             StartPage(job, at, limit)
      PROVE  CollectInv'
  <2>1. at \in Nat /\ limit \in Nat /\ 0 \in Nat
    BY FlowReadsAssumption
  <2>2. /\ read' = [NoRead EXCEPT !.pc = "page", !.job = {job}, !.limit = limit, !.at = at]
        /\ fanOut # 0 /\ UNCHANGED <<manifest, fanOut, cursors>>
    BY <1>3 DEF StartPage, Reads
  <2>3. read' \in Reader /\ read'.pc = "page" /\ read'.items = <<>> /\ ~read'.all
    BY <2>1, <2>2, NothingRead DEF Reader
  <2>. QED  BY <2>2, <2>3, StartsReading
<1>4. CASE Snapshot
  BY <1>4, SnapshotStep
<1>5. CASE \E ok \in BOOLEAN : Restore(ok)
  BY <1>5, RestoreStep
<1>6. CASE \E ok \in BOOLEAN, next \in 0..MaxChildren : ReadPage(ok, next)
  <2>1. 0..MaxChildren \subseteq Nat
    BY FlowReadsAssumption
  <2>. QED  BY <1>6, <2>1, ReadPageStep
<1>7. CASE ReadAgain
  <2>1. read' = NoRead /\ fanOut # 0 /\ UNCHANGED <<manifest, fanOut, cursors>>
    BY <1>7 DEF ReadAgain, Reads, CollectInv, CollectType, Reader
  <2>. QED  BY <2>1, NothingRead DEF CollectInv, CollectType, Reader, SnapshotInv, PagesInv
<1>8. CASE Replaced
  BY <1>8, ReplacedStep
<1>9. \/ UNCHANGED <<manifest, fanOut, read, cursors>>
      \/ \E job \in Jobs, max \in 0..MaxChildren + 1 : StartAll(job, max)
      \/ \E job \in Jobs, at \in 0..MaxChildren, limit \in 1..MaxChildren :
           StartPage(job, at, limit)
      \/ Snapshot
      \/ \E ok \in BOOLEAN : Restore(ok)
      \/ \E ok \in BOOLEAN, next \in 0..MaxChildren : ReadPage(ok, next)
      \/ ReadAgain \/ Replaced
  <2>1. ASSUME NEW route \in Routes, NEW ok \in BOOLEAN, Recover(route, ok)
        PROVE  UNCHANGED <<manifest, fanOut, read, cursors>>
    BY <2>1 DEF Recover
  <2>2. ASSUME NEW p, NEW parent, Elsewhere(p, parent)
        PROVE  UNCHANGED <<manifest, fanOut, read, cursors>>
    BY <2>2 DEF Elsewhere
  <2>. QED  BY <2>1, <2>2 DEF FlowNext
<1>. QED  BY <1>1, <1>2, <1>3, <1>4, <1>5, <1>6, <1>7, <1>8, <1>9

(* Nothing else is answered than what was collected.                       *)
LEMMA Collected == CollectInv => CollectExact
<1>1. SUFFICES ASSUME CollectInv, read.pc = "done" PROVE CollectExact
  BY DEF CollectExact
<1>2. \A i \in DOMAIN read.items :
        read.items[i].outcome \in {Stored(read.items[i].fanOut)[read.items[i].key].outcome, "missing"}
  BY <1>1 DEF CollectInv, Own
<1>3. fanOut = 1 => AnswersFor(read.items, IF read.all THEN DOMAIN manifest ELSE Covered)
  BY <1>1 DEF CollectInv
<1>. QED  BY <1>2, <1>3 DEF CollectExact, AnswersFor, Ascending, Exact

(* The answers are exact, page by page, in every reachable state.          *)
THEOREM CollectInvariant == DeliverySpec => []CollectInv
<1>1. DeliveryInit => CollectInv
  <2>1. SUFFICES ASSUME FlowInit PROVE CollectInv  BY DEF DeliveryInit
  <2>2. <<>> \in Seq([job : Jobs, outcome : Outcomes])  OBVIOUS
  <2>. QED
    BY <2>1, <2>2, NothingRead DEF FlowInit, CollectInv, CollectType, SnapshotInv, PagesInv
<1>2. CollectInv /\ [DeliveryNext]_allVars => CollectInv'
  <2>1. SUFFICES ASSUME CollectInv, [DeliveryNext]_allVars PROVE CollectInv'  OBVIOUS
  <2>2. CASE Collection
    BY <2>1, <2>2, CollectsStep DEF Collection
  <2>3. CASE FlowNext
    BY <2>1, <2>3, CollectStep
  <2>4. CASE UNCHANGED <<manifest, fanOut, read, cursors>>
    BY <2>1, <2>4, CollectKept
  <2>5. OnlyJob(JobNext) \/ Recovery \/ (Calling /\ UNCHANGED flowVars) \/ UNCHANGED allVars =>
          UNCHANGED <<manifest, fanOut, read, cursors>>
    BY DEF OnlyJob, Recovery, Activate, allVars, flowVars
  <2>. QED  BY <2>1, <2>2, <2>3, <2>4, <2>5 DEF DeliveryNext, Reading
<1>. QED  BY <1>1, <1>2, PTL DEF DeliverySpec

(* Every parent left behind is recovered, no other flow's, and what all    *)
(* and page answer are the children that were asked for, each once, in     *)
(* their order and with the outcome that is stored; of a flow that is      *)
(* replaced meanwhile, no child has another one's outcome.                 *)
THEOREM FlowReadsExactCorrect == DeliverySpec => []FlowReadsExact
<1>1. CollectInv /\ SeedsExact => FlowReadsExact
  BY Collected DEF FlowReadsExact
<1>. QED  BY <1>1, CollectInvariant, SeedsExactCorrect, PTL

(* The parts of the invariant hold together in every reachable state.      *)
THEOREM Invariant == DeliverySpec => []IInv
<1>1. InvocationInv /\ JobInv /\ CallInv /\ SeedInv /\ CollectInv => IInv
  BY DEF IInv
<1>. QED
  BY <1>1, IsInvocation, InvocationInvariant, JobInvariant, CallInvariant, SeedInvariant,
     CollectInvariant, PTL
=============================================================================
