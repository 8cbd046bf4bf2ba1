---------------------------- MODULE StartupProofs ----------------------------
(***************************************************************************)
(* Proofs about a start and a stop, for any connections, clients, classes  *)
(* and options: what an accepted assembly guarantees, which handles are    *)
(* held and closed, and that no sick client goes back to its pool.         *)
(***************************************************************************)
EXTENDS Startup, FiniteSetTheorems, WellFoundedInduction, TLAPS

-----------------------------------------------------------------------------
(* Numbers.                                                                *)

(* A set of numbers that is not empty has a least element.                 *)
LEMMA LeastNumber ==
  ASSUME NEW S, S \subseteq Nat, S # {}
  PROVE  \E n \in S : \A m \in S : n <= m
<1> DEFINE Below == {0..n : n \in S}
<1>1. Below \subseteq FiniteSubsetsOf(Nat) /\ Below # {}
  <2>1. ASSUME NEW n \in S PROVE 0..n \in FiniteSubsetsOf(Nat)
    <3>1. IsFiniteSet(0..n)
      BY FS_Interval
    <3>2. 0..n \subseteq Nat
      OBVIOUS
    <3> QED BY <3>1, <3>2 DEF FiniteSubsetsOf
  <2> QED BY <2>1
<1>2. IsWellFoundedOn(StrictSubsetOrdering(Nat), FiniteSubsetsOf(Nat))
  BY FS_StrictSubsetOrderingWellFounded
<1> HIDE DEF Below
<1>3. PICK least \in Below : \A other \in Below : <<other, least>> \notin StrictSubsetOrdering(Nat)
  BY <1>1, <1>2, WFMin
<1>4. PICK n \in S : least = 0..n
  BY DEF Below
<1>5. ASSUME NEW m \in S, ~(n <= m) PROVE FALSE
  <2>1. 0..m \in Below
    BY DEF Below
  <2>2. 0..m \subseteq 0..n /\ 0..m # 0..n /\ 0..n \subseteq Nat
    <3>1. n \in 0..n /\ n \notin 0..m
      BY <1>5
    <3> QED BY <1>5, <3>1
  <2>3. <<0..m, 0..n>> \in StrictSubsetOrdering(Nat)
    BY <2>2 DEF StrictSubsetOrdering
  <2> QED BY <1>3, <1>4, <2>1, <2>3
<1> QED BY <1>5

(* A bounded one has a greatest.                                           *)
LEMMA LastNumber ==
  ASSUME NEW N \in Nat, NEW S \in SUBSET (1..N), S # {}
  PROVE  \E n \in S : \A m \in S : m <= n
<1> DEFINE T == {N - n : n \in S}
<1>1. T \subseteq Nat /\ T # {}
  <2>1. ASSUME NEW n \in S PROVE N - n \in Nat
    OBVIOUS
  <2> QED BY <2>1
<1>2. PICK t \in T : \A u \in T : t <= u
  <2> HIDE DEF T
  <2> QED BY <1>1, LeastNumber
<1>3. PICK n \in S : t = N - n
  OBVIOUS
<1>4. ASSUME NEW m \in S PROVE m <= n
  <2>1. N - m \in T
    OBVIOUS
  <2>2. N - n <= N - m
    BY <1>2, <1>3, <2>1
  <2> QED BY <2>2
<1> QED BY <1>4

-----------------------------------------------------------------------------
(* Flows that start flows.                                                 *)

(* The recursion of visit has a solution: the largest set of paths and     *)
(* flows that end.                                                         *)
Ending(V, flows, path, flow) ==
  /\ flow.name \notin path
  /\ \A nested \in flows :
       nested.parent \in flow.children => <<path \cup {flow.name}, nested>> \in V

(* The flows that end, found path by path.                                 *)
LEMMA VisitingUnfolds ==
  ASSUME NEW flows
  PROVE  \A path \in SUBSET {f.name : f \in flows} :
           Visiting(flows)[path] =
             {flow \in flows :
                /\ flow.name \notin path
                /\ \A nested \in flows : nested.parent \in flow.children =>
                     nested \in Visiting(flows)[path \cup {flow.name}]}
<1> DEFINE Paths == SUBSET {f.name : f \in flows}
           Holds(V) == \A path \in Paths, flow \in flows :
                          <<path, flow>> \in V => Ending(V, flows, path, flow)
           Largest == UNION {V \in SUBSET (Paths \X flows) : Holds(V)}
           Rec(v) == [path \in Paths |->
                        {flow \in flows :
                           /\ flow.name \notin path
                           /\ \A nested \in flows : nested.parent \in flow.children =>
                                nested \in v[path \cup {flow.name}]}]
<1>1. Holds(Largest)
  <2> SUFFICES ASSUME NEW path \in Paths, NEW flow \in flows, <<path, flow>> \in Largest
               PROVE  Ending(Largest, flows, path, flow)
    OBVIOUS
  <2>1. PICK V \in SUBSET (Paths \X flows) : Holds(V) /\ <<path, flow>> \in V
    OBVIOUS
  <2>2. Ending(V, flows, path, flow)
    BY <2>1
  <2>3. V \subseteq Largest
    BY <2>1
  <2> QED BY <2>2, <2>3 DEF Ending
<1>2. ASSUME NEW path \in Paths, NEW flow \in flows, Ending(Largest, flows, path, flow)
      PROVE  <<path, flow>> \in Largest
  <2> DEFINE More == Largest \cup {<<path, flow>>}
  <2>1. More \in SUBSET (Paths \X flows)
    OBVIOUS
  <2>2. Holds(More)
    <3> SUFFICES ASSUME NEW p \in Paths, NEW f \in flows, <<p, f>> \in More
                 PROVE  Ending(More, flows, p, f)
      OBVIOUS
    <3>1. Ending(Largest, flows, p, f)
      <4> HIDE DEF Largest
      <4> QED BY <1>1, <1>2
    <3>2. Largest \subseteq More
      OBVIOUS
    <3> QED BY <3>1, <3>2 DEF Ending
  <2>3. \A V \in SUBSET (Paths \X flows) : Holds(V) => V \subseteq Largest
    OBVIOUS
  <2>4. <<path, flow>> \in More
    OBVIOUS
  <2> HIDE DEF More, Largest, Holds, Paths
  <2> QED BY <2>1, <2>2, <2>3, <2>4
<1> DEFINE ends == [path \in Paths |-> {flow \in flows : <<path, flow>> \in Largest}]
<1>3. ends = Rec(ends)
  <2>1. ASSUME NEW path \in Paths
        PROVE  ends[path] = Rec(ends)[path]
    <3>1. ASSUME NEW flow \in flows
          PROVE  flow \in ends[path] <=> flow \in Rec(ends)[path]
      <4>1. path \cup {flow.name} \in Paths
        OBVIOUS
      <4>2. \A nested \in flows :
              nested \in ends[path \cup {flow.name}] <=> <<path \cup {flow.name}, nested>> \in Largest
        BY <4>1
      <4>3. flow \in Rec(ends)[path] <=> Ending(Largest, flows, path, flow)
        BY <4>2 DEF Ending
      <4> HIDE DEF Largest
      <4>4. flow \in ends[path] <=> <<path, flow>> \in Largest
        OBVIOUS
      <4> QED BY <1>1, <1>2, <4>3, <4>4
    <3> QED BY <3>1
  <2> QED BY <2>1
<1> HIDE DEF ends
<1>4. Visiting(flows) = CHOOSE v : v = Rec(v)
  BY DEF Visiting
<1>5. Visiting(flows) = Rec(Visiting(flows))
  <2> HIDE DEF Rec
  <2> QED BY <1>3, <1>4
<1> HIDE DEF Paths
<1>6. \A path \in Paths : Visiting(flows)[path] = Rec(Visiting(flows))[path]
  BY <1>5
<1> QED BY <1>6 DEF Paths

(* When every visit ends, nothing nests in a circle: among the flows of    *)
(* any set that a visit can reach, those of the longest path start none of *)
(* the others.                                                             *)
LEMMA VisitsEnd ==
  ASSUME NEW flows, IsFiniteSet({f.name : f \in flows}), \A f \in flows : Visit(f, {}, flows),
         NEW some \in SUBSET flows, some # {}
  PROVE  \E f \in some : \A g \in some : g.parent \notin f.children
<1> DEFINE names == {f.name : f \in flows}
           Left == {names \ path : path \in {p \in SUBSET names :
                      \E f \in some : f \in Visiting(flows)[p]}}
<1>0. \A path \in SUBSET names :
        Visiting(flows)[path] =
          {flow \in flows :
             /\ flow.name \notin path
             /\ \A nested \in flows : nested.parent \in flow.children =>
                  nested \in Visiting(flows)[path \cup {flow.name}]}
  BY VisitingUnfolds
<1> SUFFICES ASSUME \A f \in some : \E g \in some : g.parent \in f.children PROVE FALSE
  OBVIOUS
<1>1. Left \subseteq FiniteSubsetsOf(names)
  <2>1. \A T \in SUBSET names : IsFiniteSet(T)
    BY FS_Subset
  <2> QED BY <2>1 DEF FiniteSubsetsOf
<1>2. Left # {}
  <2>1. PICK f \in some : TRUE
    OBVIOUS
  <2>2. f \in Visiting(flows)[{}]
    BY DEF Visit
  <2>3. names \ {} \in Left
    BY <2>2
  <2> QED BY <2>3
<1>3. IsWellFoundedOn(StrictSubsetOrdering(names), FiniteSubsetsOf(names))
  BY FS_StrictSubsetOrderingWellFounded
<1>4. PICK least \in Left : \A other \in Left : <<other, least>> \notin StrictSubsetOrdering(names)
  <2> HIDE DEF Left, names
  <2> QED BY <1>1, <1>2, <1>3, WFMin
<1>5. PICK path \in SUBSET names, f \in some : least = names \ path /\ f \in Visiting(flows)[path]
  OBVIOUS
<1>6. /\ f.name \notin path /\ f.name \in names
      /\ \A nested \in flows : nested.parent \in f.children =>
           nested \in Visiting(flows)[path \cup {f.name}]
  BY <1>0, <1>5
<1>7. PICK g \in some : g \in Visiting(flows)[path \cup {f.name}]
  BY <1>6
<1>8. names \ (path \cup {f.name}) \in Left
  BY <1>6, <1>7
<1>9. <<names \ (path \cup {f.name}), least>> \in StrictSubsetOrdering(names)
  <2> HIDE DEF names
  <2> QED BY <1>5, <1>6 DEF StrictSubsetOrdering
<1> QED BY <1>4, <1>8, <1>9

-----------------------------------------------------------------------------

(* What is chosen of a set is in it.                                       *)
LEMMA OnlyIn == \A S : S # {} => Only(S) \in S
BY DEF Only

(* A compiled flow starts from a registered job of its declaration, and    *)
(* starts registered jobs.                                                 *)
LEMMA CompiledFlow ==
  ASSUME NEW d, NEW jobs, NEW flow \in CompileFlow(d, jobs)
  PROVE  /\ flow.name = d.name /\ flow.owner = d.owner
         /\ flow.parent \in jobs /\ flow.parent.contract = d.parent
         /\ flow.children \subseteq jobs
         /\ CompileFlow(d, jobs) = {flow}
<1> DEFINE parent == ResolveFlowReference(d.parent, jobs)
           children == UNION {ResolveFlowReference(c, jobs) : c \in d.children}
           compiled == [name |-> d.name, owner |-> d.owner, parent |-> Only(parent),
                        children |-> children]
<1>1. parent # {} /\ CompileFlow(d, jobs) = {compiled}
  <2> HIDE DEF parent, children
  <2>1. \/ CompileFlow(d, jobs) = {}
        \/ parent # {} /\ CompileFlow(d, jobs) = {compiled}
    BY DEF CompileFlow, parent, children
  <2> QED BY <2>1
<1>2. Only(parent) \in jobs /\ Only(parent).contract = d.parent
  BY <1>1, OnlyIn DEF ResolveFlowReference
<1>3. flow = compiled
  <2> HIDE DEF parent, compiled
  <2> QED BY <1>1
<1>4. children \subseteq jobs
  BY DEF ResolveFlowReference
<1> HIDE DEF parent, children
<1> QED BY <1>1, <1>2, <1>3, <1>4

(* Discovered flows end: following one never comes back to it.             *)
LEMMA FlowsDiscovered ==
  ASSUME NEW declared, IsFiniteSet(declared), NEW jobs, NEW flows \in DiscoverFlows(declared, jobs)
  PROVE  /\ \A f \in flows : f.parent \in jobs /\ f.children \subseteq jobs
         /\ \A f, g \in flows : f.parent = g.parent => f = g
         /\ \A some \in (SUBSET flows) \ {{}} :
              \E f \in some : \A g \in some : g.parent \notin f.children
<1>1. /\ flows = UNION {CompileFlow(d, jobs) : d \in declared}
      /\ \A f \in flows : Visit(f, {}, flows)
      /\ \A d, e \in declared : d.parent = e.parent => d = e
  BY DEF DiscoverFlows
<1>2. ASSUME NEW f \in flows
      PROVE  \E d \in declared : f \in CompileFlow(d, jobs)
  BY <1>1
<1>3. \A f \in flows : f.parent \in jobs /\ f.children \subseteq jobs
  BY <1>2, CompiledFlow
<1>4. ASSUME NEW f \in flows, NEW g \in flows, f.parent = g.parent
      PROVE  f = g
  <2>1. PICK d \in declared : f \in CompileFlow(d, jobs)
    BY <1>2
  <2>2. PICK e \in declared : g \in CompileFlow(e, jobs)
    BY <1>2
  <2>3. d = e
    BY <1>1, <1>4, <2>1, <2>2, CompiledFlow
  <2> QED BY <2>1, <2>2, <2>3, CompiledFlow
<1>5. IsFiniteSet({f.name : f \in flows})
  <2> DEFINE Name == [d \in declared |-> d.name]
  <2>1. Name \in Surjection(declared, {d.name : d \in declared})
    BY DEF Surjection
  <2>2. IsFiniteSet({d.name : d \in declared})
    BY <2>1, FS_Surjection
  <2>3. {f.name : f \in flows} \in SUBSET {d.name : d \in declared}
    BY <1>2, CompiledFlow
  <2> QED BY <2>2, <2>3, FS_Subset
<1>6. \A some \in (SUBSET flows) \ {{}} :
        \E f \in some : \A g \in some : g.parent \notin f.children
  BY <1>1, <1>5, VisitsEnd
<1> QED BY <1>3, <1>4, <1>6

-----------------------------------------------------------------------------
(* Workers: the jobs a worker processes and the ones it has by its flows.  *)

Processed(worker, jobs) == {j \in jobs : \E h \in Handlers(worker) : h[2] = j.contract}
Parents(worker, flows) == {f.parent : f \in {f \in flows : f.owner = worker.class}}
Routes(worker, jobs, flows) == Processed(worker, jobs) \cup Parents(worker, flows)

(* What no accepted workers fail.                                          *)
LEMMA WorkersAccepted ==
  ASSUME NEW workers, NEW jobs, NEW flows, NEW retries,
         NEW plans \in DiscoverWorkers(workers, jobs, flows, retries)
  PROVE  /\ \A w \in workers : Handlers(w) # {} => w.name # {}
         /\ \A w, v \in workers : \A h \in Handlers(w), g \in Handlers(v) :
              h[2] = g[2] => w = v /\ h = g
         /\ \A w \in workers : \A h \in Handlers(w) :
              /\ \A f \in flows : h[2] # f.parent.contract
              /\ ParameterMetadata(w.chain, h[1])
         /\ \A p \in plans : \E w \in workers :
              /\ p = [name |-> w.name, routes |-> Routes(w, jobs, flows)]
              /\ \A j, k \in p.routes : j.queue = k.queue /\ j.name = k.name => j = k
              /\ \A j \in p.routes : Require(j, retries)
<1> DEFINE declared == {w \in workers : w.name # {}}
<1>1. /\ \A w \in workers : w.name = {} => Handlers(w) = {}
      /\ \A w, v \in declared : \A h \in Handlers(w), g \in Handlers(v) :
           ~ProcessedTwice(w, h, v, g)
      /\ \A w \in declared : \A h \in Handlers(w) :
           h[2] \notin {f.parent.contract : f \in flows} /\ ParameterMetadata(w.chain, h[1])
      /\ \A w \in declared : \A j \in Processed(w, jobs) \cup Parents(w, flows) :
           Require(j, retries)
      /\ plans = UNION {CompileWorker(w, Processed(w, jobs), flows) : w \in declared}
  BY DEF DiscoverWorkers, Processed, Parents
<1>2. \A w \in workers : Handlers(w) # {} => w \in declared
  BY <1>1
<1>3. ASSUME NEW w \in workers, NEW v \in workers, NEW h \in Handlers(w), NEW g \in Handlers(v),
             h[2] = g[2]
      PROVE  w = v /\ h = g
  <2>1. w \in declared /\ v \in declared
    BY <1>2
  <2>2. ~ProcessedTwice(w, h, v, g)
    BY <1>1, <2>1
  <2> QED BY <1>3, <2>2 DEF ProcessedTwice
<1>4. ASSUME NEW w \in workers, NEW h \in Handlers(w)
      PROVE  (\A f \in flows : h[2] # f.parent.contract) /\ ParameterMetadata(w.chain, h[1])
  <2>1. w \in declared
    BY <1>2
  <2> QED BY <1>1, <2>1
<1>5. ASSUME NEW p \in plans
      PROVE  \E w \in workers :
               /\ p = [name |-> w.name, routes |-> Routes(w, jobs, flows)]
               /\ \A j, k \in p.routes : j.queue = k.queue /\ j.name = k.name => j = k
               /\ \A j \in p.routes : Require(j, retries)
  <2>1. PICK w \in declared : p \in CompileWorker(w, Processed(w, jobs), flows)
    BY <1>1
  <2>2. /\ p = [name |-> w.name, routes |-> Routes(w, jobs, flows)]
        /\ \A j, k \in Routes(w, jobs, flows) : j.queue = k.queue /\ j.name = k.name => j = k
    BY <2>1 DEF CompileWorker, Routes, Parents
  <2>3. p.routes = Routes(w, jobs, flows)
    BY <2>2
  <2>4. \A j \in p.routes : Require(j, retries)
    BY <1>1, <2>3 DEF Routes
  <2> QED BY <2>2, <2>3, <2>4
<1> QED BY <1>2, <1>3, <1>4, <1>5

(* A job is on the routes of one plan only.                                *)
LEMMA RoutesDiscovered ==
  ASSUME NEW workers, \A w, v \in workers : w.class = v.class => w = v,
         NEW jobs, NEW flows, \A f, g \in flows : f.parent = g.parent => f = g, NEW retries,
         NEW plans \in DiscoverWorkers(workers, jobs, flows, retries),
         NEW j \in UNION {p.routes : p \in plans}
  PROVE  Cardinality({p \in plans : j \in p.routes}) = 1
<1>1. PICK p \in plans : j \in p.routes
  OBVIOUS
<1>2. ASSUME NEW q \in plans, j \in q.routes PROVE q = p
  <2>1. PICK w \in workers : p = [name |-> w.name, routes |-> Routes(w, jobs, flows)]
    BY WorkersAccepted
  <2>2. PICK v \in workers : q = [name |-> v.name, routes |-> Routes(v, jobs, flows)]
    BY WorkersAccepted
  <2>3. j \in Routes(w, jobs, flows) /\ j \in Routes(v, jobs, flows)
    BY <1>1, <1>2, <2>1, <2>2
  <2>4. w = v
    <3>1. CASE j \in Processed(w, jobs) /\ j \in Processed(v, jobs)
      BY <3>1, WorkersAccepted DEF Processed
    <3>2. CASE j \in Parents(w, flows) /\ j \in Parents(v, flows)
      BY <3>2 DEF Parents
    <3>3. ASSUME NEW u \in workers, NEW x \in workers,
                 j \in Processed(u, jobs), j \in Parents(x, flows)
          PROVE  FALSE
      BY <3>3, WorkersAccepted DEF Processed, Parents
    <3> QED BY <2>3, <3>1, <3>2, <3>3 DEF Routes
  <2> QED BY <2>1, <2>2, <2>4
<1>3. {q \in plans : j \in q.routes} = {p}
  BY <1>1, <1>2
<1> QED BY <1>3, FS_Singleton

(* The parameters are those of the method that is called: the last class   *)
(* of the chain that has it.                                               *)
LEMMA ParametersCalled ==
  ASSUME NEW chain, Len(chain) \in Nat, DOMAIN chain = 1..Len(chain), NEW method,
         ParameterMetadata(chain, method)
  PROVE  LET called == CHOOSE i \in DOMAIN chain :
                         /\ method \in DOMAIN chain[i]
                         /\ \A l \in i+1..Len(chain) : method \notin DOMAIN chain[l]
         IN  chain[called][method].annotated = TRUE
<1> DEFINE Declared == [i \in DOMAIN chain |->
                          IF method \in DOMAIN chain[i] THEN {chain[i][method].annotated} ELSE {}]
           levels == {i \in DOMAIN Declared : Declared[i] # {}}
           called == CHOOSE i \in DOMAIN chain :
                       /\ method \in DOMAIN chain[i]
                       /\ \A l \in i+1..Len(chain) : method \notin DOMAIN chain[l]
<1>1. Inherited(Declared) = {TRUE}
  BY DEF ParameterMetadata
<1>2. /\ levels = {i \in DOMAIN chain : method \in DOMAIN chain[i]}
      /\ \A i \in levels : Declared[i] = {chain[i][method].annotated}
  OBVIOUS
<1>3. /\ levels # {}
      /\ Declared[CHOOSE i \in levels : \A l \in levels : l <= i] = {TRUE}
  <2> HIDE DEF Declared
  <2> QED BY <1>1 DEF Inherited
<1>4. PICK last \in levels : \A l \in levels : l <= last
  <2>1. levels \in SUBSET (1..Len(chain))
    BY <1>2
  <2> HIDE DEF levels
  <2> QED BY <1>3, <2>1, LastNumber
<1>5. (CHOOSE i \in levels : \A l \in levels : l <= i) = last
  <2>1. ASSUME NEW i \in levels, \A l \in levels : l <= i PROVE i = last
    BY <1>2, <1>4, <2>1
  <2> HIDE DEF levels
  <2> QED BY <1>4, <2>1
<1>6. called = last
  <2>1. /\ last \in DOMAIN chain /\ method \in DOMAIN chain[last]
        /\ \A l \in last+1..Len(chain) : method \notin DOMAIN chain[l]
    <3>1. \A l \in last+1..Len(chain) : l \in DOMAIN chain /\ ~(l <= last)
      BY <1>2, <1>4
    <3> QED BY <1>2, <1>4, <3>1
  <2>2. ASSUME NEW i \in DOMAIN chain, method \in DOMAIN chain[i],
               \A l \in i+1..Len(chain) : method \notin DOMAIN chain[l]
        PROVE  i = last
    <3>1. i \in levels /\ i <= last
      BY <1>2, <1>4, <2>2
    <3>2. last \notin i+1..Len(chain)
      BY <2>1, <2>2
    <3> QED BY <1>2, <3>1, <3>2
  <2> QED BY <2>1, <2>2
<1>7. {chain[last][method].annotated} = {TRUE}
  BY <1>2, <1>3, <1>4, <1>5
<1> QED BY <1>6, <1>7

-----------------------------------------------------------------------------
(* What an engine holds.                                                   *)

(* Each pool's clients; an idle one has answered.                          *)
ClientInv ==
  /\ client \in [Handles -> [Clients -> [use : {"absent", "idle", "query"}, owed : BOOLEAN]]]
  /\ NoSickClient

(* The session and the tool.                                               *)
PcInv ==
  /\ session \in [pc : {"configure", "open", "setup", "runtime", "probe", "ready",
                        "dispose", "release", "end", "closed"},
                  stop : BOOLEAN, runtime : {"none", "live", "disposed"}]
  /\ session.runtime = "live" => session.pc \in {"probe", "ready", "dispose"}
  /\ session.pc \in {"configure", "open", "setup"} => session.runtime = "none"
  /\ tool \in [handle : {"none", "open", "closed", "stuck"}, told : {"none", "ok", "error"}]
  /\ tool.told # "none" => tool.handle # "open"

(* A handle is only held for a configured connection that owns it, as long *)
(* as that is acquired, or being so.                                       *)
HandleInv ==
  /\ handle \in [Handles -> {"none", "open", "closed"}] /\ handle[0] = "open"
  /\ DOMAIN config \subseteq Conns /\ acquired \subseteq DOMAIN config
  /\ session.pc = "configure" => config = <<>>
  /\ \A n \in Conns : handle[n] # "none" => n \in DOMAIN config /\ config[n].owned
  /\ \A n \in acquired : config[n].owned => handle[n] = "open"
  /\ session.pc = "setup" => \A n \in NextToAcquire : config[n].owned => handle[n] = "open"
  /\ \A n \in Conns : handle[n] = "open" =>
       n \in stuck \/ n \in acquired \/ (session.pc = "setup" /\ n \in NextToAcquire)
  /\ session.pc = "closed" => acquired = {}

(* A runtime is made when all is there that it needs.                      *)
NeedInv ==
  /\ session.pc \in {"open", "setup"} => needs.queues \subseteq DOMAIN config
  /\ session.runtime = "live" =>
       /\ acquired = DOMAIN config
       /\ needs.queues \cup needs.flows \cup needs.schedules \subseteq DOMAIN config
       /\ \A n \in needs.flows : config[n].flows
       /\ \A n \in needs.schedules : config[n].schedules

ConnInv == ClientInv /\ PcInv /\ HandleInv /\ NeedInv

(* The invariant of the handles shows HandlesHeld.                         *)
LEMMA HandlesHeldBy == ConnInv => HandlesHeld
<1> SUFFICES ASSUME ConnInv PROVE HandlesHeld
  OBVIOUS
<1>1. ReadyServes
  <2> SUFFICES ASSUME session.runtime = "live" PROVE ReadyServes
    BY DEF ReadyServes
  <2>1. \A n \in DOMAIN config : handle[Handle(n)] = "open"
    BY DEF ConnInv, HandleInv, NeedInv, Handle
  <2> QED BY <2>1 DEF ConnInv, NeedInv, ReadyServes
<1>2. HandlesClosed
  <2>1. ASSUME session.pc = "closed", NEW n \in Conns, handle[n] = "open" PROVE n \in stuck
    BY <2>1 DEF ConnInv, HandleInv
  <2>2. ASSUME NEW n \in Conns, handle[n] = "closed", session.runtime = "live" PROVE FALSE
    BY <2>2 DEF ConnInv, HandleInv, NeedInv
  <2> QED BY <2>1, <2>2 DEF ConnInv, HandleInv, PcInv, HandlesClosed
<1> QED BY <1>1, <1>2 DEF HandlesHeld

(* The connections are numbers, so that at most one is next.               *)
LEMMA OneNext ==
  ASSUME DOMAIN config \subseteq Conns, NEW m \in NextToAcquire, NEW n \in NextToAcquire
  PROVE  m = n
<1>1. m \in Nat /\ n \in Nat
  BY ConnsAssumption DEF NextToAcquire
<1>2. m <= n /\ n <= m
  BY DEF NextToAcquire
<1> QED BY <1>1, <1>2

(* As long as something is not acquired, something is next.                *)
LEMMA AllAcquired ==
  ASSUME DOMAIN config \subseteq Conns, acquired \subseteq DOMAIN config, NextToAcquire = {}
  PROVE  acquired = DOMAIN config
<1>1. SUFFICES ASSUME DOMAIN config \ acquired # {} PROVE FALSE
  OBVIOUS
<1>2. DOMAIN config \ acquired \subseteq Nat
  BY ConnsAssumption
<1>3. PICK n \in DOMAIN config \ acquired : \A m \in DOMAIN config \ acquired : n <= m
  BY <1>1, <1>2, LeastNumber
<1> QED BY <1>3 DEF NextToAcquire

-----------------------------------------------------------------------------
(* The steps of an engine and its connections.                             *)

Pcs == {"configure", "open", "setup", "runtime", "probe", "ready",
        "dispose", "release", "end", "closed"}

(* A session that only goes elsewhere.                                     *)
LEMMA SessionMoves ==
  ASSUME PcInv, NEW p \in Pcs, session' = [session EXCEPT !.pc = p]
  PROVE  /\ session' \in [pc : Pcs, stop : BOOLEAN, runtime : {"none", "live", "disposed"}]
         /\ session'.pc = p /\ session'.runtime = session.runtime
<1>1. session \in [pc : Pcs, stop : BOOLEAN, runtime : {"none", "live", "disposed"}]
  BY DEF PcInv, Pcs
<1> QED BY <1>1

(* At first no handle is open.                                             *)
LEMMA InitEstablishes == ConnInit => ConnInv
<1> SUFFICES ASSUME ConnInit PROVE ConnInv
  OBVIOUS
<1>1. ClientInv
  <2>1. Absent \in [use : {"absent", "idle", "query"}, owed : BOOLEAN] /\ Absent.use # "idle"
    BY DEF Absent
  <2> QED BY <2>1 DEF ConnInit, ClientInv, NoSickClient
<1>2. PcInv
  BY DEF ConnInit, PcInv
<1>3. DOMAIN config = {} /\ acquired = {}
  BY DEF ConnInit
<1>4. HandleInv
  <2>1. 0 \notin Conns
    BY ConnsAssumption
  <2>2. /\ handle \in [Handles -> {"none", "open", "closed"}] /\ handle[0] = "open"
        /\ \A n \in Conns : handle[n] = "none"
    BY <2>1 DEF ConnInit, Handles
  <2> QED BY <1>3, <2>2 DEF ConnInit, HandleInv
<1>5. NeedInv
  BY DEF ConnInit, NeedInv
<1> QED BY <1>1, <1>2, <1>4, <1>5 DEF ConnInv

(* A configured connection has no handle yet.                              *)
LEMMA ConfigureKeeps ==
  ASSUME ConnInv, NEW options, DOMAIN options \subseteq Conns, NEW need,
         Configure(options, need)
  PROVE  ConnInv'
<1>1. /\ session.pc = "configure" /\ session.runtime = "none"
      /\ DOMAIN config' = DOMAIN options /\ needs' = need
      /\ UNCHANGED <<acquired, handle, stuck, client, tool>>
  BY DEF Configure, ConnInv, PcInv
<1>2. PICK p \in {"dispose", "open"} :
        /\ session' = [session EXCEPT !.pc = p]
        /\ p = "open" => need.queues \subseteq DOMAIN options
  BY DEF Configure, Fail
<1>3. /\ session' \in [pc : Pcs, stop : BOOLEAN, runtime : {"none", "live", "disposed"}]
      /\ session'.pc = p /\ session'.runtime = "none"
  BY <1>1, <1>2, SessionMoves DEF ConnInv, Pcs
<1>4. config = <<>> /\ acquired = {} /\ \A n \in Conns : handle[n] = "none"
  BY <1>1 DEF ConnInv, HandleInv
<1>5. ClientInv'
  BY <1>1 DEF ConnInv, ClientInv, NoSickClient
<1>6. PcInv'
  BY <1>1, <1>3 DEF ConnInv, PcInv, Pcs
<1>7. HandleInv'
  BY <1>1, <1>3, <1>4 DEF ConnInv, HandleInv
<1>8. NeedInv'
  BY <1>1, <1>2, <1>3 DEF NeedInv
<1> QED BY <1>5, <1>6, <1>7, <1>8 DEF ConnInv

(* A handle is opened, or the session fails.                               *)
LEMMA OpenHandleKeeps ==
  ASSUME ConnInv, NEW n \in Conns, NEW ok \in BOOLEAN, OpenHandle(n, ok)
  PROVE  ConnInv'
<1>1. /\ session.pc = "open" /\ session.runtime = "none" /\ n \in NextToAcquire
      /\ UNCHANGED <<config, needs, acquired, stuck, client, tool>>
  BY DEF OpenHandle, ConnInv, PcInv
<1>2. PICK p \in {"dispose", "setup"} : session' = [session EXCEPT !.pc = p] /\
        IF p = "setup" /\ config[n].owned THEN handle' = [handle EXCEPT ![n] = "open"]
        ELSE handle' = handle
  <2>1. CASE session.stop \/ ~ok
    BY <2>1 DEF OpenHandle, Fail
  <2>2. CASE ~(session.stop \/ ~ok)
    BY <2>2 DEF OpenHandle
  <2> QED BY <2>1, <2>2
<1>3. /\ session' \in [pc : Pcs, stop : BOOLEAN, runtime : {"none", "live", "disposed"}]
      /\ session'.pc = p /\ session'.runtime = "none"
  BY <1>1, <1>2, SessionMoves DEF ConnInv, Pcs
<1>4. ClientInv'
  BY <1>1 DEF ConnInv, ClientInv, NoSickClient
<1>5. PcInv'
  BY <1>1, <1>3 DEF ConnInv, PcInv, Pcs
<1>6. HandleInv'
  <2>1. NextToAcquire' = NextToAcquire
    BY <1>1 DEF NextToAcquire
  <2>2. n # 0 /\ n \in DOMAIN config /\ \A m \in NextToAcquire : m = n
    BY <1>1, ConnsAssumption, OneNext DEF ConnInv, HandleInv, NextToAcquire
  <2>3. CASE p = "setup" /\ config[n].owned
    <3>1. /\ handle' \in [Handles -> {"none", "open", "closed"}]
          /\ handle'[n] = "open" /\ \A h \in Handles : h # n => handle'[h] = handle[h]
      BY <1>2, <2>3 DEF ConnInv, HandleInv, Handles
    <3> QED BY <1>1, <1>3, <2>1, <2>2, <2>3, <3>1 DEF ConnInv, HandleInv, Handles
  <2>4. CASE ~(p = "setup" /\ config[n].owned)
    BY <1>1, <1>2, <1>3, <2>1, <2>2, <2>4 DEF ConnInv, HandleInv
  <2> QED BY <2>3, <2>4
<1>7. NeedInv'
  BY <1>1, <1>2, <1>3 DEF ConnInv, NeedInv
<1> QED BY <1>4, <1>5, <1>6, <1>7 DEF ConnInv

(* Only an owned handle is closed, and at least tried.                     *)
LEMMA CloseEnds ==
  ASSUME HandleInv, NEW n \in DOMAIN config, NEW ok \in BOOLEAN, Close(n, ok)
  PROVE  /\ handle' \in [Handles -> {"none", "open", "closed"}]
         /\ stuck \subseteq stuck'
         /\ \A h \in Handles : h # n => handle'[h] = handle[h]
         /\ handle'[n] = "open" => n \in stuck'
         /\ handle'[n] # "none" => handle[n] # "none" \/ config[n].owned
<1>1. n \in Conns /\ n \in Handles
  BY DEF HandleInv, Handles
<1>2. CASE ~config[n].owned
  BY <1>1, <1>2 DEF Close, HandleInv
<1>3. CASE config[n].owned
  <2>1. CASE ok \/ config[n].adapter = "postgres"
    <3>1. handle' = [handle EXCEPT ![n] = "closed"] /\ stuck' = stuck
      BY <1>3, <2>1 DEF Close
    <3>2. handle'[n] = "closed" /\ \A h \in Handles : h # n => handle'[h] = handle[h]
      BY <1>1, <3>1 DEF HandleInv
    <3> QED BY <1>1, <1>3, <3>1, <3>2 DEF HandleInv
  <2>2. CASE ~(ok \/ config[n].adapter = "postgres")
    <3>1. handle' = handle /\ stuck' = stuck \cup {n}
      BY <1>3, <2>2 DEF Close
    <3> QED BY <1>1, <1>3, <3>1 DEF HandleInv
  <2> QED BY <2>1, <2>2
<1> QED BY <1>2, <1>3

(* A connection is set up, or its handle is closed again.                  *)
LEMMA SetUpKeeps ==
  ASSUME ConnInv, NEW n \in Conns, NEW ok \in BOOLEAN, NEW closes \in BOOLEAN,
         SetUp(n, ok, closes)
  PROVE  ConnInv'
<1>1. /\ session.pc = "setup" /\ session.runtime = "none" /\ n \in NextToAcquire
      /\ UNCHANGED <<config, needs, client, tool>>
  BY DEF SetUp, ConnInv, PcInv
<1>2. n # 0 /\ n \in DOMAIN config /\ n \notin acquired /\ \A m \in NextToAcquire : m = n
  BY <1>1, ConnsAssumption, OneNext DEF ConnInv, HandleInv, NextToAcquire
<1>3. ClientInv'
  BY <1>1 DEF ConnInv, ClientInv, NoSickClient
<1>4. CASE ok
  <2>1. /\ session' = [session EXCEPT !.pc = "open"]
        /\ acquired' = acquired \cup {n} /\ handle' = handle /\ stuck' = stuck
    BY <1>4 DEF SetUp
  <2>2. /\ session' \in [pc : Pcs, stop : BOOLEAN, runtime : {"none", "live", "disposed"}]
        /\ session'.pc = "open" /\ session'.runtime = "none"
    BY <1>1, <2>1, SessionMoves DEF ConnInv, Pcs
  <2>3. PcInv'
    BY <1>1, <2>2 DEF ConnInv, PcInv, Pcs
  <2>4. HandleInv'
    BY <1>1, <1>2, <2>1, <2>2 DEF ConnInv, HandleInv
  <2>5. NeedInv'
    BY <1>1, <2>2 DEF ConnInv, NeedInv
  <2> QED BY <1>3, <2>3, <2>4, <2>5 DEF ConnInv
<1>5. CASE ~ok
  <2>1. /\ session' = [session EXCEPT !.pc = "dispose"]
        /\ acquired' = acquired /\ Close(n, closes)
    BY <1>5 DEF SetUp, Fail
  <2>2. /\ session' \in [pc : Pcs, stop : BOOLEAN, runtime : {"none", "live", "disposed"}]
        /\ session'.pc = "dispose" /\ session'.runtime = "none"
    BY <1>1, <2>1, SessionMoves DEF ConnInv, Pcs
  <2>3. PcInv'
    BY <1>1, <2>2 DEF ConnInv, PcInv, Pcs
  <2>4. HandleInv'
    <3>1. /\ handle' \in [Handles -> {"none", "open", "closed"}]
          /\ stuck \subseteq stuck'
          /\ \A h \in Handles : h # n => handle'[h] = handle[h]
          /\ handle'[n] = "open" => n \in stuck'
          /\ handle'[n] # "none" => handle[n] # "none" \/ config[n].owned
      BY <1>2, <2>1, CloseEnds DEF ConnInv
    <3> QED BY <1>1, <1>2, <2>1, <2>2, <3>1 DEF ConnInv, HandleInv, Handles
  <2>5. NeedInv'
    BY <1>1, <2>2 DEF ConnInv, NeedInv
  <2> QED BY <1>3, <2>3, <2>4, <2>5 DEF ConnInv
<1> QED BY <1>4, <1>5

(* A session that only goes elsewhere, and neither acquires nor releases.  *)
LEMMA MoveKeeps ==
  ASSUME ConnInv, NEW p \in Pcs \ {"setup", "configure", "closed", "open"},
         session' = [session EXCEPT !.pc = p],
         session.pc # "setup", session.runtime = "live" => p \in {"probe", "ready", "dispose"},
         UNCHANGED <<config, needs, acquired, handle, stuck, client, tool>>
  PROVE  ConnInv'
<1>1. /\ session' \in [pc : Pcs, stop : BOOLEAN, runtime : {"none", "live", "disposed"}]
      /\ session'.pc = p /\ session'.runtime = session.runtime
  BY SessionMoves DEF ConnInv
<1>2. ClientInv'
  BY DEF ConnInv, ClientInv, NoSickClient
<1>3. PcInv'
  BY <1>1 DEF ConnInv, PcInv, Pcs
<1>4. HandleInv'
  BY <1>1 DEF ConnInv, HandleInv
<1>5. NeedInv'
  BY <1>1 DEF ConnInv, NeedInv
<1> QED BY <1>2, <1>3, <1>4, <1>5 DEF ConnInv

(* The runtime is made over handles that are all open.                     *)
LEMMA MakeRuntimeKeeps ==
  ASSUME ConnInv, NEW ok \in BOOLEAN, MakeRuntime(ok)
  PROVE  ConnInv'
<1>1. /\ session.pc = "open" /\ session.runtime = "none" /\ NextToAcquire = {}
      /\ UNCHANGED <<config, needs, acquired, handle, stuck, client, tool>>
  BY DEF MakeRuntime, ConnInv, PcInv
<1>2. CASE session' = Fail
  BY <1>1, <1>2, MoveKeeps DEF Fail, Pcs
<1>3. CASE session' # Fail
  <2>1. /\ session' = [session EXCEPT !.pc = "probe", !.runtime = "live"]
        /\ needs.flows \cup needs.schedules \subseteq DOMAIN config
        /\ \A n \in needs.flows : config[n].flows
        /\ \A n \in needs.schedules : config[n].schedules
    BY <1>3 DEF MakeRuntime
  <2>2. /\ session' \in [pc : Pcs, stop : BOOLEAN, runtime : {"none", "live", "disposed"}]
        /\ session'.pc = "probe" /\ session'.runtime = "live"
    <3>1. session \in [pc : Pcs, stop : BOOLEAN, runtime : {"none", "live", "disposed"}]
      BY DEF ConnInv, PcInv, Pcs
    <3> QED BY <2>1, <3>1 DEF Pcs
  <2>3. acquired = DOMAIN config
    BY <1>1, AllAcquired DEF ConnInv, HandleInv
  <2>4. needs.queues \subseteq DOMAIN config
    BY <1>1 DEF ConnInv, NeedInv
  <2>5. ClientInv'
    BY <1>1 DEF ConnInv, ClientInv, NoSickClient
  <2>6. PcInv'
    BY <1>1, <2>2 DEF ConnInv, PcInv, Pcs
  <2>7. HandleInv'
    BY <1>1, <2>2 DEF ConnInv, HandleInv
  <2>8. NeedInv'
    BY <1>1, <2>1, <2>2, <2>3, <2>4 DEF NeedInv
  <2> QED BY <2>5, <2>6, <2>7, <2>8 DEF ConnInv
<1> QED BY <1>2, <1>3

(* A probe opens and closes nothing.                                       *)
LEMMA ProbeKeeps ==
  ASSUME ConnInv, NEW ok \in BOOLEAN, Probe(ok)
  PROVE  ConnInv'
<1>1. PICK p \in {"dispose", "ready"} : session' = [session EXCEPT !.pc = p]
  BY DEF Probe, Fail
<1> QED BY <1>1, MoveKeeps DEF Probe, Pcs

(* A stop request opens and closes nothing.                                *)
LEMMA StopKeeps == ConnInv /\ Stop => ConnInv'
<1> SUFFICES ASSUME ConnInv, Stop PROVE ConnInv'
  OBVIOUS
<1>1. session \in [pc : Pcs, stop : BOOLEAN, runtime : {"none", "live", "disposed"}]
  BY DEF ConnInv, PcInv, Pcs
<1>2. UNCHANGED <<config, needs, acquired, handle, stuck, client, tool>>
  BY DEF Stop
<1>3. /\ session' \in [pc : Pcs, stop : BOOLEAN, runtime : {"none", "live", "disposed"}]
      /\ session'.pc = IF session.pc = "ready" THEN "dispose" ELSE session.pc
      /\ session'.runtime = session.runtime
  <2>1. session' = [session EXCEPT !.stop = TRUE,
                                   !.pc = IF session.pc = "ready" THEN "dispose" ELSE session.pc]
    BY DEF Stop
  <2> QED BY <1>1, <2>1 DEF Pcs
<1>4. ClientInv'
  BY <1>2 DEF ConnInv, ClientInv, NoSickClient
<1>5. PcInv'
  BY <1>2, <1>3 DEF ConnInv, PcInv, Pcs
<1>6. NextToAcquire' = NextToAcquire
  BY <1>2 DEF NextToAcquire
<1>7. HandleInv'
  BY <1>2, <1>3, <1>6 DEF ConnInv, HandleInv
<1>8. NeedInv'
  BY <1>2, <1>3 DEF ConnInv, NeedInv
<1> QED BY <1>4, <1>5, <1>7, <1>8 DEF ConnInv

(* The runtime is disposed of before its handles.                          *)
LEMMA DisposeKeeps == ConnInv /\ Dispose => ConnInv'
<1> SUFFICES ASSUME ConnInv, Dispose PROVE ConnInv'
  OBVIOUS
<1>1. session \in [pc : Pcs, stop : BOOLEAN, runtime : {"none", "live", "disposed"}]
  BY DEF ConnInv, PcInv, Pcs
<1>2. session.pc = "dispose" /\ UNCHANGED <<config, needs, acquired, handle, stuck, client, tool>>
  BY DEF Dispose
<1>3. /\ session' \in [pc : Pcs, stop : BOOLEAN, runtime : {"none", "live", "disposed"}]
      /\ session'.pc = "release" /\ session'.runtime # "live"
  <2>1. session' = [session EXCEPT !.pc = "release",
                      !.runtime = IF session.runtime = "live" THEN "disposed" ELSE session.runtime]
    BY DEF Dispose
  <2> QED BY <1>1, <2>1 DEF Pcs
<1>4. ClientInv'
  BY <1>2 DEF ConnInv, ClientInv, NoSickClient
<1>5. PcInv'
  BY <1>2, <1>3 DEF ConnInv, PcInv, Pcs
<1>6. HandleInv'
  BY <1>2, <1>3 DEF ConnInv, HandleInv
<1>7. NeedInv'
  BY <1>2, <1>3 DEF ConnInv, NeedInv
<1> QED BY <1>4, <1>5, <1>6, <1>7 DEF ConnInv

(* A handle is released, unless the application owns it.                   *)
LEMMA ReleaseKeeps ==
  ASSUME ConnInv, NEW n \in Conns, NEW closes \in BOOLEAN, Release(n, closes)
  PROVE  ConnInv'
<1>1. /\ session.pc = "release" /\ session.runtime # "live" /\ n \in acquired
      /\ acquired' = acquired \ {n} /\ UNCHANGED <<config, needs, session, tool>>
      /\ Close(n, closes)
  BY DEF Release, NextToRelease, ConnInv, PcInv
<1>2. n # 0 /\ n \in DOMAIN config /\ n \in Handles
  BY <1>1, ConnsAssumption DEF ConnInv, HandleInv, Handles
<1>3. ClientInv'
  <2>1. client' = [client EXCEPT ![n] = [c \in Clients |-> Absent]]
    BY DEF Release
  <2>2. [c \in Clients |-> Absent] \in [Clients -> [use : {"absent", "idle", "query"}, owed : BOOLEAN]]
    BY DEF Absent
  <2>3. client' \in [Handles -> [Clients -> [use : {"absent", "idle", "query"}, owed : BOOLEAN]]]
    BY <2>1, <2>2 DEF ConnInv, ClientInv
  <2>4. ASSUME NEW h \in Handles, NEW c \in Clients, client'[h][c].use = "idle"
        PROVE  ~client'[h][c].owed
    <3>1. CASE h = n
      <4>1. client'[h][c] = Absent
        BY <1>2, <2>1, <3>1 DEF ConnInv, ClientInv
      <4> QED BY <2>4, <4>1 DEF Absent
    <3>2. CASE h # n
      <4>1. client'[h] = client[h]
        BY <2>1, <3>2 DEF ConnInv, ClientInv
      <4> QED BY <2>4, <4>1 DEF ConnInv, ClientInv, NoSickClient
    <3> QED BY <3>1, <3>2
  <2> QED BY <2>3, <2>4 DEF ClientInv, NoSickClient
<1>4. PcInv'
  BY <1>1 DEF ConnInv, PcInv
<1>5. HandleInv'
  <2>1. /\ handle' \in [Handles -> {"none", "open", "closed"}]
        /\ stuck \subseteq stuck'
        /\ \A h \in Handles : h # n => handle'[h] = handle[h]
        /\ handle'[n] = "open" => n \in stuck'
        /\ handle'[n] # "none" => handle[n] # "none" \/ config[n].owned
    BY <1>1, <1>2, CloseEnds DEF ConnInv
  <2> QED BY <1>1, <1>2, <2>1 DEF ConnInv, HandleInv, Handles
<1>6. NeedInv'
  BY <1>1 DEF ConnInv, NeedInv
<1> QED BY <1>3, <1>4, <1>5, <1>6 DEF ConnInv

(* The session is closed once everything is released.                      *)
LEMMA ClosedKeeps == ConnInv /\ Closed => ConnInv'
<1> SUFFICES ASSUME ConnInv, Closed PROVE ConnInv'
  OBVIOUS
<1>1. /\ session.pc = "release" /\ acquired = {} /\ session' = [session EXCEPT !.pc = "closed"]
      /\ UNCHANGED <<config, needs, acquired, handle, stuck, client, tool>>
  BY DEF Closed
<1>2. /\ session' \in [pc : Pcs, stop : BOOLEAN, runtime : {"none", "live", "disposed"}]
      /\ session'.pc = "closed" /\ session'.runtime = session.runtime
  BY <1>1, SessionMoves DEF ConnInv, Pcs
<1>3. ClientInv'
  BY <1>1 DEF ConnInv, ClientInv, NoSickClient
<1>4. PcInv'
  BY <1>1, <1>2 DEF ConnInv, PcInv, Pcs
<1>5. HandleInv'
  BY <1>1, <1>2 DEF ConnInv, HandleInv
<1>6. NeedInv'
  BY <1>1, <1>2 DEF ConnInv, PcInv, NeedInv
<1> QED BY <1>3, <1>4, <1>5, <1>6 DEF ConnInv

(* A query touches its client only.                                        *)
LEMMA ClientKeeps ==
  ASSUME ConnInv, NEW h \in Handles, NEW c \in Clients,
         NEW as \in [use : {"absent", "idle", "query"}, owed : BOOLEAN],
         as.use = "idle" => ~as.owed,
         client' = [client EXCEPT ![h][c] = as],
         UNCHANGED <<config, needs, session, acquired, handle, stuck, tool>>
  PROVE  ConnInv'
<1>1. /\ client' \in [Handles -> [Clients -> [use : {"absent", "idle", "query"}, owed : BOOLEAN]]]
      /\ client'[h][c] = as
      /\ \A g \in Handles, d \in Clients : g # h \/ d # c => client'[g][d] = client[g][d]
  BY DEF ConnInv, ClientInv
<1>2. ClientInv'
  BY <1>1 DEF ConnInv, ClientInv, NoSickClient
<1>3. PcInv' /\ HandleInv' /\ NeedInv'
  <2>1. NextToAcquire' = NextToAcquire
    BY DEF NextToAcquire
  <2> QED BY <2>1 DEF ConnInv, PcInv, HandleInv, NeedInv
<1> QED BY <1>2, <1>3 DEF ConnInv

(* A query checks a client out.                                            *)
LEMMA QueryKeeps ==
  ASSUME ConnInv, NEW n \in Conns, NEW c \in Clients, Query(n, c)
  PROVE  ConnInv'
<1>1. Handle(n) \in Handles
  BY DEF Handle, Handles
<1>2. [use |-> "query", owed |-> TRUE] \in [use : {"absent", "idle", "query"}, owed : BOOLEAN]
  OBVIOUS
<1> QED BY <1>1, <1>2, ClientKeeps DEF Query

(* A client comes back idle and clean, or is destroyed.                    *)
LEMMA SettlesKeeps ==
  ASSUME ConnInv, NEW h \in Handles, NEW c \in Clients,
         Settles(h, c) \/ IdleDisconnected(h, c)
  PROVE  ConnInv'
<1>1. \/ Returns(h, c, [use |-> "idle", owed |-> FALSE])
      \/ Returns(h, c, Absent)
  BY DEF Settles, IdleDisconnected, Answered, Rejected, Disconnected
<1>2. /\ [use |-> "idle", owed |-> FALSE] \in [use : {"absent", "idle", "query"}, owed : BOOLEAN]
      /\ Absent \in [use : {"absent", "idle", "query"}, owed : BOOLEAN] /\ Absent.use # "idle"
  BY DEF Absent
<1>3. ASSUME Returns(h, c, [use |-> "idle", owed |-> FALSE]) PROVE ConnInv'
  BY <1>2, <1>3, ClientKeeps DEF Returns
<1>4. ASSUME Returns(h, c, Absent) PROVE ConnInv'
  BY <1>2, <1>4, ClientKeeps DEF Returns
<1> QED BY <1>1, <1>3, <1>4

(* The administrative tool has a handle of its own.                        *)
LEMMA ToolKeeps ==
  ASSUME ConnInv, NEW ok \in BOOLEAN, NEW closes \in BOOLEAN,
         ToolOpens(ok) \/ ToolRuns(ok, closes)
  PROVE  ConnInv'
<1>1. UNCHANGED <<config, needs, session, acquired, handle, stuck, client>>
  BY DEF ToolOpens, ToolRuns
<1>2. /\ tool' \in [handle : {"none", "open", "closed", "stuck"}, told : {"none", "ok", "error"}]
      /\ tool'.told # "none" => tool'.handle # "open"
  <2>1. CASE ToolOpens(ok)
    BY <2>1 DEF ToolOpens, ConnInv, PcInv
  <2>2. CASE ToolRuns(ok, closes)
    BY <2>2 DEF ToolRuns
  <2> QED BY <2>1, <2>2
<1>3. ClientInv' /\ PcInv'
  BY <1>1, <1>2 DEF ConnInv, ClientInv, NoSickClient, PcInv
<1>4. HandleInv' /\ NeedInv'
  <2>1. NextToAcquire' = NextToAcquire
    BY <1>1 DEF NextToAcquire
  <2> QED BY <1>1, <2>1 DEF ConnInv, HandleInv, NeedInv
<1> QED BY <1>3, <1>4 DEF ConnInv

(* What leaves the connections alone keeps their invariant.                *)
LEMMA IdleKeeps == ConnInv /\ UNCHANGED connVars => ConnInv'
<1> SUFFICES ASSUME ConnInv, UNCHANGED connVars PROVE ConnInv'
  OBVIOUS
<1>1. NextToAcquire' = NextToAcquire
  BY DEF connVars, NextToAcquire
<1> QED BY <1>1 DEF connVars, ConnInv, ClientInv, NoSickClient, PcInv, HandleInv, NeedInv

(* Every step keeps the invariant of the connections.                      *)
LEMMA StepKeeps == ConnInv /\ [StartupNext]_startupVars => ConnInv'
<1> SUFFICES ASSUME ConnInv, [StartupNext]_startupVars PROVE ConnInv'
  OBVIOUS
<1>1. ASSUME NEW services, NEW p, Registry(services, p) PROVE ConnInv'
  BY <1>1, IdleKeeps DEF Registry, Assembles
<1>2. ASSUME NEW declared, Flows(declared) PROVE ConnInv'
  BY <1>2, IdleKeeps DEF Flows, Assembles
<1>3. ASSUME NEW workers, Workers(workers) PROVE ConnInv'
  BY <1>3, IdleKeeps DEF Workers, Assembles
<1>4. ASSUME Schedules PROVE ConnInv'
  BY <1>4, IdleKeeps DEF Schedules, Assembles
<1>5. ASSUME NEW options \in OptionSets, Connect(options) PROVE ConnInv'
  <2>1. DOMAIN options \subseteq Conns
    BY StartupAssumption
  <2> QED BY <1>5, <2>1, ConfigureKeeps DEF Connect
<1>6. ASSUME Running(Session) PROVE ConnInv'
  <2>1. ASSUME NEW n \in Conns, NEW ok \in BOOLEAN, NEW closes \in BOOLEAN,
               OpenHandle(n, ok) \/ SetUp(n, ok, closes) \/ Release(n, closes)
        PROVE  ConnInv'
    BY <2>1, OpenHandleKeeps, SetUpKeeps, ReleaseKeeps
  <2>2. ASSUME NEW ok \in BOOLEAN, MakeRuntime(ok) \/ Probe(ok) PROVE ConnInv'
    BY <2>2, MakeRuntimeKeeps, ProbeKeeps
  <2>3. ASSUME Dispose \/ Closed PROVE ConnInv'
    BY <2>3, DisposeKeeps, ClosedKeeps
  <2> QED BY <1>6, <2>1, <2>2, <2>3 DEF Running, Session
<1>7. ASSUME Running(Stop) PROVE ConnInv'
  BY <1>7, StopKeeps DEF Running
<1>8. ASSUME NEW n \in Conns, NEW c \in Clients, Running(Query(n, c)) PROVE ConnInv'
  BY <1>8, QueryKeeps DEF Running
<1>9. ASSUME NEW h \in Handles, NEW c \in Clients,
             Running(Settles(h, c)) \/ Running(IdleDisconnected(h, c))
      PROVE  ConnInv'
  BY <1>9, SettlesKeeps DEF Running
<1>10. ASSUME Tool PROVE ConnInv'
  BY <1>10, ToolKeeps DEF Tool
<1>11. CASE UNCHANGED startupVars
  BY <1>11, IdleKeeps DEF startupVars
<1> QED BY <1>1, <1>2, <1>3, <1>4, <1>5, <1>6, <1>7, <1>8, <1>9, <1>10, <1>11 DEF StartupNext

-----------------------------------------------------------------------------
(* What is assembled.                                                      *)

(* A registered job is on a connection and has one policy at most.         *)
JobsInv == \A j \in app.jobs : j.connection \in Conns /\ \A p, q \in j.policy : p = q

(* Flows start from registered jobs, no two from one, and come to an end.  *)
FlowsInv ==
  /\ \A f \in app.flows : f.parent \in app.jobs /\ f.children \subseteq app.jobs
  /\ \A f, g \in app.flows : f.parent = g.parent => f = g
  /\ NestingEnds

AppInv ==
  /\ \E jobs, retries, flows, plans, workers, scheduled :
       app = [jobs |-> jobs, retries |-> retries, flows |-> flows, plans |-> plans,
              workers |-> workers, scheduled |-> scheduled]
  /\ phase \in {"flows", "workers", "schedules", "assembled"} => JobsInv
  /\ phase \in {"workers", "schedules", "assembled"} => FlowsInv
  /\ phase \in {"schedules", "assembled"} => RoutesTold /\ ParametersOwn /\ PoliciesProvided
  /\ phase = "assembled" => app.scheduled \subseteq app.jobs

(* An accepted registry: every job is one of a queue class.                *)
LEMMA JobsRegistered ==
  ASSUME NEW services \in SUBSET Services, NEW jobs \in UNION {Entries(j) : j \in Initialize(services)},
         NEW j \in jobs
  PROVE  j.connection \in Conns /\ \A p, q \in j.policy : p = q
<1>1. jobs = UNION UNION {GetQueueDefinition(s) : s \in services}
  BY DEF Entries, Initialize
<1>2. PICK s \in services : \E definition \in GetQueueDefinition(s) : j \in definition
  BY <1>1
<1>3. j.connection = s.connection /\ j.policy = s.policy
  BY <1>2 DEF GetQueueDefinition
<1> QED BY <1>3, StartupAssumption

(* The registry accepts sound queues and jobs.                             *)
LEMMA AppRegistry ==
  ASSUME AppInv, NEW services \in SUBSET Services, NEW providers, Registry(services, providers)
  PROVE  AppInv'
<1>1. CASE phase' = "refused" /\ app' = Nothing
  BY <1>1 DEF AppInv, Nothing
<1>2. CASE ~(phase' = "refused" /\ app' = Nothing)
  <2>1. /\ phase' = "flows"
        /\ \E jobs \in UNION {Entries(j) : j \in Initialize(services)},
              retries \in RetryPolicies(providers) :
             app' = Registered(jobs, retries)
    BY <1>2 DEF Registry, Assembles
  <2>2. PICK jobs \in UNION {Entries(j) : j \in Initialize(services)},
             retries \in RetryPolicies(providers) :
          app' = [jobs |-> jobs, retries |-> retries, flows |-> {}, plans |-> {},
                  workers |-> {}, scheduled |-> {}]
    BY <2>1 DEF Registered, Nothing
  <2>3. app'.jobs = jobs
    BY <2>2
  <2>4. JobsInv'
    BY <2>3, JobsRegistered DEF JobsInv
  <2> QED BY <2>1, <2>2, <2>4 DEF AppInv
<1> QED BY <1>1, <1>2

(* Discovery accepts sound flows.                                          *)
LEMMA AppFlows ==
  ASSUME AppInv, NEW declared \in FlowSets, Flows(declared)
  PROVE  AppInv'
<1>1. CASE phase' = "refused" /\ app' = Nothing
  BY <1>1 DEF AppInv, Nothing
<1>2. CASE ~(phase' = "refused" /\ app' = Nothing)
  <2>1. /\ phase = "flows" /\ phase' = "workers"
        /\ \E flows \in DiscoverFlows(declared, app.jobs) : app' = [app EXCEPT !.flows = flows]
    BY <1>2 DEF Flows, Assembles
  <2>2. PICK flows \in DiscoverFlows(declared, app.jobs) : app' = [app EXCEPT !.flows = flows]
    BY <2>1
  <2>3. PICK jobs, retries, before, plans, workers, scheduled :
          app = [jobs |-> jobs, retries |-> retries, flows |-> before, plans |-> plans,
                 workers |-> workers, scheduled |-> scheduled]
    BY DEF AppInv
  <2>4. app' = [jobs |-> jobs, retries |-> retries, flows |-> flows, plans |-> plans,
                workers |-> workers, scheduled |-> scheduled]
    BY <2>2, <2>3
  <2>5. app'.jobs = app.jobs /\ app'.flows = flows
    BY <2>3, <2>4
  <2>6. JobsInv'
    BY <2>1, <2>5 DEF AppInv, JobsInv
  <2>7. IsFiniteSet(declared)
    BY StartupAssumption
  <2>8. FlowsInv'
    BY <2>2, <2>5, <2>7, FlowsDiscovered DEF FlowsInv, NestingEnds
  <2> QED BY <2>1, <2>4, <2>6, <2>8 DEF AppInv
<1> QED BY <1>1, <1>2

(* What a process with workers has found, besides its routes.              *)
LEMMA PoliciesDiscovered ==
  ASSUME NEW workers, NEW jobs, NEW flows, NEW retries,
         \A j \in jobs : \A p, q \in j.policy : p = q,
         \A f \in flows : f.parent \in jobs,
         NEW plans \in DiscoverWorkers(workers, jobs, flows, retries),
         NEW j \in UNION {p.routes : p \in plans}, NEW policy \in j.policy
  PROVE  \E r \in retries : r.policy = policy /\ r.static
<1>1. PICK p \in plans : j \in p.routes
  OBVIOUS
<1>2. PICK w \in workers : /\ p = [name |-> w.name, routes |-> Routes(w, jobs, flows)]
                           /\ \A k \in p.routes : Require(k, retries)
  BY WorkersAccepted
<1>3. j \in jobs
  <2>1. p.routes = Routes(w, jobs, flows)
    BY <1>2
  <2> QED BY <1>1, <2>1 DEF Routes, Processed, Parents
<1> QED BY <1>1, <1>2, <1>3 DEF Require

(* Discovery accepts sound workers.                                        *)
LEMMA AppWorkers ==
  ASSUME AppInv, NEW workers \in WorkerSets, Workers(workers)
  PROVE  AppInv'
<1>1. CASE phase' = "refused" /\ app' = Nothing
  BY <1>1 DEF AppInv, Nothing
<1>2. CASE ~(phase' = "refused" /\ app' = Nothing)
  <2>1. /\ phase = "workers" /\ phase' = "schedules"
        /\ \E plans \in IF workers = {} THEN {{}}
                        ELSE DiscoverWorkers(workers, app.jobs, app.flows, app.retries) :
             app' = [app EXCEPT !.plans = plans, !.workers = workers]
    BY <1>2 DEF Workers, Assembles
  <2>2. PICK plans : /\ \/ workers = {} /\ plans = {}
                        \/ plans \in DiscoverWorkers(workers, app.jobs, app.flows, app.retries)
                     /\ app' = [app EXCEPT !.plans = plans, !.workers = workers]
    BY <2>1
  <2>3. PICK jobs, retries, flows, none, nobody, scheduled :
          app = [jobs |-> jobs, retries |-> retries, flows |-> flows, plans |-> none,
                 workers |-> nobody, scheduled |-> scheduled]
    BY DEF AppInv
  <2>4. app' = [jobs |-> jobs, retries |-> retries, flows |-> flows, plans |-> plans,
                workers |-> workers, scheduled |-> scheduled]
    BY <2>2, <2>3
  <2>5. /\ app'.jobs = app.jobs /\ app'.flows = app.flows /\ app'.retries = app.retries
        /\ app'.plans = plans /\ app'.workers = workers
    BY <2>3, <2>4
  <2>6. JobsInv /\ FlowsInv
    BY <2>1 DEF AppInv
  <2>7. JobsInv' /\ FlowsInv'
    BY <2>5, <2>6 DEF JobsInv, FlowsInv, NestingEnds
  <2>8. CASE workers = {} /\ plans = {}
    <3>1. RoutesTold' /\ ParametersOwn' /\ PoliciesProvided'
      BY <2>5, <2>8 DEF RoutesTold, ParametersOwn, PoliciesProvided, Handled
    <3> QED BY <2>1, <2>4, <2>7, <3>1 DEF AppInv
  <2>9. CASE plans \in DiscoverWorkers(workers, app.jobs, app.flows, app.retries)
    <3>1. \A w, v \in workers : w.class = v.class => w = v
      BY StartupAssumption
    <3>2. \A p \in plans : \A j, k \in p.routes : j.queue = k.queue /\ j.name = k.name => j = k
      BY <2>9, WorkersAccepted
    <3>3. \A j \in UNION {p.routes : p \in plans} : Cardinality({p \in plans : j \in p.routes}) = 1
      <4>1. \A f, g \in app.flows : f.parent = g.parent => f = g
        BY <2>6 DEF FlowsInv
      <4> QED BY <2>9, <3>1, <4>1, RoutesDiscovered
    <3>4. \A w, v \in workers : \A h \in Handlers(w), g \in Handlers(v) :
            h[2] = g[2] => w = v /\ h = g
      BY <2>9, WorkersAccepted
    <3>5. RoutesTold'
      BY <2>5, <3>2, <3>3, <3>4 DEF RoutesTold, Handled
    <3>6. ParametersOwn'
      <4>1. ASSUME NEW w \in workers, NEW h \in Handlers(w)
            PROVE  LET called == CHOOSE i \in DOMAIN w.chain :
                                   /\ h[1] \in DOMAIN w.chain[i]
                                   /\ \A l \in i+1..Len(w.chain) : h[1] \notin DOMAIN w.chain[l]
                   IN  w.chain[called][h[1]].annotated
        <5>1. ParameterMetadata(w.chain, h[1])
          BY <2>9, WorkersAccepted
        <5>2. Len(w.chain) \in Nat /\ DOMAIN w.chain = 1..Len(w.chain)
          BY StartupAssumption
        <5> QED BY <5>1, <5>2, ParametersCalled
      <4> QED BY <2>5, <4>1 DEF ParametersOwn
    <3>7. PoliciesProvided'
      <4>1. ASSUME NEW j \in UNION {p.routes : p \in plans}, NEW policy \in j.policy
            PROVE  \E r \in app.retries : r.policy = policy /\ r.static
        BY <2>6, <2>9, PoliciesDiscovered DEF JobsInv, FlowsInv
      <4> QED BY <2>5, <4>1 DEF PoliciesProvided, Handled
    <3> QED BY <2>1, <2>4, <2>7, <3>5, <3>6, <3>7 DEF AppInv
  <2> QED BY <2>2, <2>8, <2>9
<1> QED BY <1>1, <1>2

(* Compilation accepts sound schedules.                                    *)
LEMMA AppSchedules == AppInv /\ Schedules => AppInv'
<1> SUFFICES ASSUME AppInv, Schedules PROVE AppInv'
  OBVIOUS
<1>1. CASE phase' = "refused" /\ app' = Nothing
  BY <1>1 DEF AppInv, Nothing
<1>2. CASE ~(phase' = "refused" /\ app' = Nothing)
  <2>1. /\ phase = "schedules" /\ phase' = "assembled"
        /\ \E scheduled \in CompileSchedules(app.jobs) : app' = [app EXCEPT !.scheduled = scheduled]
    BY <1>2 DEF Schedules, Assembles
  <2>2. PICK scheduled \in CompileSchedules(app.jobs) : app' = [app EXCEPT !.scheduled = scheduled]
    BY <2>1
  <2>3. PICK jobs, retries, flows, plans, workers, none :
          app = [jobs |-> jobs, retries |-> retries, flows |-> flows, plans |-> plans,
                 workers |-> workers, scheduled |-> none]
    BY DEF AppInv
  <2>4. app' = [jobs |-> jobs, retries |-> retries, flows |-> flows, plans |-> plans,
                workers |-> workers, scheduled |-> scheduled]
    BY <2>2, <2>3
  <2>5. /\ app'.jobs = app.jobs /\ app'.flows = app.flows /\ app'.retries = app.retries
        /\ app'.plans = app.plans /\ app'.workers = app.workers /\ app'.scheduled = scheduled
    BY <2>3, <2>4
  <2>6. JobsInv' /\ FlowsInv'
    BY <2>1, <2>5 DEF AppInv, JobsInv, FlowsInv, NestingEnds
  <2>7. RoutesTold' /\ ParametersOwn' /\ PoliciesProvided'
    <3>1. RoutesTold /\ ParametersOwn /\ PoliciesProvided
      BY <2>1 DEF AppInv
    <3>2. Handled' = Handled
      BY <2>5 DEF Handled
    <3>3. RoutesTold'
      BY <2>5, <3>1, <3>2 DEF RoutesTold
    <3>4. ParametersOwn'
      BY <2>5, <3>1 DEF ParametersOwn
    <3>5. PoliciesProvided'
      BY <2>5, <3>1, <3>2 DEF PoliciesProvided
    <3> QED BY <3>3, <3>4, <3>5
  <2>8. scheduled \subseteq app.jobs
    BY <2>2 DEF CompileSchedules
  <2> QED BY <2>1, <2>4, <2>5, <2>6, <2>7, <2>8 DEF AppInv
<1> QED BY <1>1, <1>2

(* Every step keeps the assembled application sound.                       *)
LEMMA AppKeeps == AppInv /\ [StartupNext]_startupVars => AppInv'
<1> SUFFICES ASSUME AppInv, [StartupNext]_startupVars PROVE AppInv'
  OBVIOUS
<1>1. ASSUME NEW services \in SUBSET Services, NEW p, Registry(services, p) PROVE AppInv'
  BY <1>1, AppRegistry
<1>2. ASSUME NEW declared \in FlowSets, Flows(declared) PROVE AppInv'
  BY <1>2, AppFlows
<1>3. ASSUME NEW workers \in WorkerSets, Workers(workers) PROVE AppInv'
  BY <1>3, AppWorkers
<1>4. ASSUME Schedules PROVE AppInv'
  BY <1>4, AppSchedules
<1>5. ASSUME NEW options, Connect(options) PROVE AppInv'
  BY <1>5 DEF Connect, AppInv, Nothing
<1>6. ASSUME UNCHANGED <<phase, app>> PROVE AppInv'
  <2>1. JobsInv' = JobsInv /\ FlowsInv' = FlowsInv
    BY <1>6 DEF JobsInv, FlowsInv, NestingEnds
  <2>2. RoutesTold' = RoutesTold
    BY <1>6 DEF RoutesTold, Handled
  <2>3. ParametersOwn' = ParametersOwn
    BY <1>6 DEF ParametersOwn
  <2>4. PoliciesProvided' = PoliciesProvided
    BY <1>6 DEF PoliciesProvided, Handled
  <2> QED BY <1>6, <2>1, <2>2, <2>3, <2>4 DEF AppInv
<1>7. ASSUME \/ Running(Session) \/ Running(Stop)
             \/ \E n \in Conns, c \in Clients : Running(Query(n, c))
             \/ \E h \in Handles, c \in Clients :
                  Running(Settles(h, c)) \/ Running(IdleDisconnected(h, c))
             \/ Tool \/ UNCHANGED startupVars
      PROVE  UNCHANGED <<phase, app>>
  BY <1>7 DEF Running, Tool, startupVars
<1>8. \/ \E services \in SUBSET Services, p \in Providers : Registry(services, p)
      \/ \E declared \in FlowSets : Flows(declared)
      \/ \E workers \in WorkerSets : Workers(workers)
      \/ Schedules
      \/ \E options \in OptionSets : Connect(options)
      \/ UNCHANGED <<phase, app>>
  BY <1>7 DEF StartupNext
<1> QED BY <1>1, <1>2, <1>3, <1>4, <1>5, <1>6, <1>8

-----------------------------------------------------------------------------
(* The two together.                                                       *)

(* What is needed is on connections, and only they are ever closed.        *)
NameInv ==
  /\ needs \in [queues : SUBSET Conns, flows : SUBSET Conns, schedules : SUBSET Conns]
  /\ stuck \subseteq Conns

IInv == ConnInv /\ AppInv /\ NameInv

(* Every step keeps the names of the connections.                          *)
LEMMA NamesKept == AppInv /\ NameInv /\ [StartupNext]_startupVars => NameInv'
<1> SUFFICES ASSUME AppInv, NameInv, [StartupNext]_startupVars PROVE NameInv'
  OBVIOUS
<1>1. ASSUME UNCHANGED <<needs, stuck>> PROVE NameInv'
  BY <1>1 DEF NameInv
<1>2. ASSUME NEW options, Connect(options) PROVE NameInv'
  <2> DEFINE at(jobs) == {j.connection : j \in jobs}
             started == UNION {{f.parent} \cup f.children : f \in app.flows}
  <2>1. /\ needs' = [queues |-> at(app.jobs), flows |-> at(started), schedules |-> at(app.scheduled)]
        /\ stuck' = stuck /\ phase = "assembled"
    BY <1>2 DEF Connect, Configure
  <2>2. /\ \A j \in app.jobs : j.connection \in Conns
        /\ app.scheduled \subseteq app.jobs /\ started \subseteq app.jobs
    BY <2>1 DEF AppInv, JobsInv, FlowsInv
  <2>3. ASSUME NEW jobs, jobs \subseteq app.jobs PROVE at(jobs) \in SUBSET Conns
    BY <2>2, <2>3
  <2>4. at(app.jobs) \in SUBSET Conns /\ at(started) \in SUBSET Conns /\ at(app.scheduled) \in SUBSET Conns
    BY <2>2, <2>3
  <2> HIDE DEF at, started
  <2> QED BY <2>1, <2>4 DEF NameInv
<1>3. ASSUME NEW n \in Conns, NEW ok \in BOOLEAN, NEW closes \in BOOLEAN,
             SetUp(n, ok, closes) \/ Release(n, closes)
      PROVE  NameInv'
  <2>1. needs' = needs /\ stuck' \subseteq stuck \cup {n}
    BY <1>3 DEF SetUp, Release, Close
  <2> QED BY <2>1 DEF NameInv
<1>4. ASSUME Running(Session) PROVE NameInv'
  <2>1. ASSUME NEW n \in Conns, NEW ok \in BOOLEAN, OpenHandle(n, ok) PROVE NameInv'
    BY <1>1, <2>1 DEF OpenHandle
  <2>2. ASSUME NEW ok \in BOOLEAN, MakeRuntime(ok) \/ Probe(ok) PROVE NameInv'
    BY <1>1, <2>2 DEF MakeRuntime, Probe
  <2>3. ASSUME Dispose \/ Closed PROVE NameInv'
    BY <1>1, <2>3 DEF Dispose, Closed
  <2> QED BY <1>3, <1>4, <2>1, <2>2, <2>3 DEF Running, Session
<1>5. ASSUME Running(Stop) PROVE NameInv'
  BY <1>1, <1>5 DEF Running, Stop
<1>6. ASSUME NEW n \in Conns, NEW c \in Clients, Running(Query(n, c)) PROVE NameInv'
  BY <1>1, <1>6 DEF Running, Query
<1>7. ASSUME NEW h \in Handles, NEW c \in Clients,
             Running(Settles(h, c)) \/ Running(IdleDisconnected(h, c))
      PROVE  NameInv'
  BY <1>1, <1>7 DEF Running, Settles, IdleDisconnected, Answered, Rejected, Disconnected, Returns
<1>8. ASSUME Tool PROVE NameInv'
  BY <1>1, <1>8 DEF Tool, ToolOpens, ToolRuns
<1>9. ASSUME UNCHANGED connVars PROVE NameInv'
  BY <1>1, <1>9 DEF connVars
<1>10. \/ UNCHANGED connVars
       \/ \E options \in OptionSets : Connect(options)
       \/ Running(Session) \/ Running(Stop) \/ Tool
       \/ \E n \in Conns, c \in Clients : Running(Query(n, c))
       \/ \E h \in Handles, c \in Clients :
            Running(Settles(h, c)) \/ Running(IdleDisconnected(h, c))
  <2>1. ASSUME NEW services, NEW p, Registry(services, p) PROVE UNCHANGED connVars
    BY <2>1 DEF Registry, Assembles
  <2>2. ASSUME NEW declared, Flows(declared) PROVE UNCHANGED connVars
    BY <2>2 DEF Flows, Assembles
  <2>3. ASSUME NEW workers, Workers(workers) PROVE UNCHANGED connVars
    BY <2>3 DEF Workers, Assembles
  <2>4. ASSUME Schedules PROVE UNCHANGED connVars
    BY <2>4 DEF Schedules, Assembles
  <2>5. ASSUME UNCHANGED startupVars PROVE UNCHANGED connVars
    BY <2>5 DEF startupVars
  <2> QED BY <2>1, <2>2, <2>3, <2>4, <2>5 DEF StartupNext
<1> QED BY <1>2, <1>4, <1>5, <1>6, <1>7, <1>8, <1>9, <1>10

(* What is assembled and what is held outside of the process, whatever     *)
(* classes, connections, clients and options there are.                    *)
THEOREM Invariant == StartupSpec => []IInv
<1>1. StartupInit => IInv
  <2> SUFFICES ASSUME StartupInit PROVE IInv
    OBVIOUS
  <2>1. AppInv
    BY DEF StartupInit, AppInv, Nothing
  <2>2. NameInv
    BY DEF StartupInit, ConnInit, NameInv, NoNeeds
  <2> QED BY <2>1, <2>2, InitEstablishes DEF StartupInit, IInv
<1>2. IInv /\ [StartupNext]_startupVars => IInv'
  BY StepKeeps, AppKeeps, NamesKept DEF IInv
<1> QED BY <1>1, <1>2, PTL DEF StartupSpec

(* What an engine holds has its type.                                      *)
THEOREM TypeCorrect == StartupSpec => []ConnTypeOK
<1>1. IInv => ConnTypeOK
  BY DEF IInv, ConnInv, ClientInv, PcInv, HandleInv, NameInv, ConnTypeOK
<1> QED BY <1>1, Invariant, PTL

(* An application that is accepted can work: a supervisor finds one        *)
(* handler for each job of its routes, no job is handled twice, the        *)
(* parameters are those of the method that is called, nested flows come to *)
(* an end, and every custom retry policy has its provider.                 *)
THEOREM AssemblySoundCorrect == StartupSpec => []AssemblySound
<1>1. IInv => AssemblySound
  BY DEF IInv, AppInv, FlowsInv, AssemblySound
<1> QED BY <1>1, Invariant, PTL

(* A running engine has what it needs, every handle that it, a start half  *)
(* way or a tool opened is closed again, or its closing was tried and      *)
(* failed, and the application's own handles are never closed.             *)
THEOREM HandlesHeldCorrect == StartupSpec => []HandlesHeld
<1>1. IInv => HandlesHeld
  BY HandlesHeldBy DEF IInv
<1> QED BY <1>1, Invariant, PTL

(* A client that goes back to its pool owes nobody an answer.              *)
THEOREM NoSickClientCorrect == StartupSpec => []NoSickClient
<1>1. IInv => NoSickClient
  BY DEF IInv, ConnInv, ClientInv
<1> QED BY <1>1, Invariant, PTL
=============================================================================
