------------------------------ MODULE Assembly ------------------------------
(***************************************************************************)
(* What an application assembles before it opens anything: the registry of *)
(* its queues (MqRegistry), its retry policies, flows, workers and         *)
(* schedules (MqEngineHost.onApplicationBootstrap).  Each is discovered    *)
(* from decorated classes, on their own and on inherited prototypes, and   *)
(* is refused when it could not work later.                                *)
(*                                                                         *)
(* A prototype chain is a sequence of functions, the base class first.  An *)
(* operator that refuses its input returns the empty set.                  *)
(***************************************************************************)
EXTENDS Integers, Sequences, FiniteSets

Only(S) == CHOOSE x \in S : TRUE

(* What each class of a chain declares of a member: the nearest counts.    *)
Inherited(declared) ==
  LET levels == {i \in DOMAIN declared : declared[i] # {}}
  IN IF levels = {} THEN {} ELSE declared[CHOOSE i \in levels : \A l \in levels : l <= i]

Members(chain) == UNION {DOMAIN chain[i] : i \in DOMAIN chain}

-----------------------------------------------------------------------------
(* Queues.  A QueueService is a class with its own identity; its chain     *)
(* gives each property its @Job name and its @Schedule keys.               *)

GetJobMetadata(chain, property) ==
  Inherited([i \in DOMAIN chain |->
    IF property \in DOMAIN chain[i] THEN chain[i][property].job ELSE {}])

(* A class that schedules a property replaces what it inherits.           *)
ScheduleMetadata(chain, property) ==
  Inherited([i \in DOMAIN chain |->
    IF property \in DOMAIN chain[i] THEN chain[i][property].schedules ELSE {}])

Identity(job) == <<job.connection, job.queue, job.name>>

(* getQueueDefinition: every property, own, inherited or only scheduled,   *)
(* needs a name, no two the same.                                          *)
GetQueueDefinition(service) ==
  LET properties == Members(service.chain)
      Name(p) == GetJobMetadata(service.chain, p)
  IN IF \/ properties = {}
        \/ \E p \in properties : Name(p) = {}
        \/ \E p, q \in properties : p # q /\ Name(p) = Name(q)
       THEN {}
       ELSE {{[connection |-> service.connection, queue |-> service.name,
               name |-> Only(Name(p)), contract |-> <<service.fields, p>>,
               controls |-> service.controls, delay |-> service.delay,
               policy |-> service.policy,
               schedules |-> ScheduleMetadata(service.chain, p)] : p \in properties}}

(* MqRegistry.initialize: singletons only, every queue and job once.       *)
Initialize(services) ==
  LET jobs == UNION UNION {GetQueueDefinition(s) : s \in services}
  IN IF \/ \E s \in services : ~s.static \/ GetQueueDefinition(s) = {}
        \/ \E s, t \in services :
             s # t /\ s.connection = t.connection /\ s.name = t.name
        \/ \E j, k \in jobs : j # k /\ Identity(j) = Identity(k)
       THEN {} ELSE {jobs}

(* The host's entries: a contract instance stands for one job.             *)
Entries(jobs) == IF \E j, k \in jobs : j # k /\ j.contract = k.contract THEN {} ELSE {jobs}

-----------------------------------------------------------------------------
(* Retry policies.  Providers is a sequence, as several may claim a name.  *)

RetryPolicies(providers) ==
  IF \E i, k \in DOMAIN providers : i # k /\ providers[i].policy = providers[k].policy
    THEN {} ELSE {{providers[i] : i \in DOMAIN providers}}

(* require: a job with a custom policy needs its provider, a singleton.    *)
Require(job, retries) ==
  job.policy # {} => \E r \in retries : r.policy \in job.policy /\ r.static

-----------------------------------------------------------------------------
(* Flows.  A worker class may own a flow; its references name properties.  *)

ResolveFlowReference(reference, jobs) == {j \in jobs : j.contract = reference}

(* The phase of each method, as the nearest class of the chain has it.     *)
FlowPhaseMetadata(chain) ==
  [method \in Members(chain) |->
     Only(Inherited([i \in DOMAIN chain |->
       IF method \in DOMAIN chain[i] THEN {chain[i][method]} ELSE {}]))]

(* The checks on one flow: its two phases, methods that are no processors, *)
(* its parent, whose queue holds no permits, and its children, whose       *)
(* results are told apart by connection and name only.                     *)
CompileFlow(flow, jobs) ==
  LET phases == FlowPhaseMetadata(flow.chain)
      parent == ResolveFlowReference(flow.parent, jobs)
      children == UNION {ResolveFlowReference(c, jobs) : c \in flow.children}
  IN IF \/ \E kind \in {"fanOut", "collect"} :
             Cardinality({m \in DOMAIN phases : phases[m] = kind}) # 1
        \/ DOMAIN phases \cap flow.processors # {}
        \/ parent = {} \/ \E c \in flow.children : ResolveFlowReference(c, jobs) = {}
        \/ \E p \in parent : p.controls # "none"
        \/ \E c, d \in children : c # d /\ c.connection = d.connection /\ c.name = d.name
        \/ \E c \in children : c.controls = "perKey" \/ c.delay # 0
       THEN {}
       ELSE {[name |-> flow.name, owner |-> flow.owner, parent |-> Only(parent),
              children |-> children]}

(* Fault: only the flows that a flow's children start are looked at.       *)
VisitShallow(flow, path, flows) == \A c \in flow.children : c # flow.parent

(* visit: the nested flows of the children, down every path of names; a    *)
(* flow is among the result for a path when it ends from there.            *)
Visiting(flows) ==
  LET visit[path \in SUBSET {f.name : f \in flows}] ==
        {flow \in flows :
           /\ flow.name \notin path
           /\ \A nested \in flows :
                nested.parent \in flow.children => nested \in visit[path \cup {flow.name}]}
  IN visit

Visit(flow, path, flows) == flow \in Visiting(flows)[path]

(* discoverFlows: names and parents are unique, and nesting ends.          *)
DiscoverFlows(declared, jobs) ==
  LET flows == UNION {CompileFlow(f, jobs) : f \in declared}
  IN IF \/ \E f \in declared : CompileFlow(f, jobs) = {}
        \/ \E f, g \in declared :
             f # g /\ (f.name = g.name \/ f.parent = g.parent)
        \/ \E f \in flows : ~Visit(f, {}, flows)
       THEN {} ELSE {flows}

-----------------------------------------------------------------------------
(* Workers.  The chain of a worker gives each method the contract it is    *)
(* @Process of, if any, and whether its parameters are annotated.          *)

ProcessMetadata(chain, method) ==
  Inherited([i \in DOMAIN chain |->
    IF method \in DOMAIN chain[i] THEN chain[i][method].process ELSE {}])

(* Fault: an override borrows the parameters of the method it overrides.   *)
ParametersBorrowed(chain, method) ==
  \E i \in DOMAIN chain : method \in DOMAIN chain[i] /\ chain[i][method].annotated

(* parameterMetadata: of the implementation that is called.                *)
ParameterMetadata(chain, method) ==
  Inherited([i \in DOMAIN chain |->
    IF method \in DOMAIN chain[i] THEN {chain[i][method].annotated} ELSE {}]) = {TRUE}

Handlers(worker) ==
  UNION {{m} \X ProcessMetadata(worker.chain, m) : m \in Members(worker.chain)}

(* A flow's service is a worker, with processors besides the flow.         *)
ServesFlows(flows, workers) ==
  \A f \in flows : \E w \in workers :
    w.class = f.owner /\ w.name # {} /\ Handlers(w) # {}

(* Fault: the flow's parent is not among the routes of its worker.         *)
CompileWorkerAlone(worker, invoked, flows) ==
  IF \E i, k \in invoked : i # k /\ i.queue = k.queue /\ i.name = k.name THEN {}
  ELSE {[name |-> worker.name, routes |-> invoked \cup
          {f.parent : f \in {f \in flows : f.owner = worker.class}}]}

(* compileWorker: the supervisor routes by queue and name, without the     *)
(* connection; the parents of the worker's own flows are routes as well.   *)
CompileWorker(worker, invoked, flows) ==
  LET routes == invoked \cup {f.parent : f \in {f \in flows : f.owner = worker.class}}
  IN IF \E i, k \in routes : i # k /\ i.queue = k.queue /\ i.name = k.name THEN {}
     ELSE {[name |-> worker.name, routes |-> routes]}

(* Fault: only a worker's own methods are compared.                        *)
ProcessedTwiceAlone(w, h, v, g) == w = v /\ h # g /\ h[2] = g[2]

ProcessedTwice(w, h, v, g) == <<w, h>> # <<v, g>> /\ h[2] = g[2]

(* discoverWorkers: each @Worker has a name of its own and a processor,    *)
(* each processor one registered job, each job one processor, the parent   *)
(* of a flow none.  A class without @Worker must not have processors.      *)
DiscoverWorkers(workers, jobs, flows, retries) ==
  LET declared == {w \in workers : w.name # {}}
      Jobs(w) == {j \in jobs : \E h \in Handlers(w) : h[2] = j.contract}
      Owned(w) == {f.parent : f \in {f \in flows : f.owner = w.class}}
      plans == UNION {CompileWorker(w, Jobs(w), flows) : w \in declared}
  IN IF \/ ~ServesFlows(flows, workers)
        \/ \E w \in workers : w.name = {} /\ Handlers(w) # {}
        \/ \E w, v \in declared : w # v /\ w.name = v.name
        \/ \E w \in declared : Handlers(w) = {}
        \/ \E w, v \in declared : \E h \in Handlers(w), g \in Handlers(v) :
             ProcessedTwice(w, h, v, g)
        \/ \E w \in declared : \E h \in Handlers(w) :
             \/ h[2] \notin {j.contract : j \in jobs}
             \/ h[2] \in {f.parent.contract : f \in flows}
             \/ ~ParameterMetadata(w.chain, h[1])
        \/ \E w \in declared : \E j \in Jobs(w) \cup Owned(w) : ~Require(j, retries)
        \/ \E w \in declared : CompileWorker(w, Jobs(w), flows) = {}
       THEN {} ELSE {plans}

-----------------------------------------------------------------------------
(* Schedules.                                                              *)

(* compileSchedules: no key twice in a connection, no schedule of a job    *)
(* that is limited per key or delayed.                                     *)
CompileSchedules(jobs) ==
  LET scheduled == {j \in jobs : j.schedules # {}}
  IN IF \/ \E j, k \in scheduled :
             j # k /\ j.connection = k.connection /\ j.schedules \cap k.schedules # {}
        \/ \E j \in scheduled : j.controls = "perKey" \/ j.delay # 0
       THEN {} ELSE {scheduled}
=============================================================================
