------------------------------ MODULE Startup ------------------------------
(***************************************************************************)
(* An application starts, serves and stops: what it assembles from its     *)
(* classes decides which connections it needs, it acquires the configured  *)
(* ones, queries run through their pools, and all is given back.  It may   *)
(* be told to stop at any time.                                            *)
(***************************************************************************)
EXTENDS Assembly, Connections

CONSTANTS
  Services,    \* decorated queue classes, of which an application has some
  Providers,   \* sequences of retry policy providers
  FlowSets,    \* sets of flow declarations
  WorkerSets,  \* sets of worker classes
  OptionSets   \* options of the configured connections

ASSUME StartupAssumption ==
  /\ \A s \in Services : s.connection \in Conns /\ \A p, q \in s.policy : p = q
  /\ \A declared \in FlowSets : IsFiniteSet(declared)
  /\ \A workers \in WorkerSets : \A w \in workers :
       /\ \A v \in workers : w.class = v.class => w = v
       /\ Len(w.chain) \in Nat /\ DOMAIN w.chain = 1..Len(w.chain)
  /\ \A options \in OptionSets :
       DOMAIN options \subseteq Conns /\ \A n \in DOMAIN options : options[n] \in Options

VARIABLES
  phase,  \* how much is assembled
  app     \* what is assembled so far

startupVars == <<phase, app, connVars>>

Nothing == [jobs |-> {}, retries |-> {}, flows |-> {}, plans |-> {}, workers |-> {},
            scheduled |-> {}]

StartupInit ==
  /\ ConnInit
  /\ phase = "registry"
  /\ app = Nothing

(* A refused assembly ends the bootstrap before anything is opened.        *)
Assembles(at, results, then) ==
  /\ phase = at
  /\ IF results = {} THEN phase' = "refused" /\ app' = Nothing
     ELSE phase' = then /\ app' \in results
  /\ UNCHANGED connVars

Registered(jobs, retries) == [Nothing EXCEPT !.jobs = jobs, !.retries = retries]

Registry(services, providers) ==
  /\ tool.told = "none" /\ tool.handle = "none"
  /\ Assembles("registry",
       {Registered(jobs, retries) :
          jobs \in UNION {Entries(j) : j \in Initialize(services)},
          retries \in RetryPolicies(providers)},
       "flows")

Flows(declared) ==
  Assembles("flows",
    {[app EXCEPT !.flows = flows] : flows \in DiscoverFlows(declared, app.jobs)},
    "workers")

(* A process without workers discovers none.                               *)
Workers(workers) ==
  Assembles("workers",
    {[app EXCEPT !.plans = plans, !.workers = workers] :
       plans \in IF workers = {} THEN {{}}
                 ELSE DiscoverWorkers(workers, app.jobs, app.flows, app.retries)},
    "schedules")

Schedules ==
  Assembles("schedules",
    {[app EXCEPT !.scheduled = scheduled] : scheduled \in CompileSchedules(app.jobs)},
    "assembled")

(* The session starts with what the assembly needs.                        *)
Connect(options) ==
  /\ phase = "assembled"
  /\ Configure(options,
       [queues |-> {j.connection : j \in app.jobs},
        flows |-> {j.connection : j \in UNION {{f.parent} \cup f.children : f \in app.flows}},
        schedules |-> {j.connection : j \in app.scheduled}])
  /\ phase' = "started" /\ app' = Nothing

Running(step) == phase = "started" /\ step /\ UNCHANGED <<phase, app>>

Session ==
  \/ \E n \in Conns, ok, closes \in BOOLEAN :
       OpenHandle(n, ok) \/ SetUp(n, ok, closes) \/ Release(n, closes)
  \/ \E ok \in BOOLEAN : MakeRuntime(ok) \/ Probe(ok)
  \/ Dispose \/ Closed

(* A process may run the tool instead.                                     *)
Tool ==
  /\ phase = "registry"
  /\ \E ok, closes \in BOOLEAN : ToolOpens(ok) \/ ToolRuns(ok, closes)
  /\ UNCHANGED <<phase, app>>

StartupNext ==
  \/ \E services \in {S \in SUBSET Services : Cardinality(S) <= 3}, p \in Providers :
       Registry(services, p)
  \/ \E declared \in FlowSets : Flows(declared)
  \/ \E workers \in WorkerSets : Workers(workers)
  \/ Schedules
  \/ \E options \in OptionSets : Connect(options)
  \/ Running(Session)
  \/ Running(Stop)
  \/ \E n \in Conns, c \in Clients : Running(Query(n, c))
  \/ \E h \in Handles, c \in Clients :
       Running(Settles(h, c)) \/ Running(IdleDisconnected(h, c))
  \/ Tool

(* Startup and shutdown go on, and a query ends one way or another.        *)
StartupSpec ==
  /\ StartupInit /\ [][StartupNext]_startupVars
  /\ WF_startupVars(Running(Session))
  /\ \A h \in Handles, c \in Clients : WF_startupVars(Running(Settles(h, c)))

-----------------------------------------------------------------------------
(* Properties.                                                             *)

(* A supervisor finds one handler for a job of its routes, and no job is   *)
(* handled by two.                                                         *)
Handled == UNION {p.routes : p \in app.plans}
RoutesTold ==
  /\ \A p \in app.plans : \A j, k \in p.routes : j.queue = k.queue /\ j.name = k.name => j = k
  /\ \A j \in Handled : Cardinality({p \in app.plans : j \in p.routes}) = 1
  /\ \A w, v \in app.workers : \A h \in Handlers(w), g \in Handlers(v) :
       h[2] = g[2] => w = v /\ h = g

(* The method that is called has declared its own parameters.              *)
ParametersOwn ==
  \A w \in app.workers : \A h \in Handlers(w) :
    LET called == CHOOSE i \in DOMAIN w.chain :
                    /\ h[1] \in DOMAIN w.chain[i]
                    /\ \A l \in i+1..Len(w.chain) : h[1] \notin DOMAIN w.chain[l]
    IN w.chain[called][h[1]].annotated

(* Flows start flows by their children, but not in a circle: among any of  *)
(* them one starts none of them.                                           *)
NestingEnds ==
  \A some \in (SUBSET app.flows) \ {{}} :
    \E f \in some : \A g \in some : g.parent \notin f.children

PoliciesProvided ==
  \A j \in Handled : \A policy \in j.policy : \E r \in app.retries : r.policy = policy /\ r.static

(* What is accepted works: a supervisor finds one handler for a job of its *)
(* routes, no job is handled twice, and each handler's own parameters are  *)
(* declared; nested flows come to an end; a custom policy can be asked, by *)
(* a provider that is there without a request.                             *)
AssemblySound ==
  phase = "assembled" => RoutesTold /\ ParametersOwn /\ NestingEnds /\ PoliciesProvided

(* A running engine has a connection and a store for whatever takes place  *)
(* in it, and a database that is open.                                     *)
ReadyServes ==
  session.runtime = "live" =>
    /\ needs.queues \cup needs.flows \cup needs.schedules \subseteq DOMAIN config
    /\ \A n \in needs.flows : config[n].flows
    /\ \A n \in needs.schedules : config[n].schedules
    /\ \A n \in DOMAIN config : handle[Handle(n)] = "open"

(* However a start or a tool ends, half way too, every handle they opened  *)
(* is closed again, or its closing was tried and failed; the application's *)
(* are never closed, and nothing is while the runtime uses it.             *)
HandlesClosed ==
  /\ session.pc = "closed" => \A n \in Conns : handle[n] = "open" => n \in stuck
  /\ handle[0] = "open"
  /\ \A n \in Conns : handle[n] = "closed" => session.runtime # "live"
  /\ tool.told # "none" => tool.handle # "open"

(* An engine holds the handles it needs for as long as it runs, and none   *)
(* once it, or its start half way, has ended.                              *)
HandlesHeld == ReadyServes /\ HandlesClosed

(* A client in the pool owes nobody an answer: the next query cannot get   *)
(* the one of the query before.                                            *)
NoSickClient == \A h \in Handles, c \in Clients : client[h][c].use = "idle" => ~client[h][c].owed

(* A stop ends, whatever is being acquired or in flight: no pool waits for *)
(* a client that never comes back.                                         *)
ShutdownCompletes == session.stop ~> session.pc = "closed"
=============================================================================
