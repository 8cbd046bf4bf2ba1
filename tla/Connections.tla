----------------------------- MODULE Connections -----------------------------
(***************************************************************************)
(* What an engine holds outside of its process: the databases and pools of *)
(* its configured connections, which it opens or borrows, and the clients  *)
(* that its queries check out of the pools (postgresJsonPool).  Beside it  *)
(* an administrative tool opens a database of its own (withDatabase).      *)
(* EngineLifecycle has the session itself; here it is what it does to its  *)
(* connections.                                                            *)
(***************************************************************************)
EXTENDS Integers

CONSTANTS
  Conns,    \* the names that connections may have, in their order
  Clients   \* the clients of one pool

ASSUME ConnsAssumption == Conns \subseteq Nat \ {0}

VARIABLES
  config,   \* the definition of each configured connection
  needs,    \* the connections that queues, flows and schedules name
  session,  \* where the engine is, whether it has to stop, its runtime
  acquired, \* the connections that are acquired and not released
  handle,   \* each pool or database: the engine's own, and 0, the application's
  stuck,    \* the handles whose closing failed (history)
  client,   \* each pool's clients
  tool      \* the tool's database and what its caller was told

connVars == <<config, needs, session, acquired, handle, stuck, client, tool>>

Handles == {0} \cup Conns
Absent == [use |-> "absent", owed |-> FALSE]

ConnTypeOK ==
  /\ DOMAIN config \subseteq Conns
  /\ needs \in [queues : SUBSET Conns, flows : SUBSET Conns, schedules : SUBSET Conns]
  /\ session \in [pc : {"configure", "open", "setup", "runtime", "probe", "ready",
                        "dispose", "release", "end", "closed"},
                  stop : BOOLEAN, runtime : {"none", "live", "disposed"}]
  /\ acquired \subseteq Conns
  /\ handle \in [Handles -> {"none", "open", "closed"}]
  /\ stuck \subseteq Conns
  /\ client \in [Handles -> [Clients -> [use : {"absent", "idle", "query"}, owed : BOOLEAN]]]
  /\ tool \in [handle : {"none", "open", "closed", "stuck"},
               told : {"none", "ok", "error"}]

NoNeeds == [queues |-> {}, flows |-> {}, schedules |-> {}]

ConnInit ==
  /\ config = <<>>
  /\ needs = NoNeeds
  /\ session = [pc |-> "configure", stop |-> FALSE, runtime |-> "none"]
  /\ acquired = {}
  /\ handle = [h \in Handles |-> IF h = 0 THEN "open" ELSE "none"]
  /\ stuck = {}
  /\ client = [h \in Handles |-> [c \in Clients |-> Absent]]
  /\ tool = [handle |-> "none", told |-> "none"]

-----------------------------------------------------------------------------
(* Configuration.                                                          *)

Options == [adapter : {"postgres", "sqlite"}, path : BOOLEAN, native : BOOLEAN,
            valid : BOOLEAN, scope : {1, 2}, flows : BOOLEAN, schedules : BOOLEAN]

(* postgres and sqliteConnection: either a path (a URL) or a native handle *)
(* is given, the values are in range, and SQLite has no flows.             *)
DefineConnection(o) ==
  IF o.path = o.native \/ ~o.valid \/ (o.adapter = "sqlite" /\ o.flows) THEN {}
  ELSE {[adapter |-> o.adapter, owned |-> o.path, scope |-> o.scope,
         flows |-> o.flows, schedules |-> o.schedules]}

(* Two connections of one adapter to one database, its path or its handle. *)
Boundary(d) == <<d.adapter, d.owned, d.scope>>

Fail == [session EXCEPT !.pc = "dispose"]

(* The configuration as a whole, before the first await: every queue has   *)
(* its connection, no storage is configured twice.                         *)
Configure(options, need) ==
  /\ session.pc = "configure"
  /\ \A n \in DOMAIN options : DefineConnection(options[n]) # {}
  /\ config' = [n \in DOMAIN options |-> CHOOSE d \in DefineConnection(options[n]) : TRUE]
  /\ needs' = need
  /\ session' =
       IF \/ ~(need.queues \subseteq DOMAIN options)
          \/ \E m, n \in DOMAIN options : m # n /\ Boundary(config'[m]) = Boundary(config'[n])
         THEN Fail ELSE [session EXCEPT !.pc = "open"]
  /\ UNCHANGED <<acquired, handle, stuck, client, tool>>

-----------------------------------------------------------------------------
(* Acquisition, one connection after the other.                            *)

NextToAcquire == {n \in DOMAIN config \ acquired : \A m \in DOMAIN config \ acquired : n <= m}

(* An owned database is opened, an owned pool created; either may fail.    *)
OpenHandle(n, ok) ==
  /\ session.pc = "open" /\ n \in NextToAcquire
  /\ IF session.stop \/ ~ok
       THEN session' = Fail /\ UNCHANGED handle
       ELSE /\ session' = [session EXCEPT !.pc = "setup"]
            /\ handle' = IF config[n].owned THEN [handle EXCEPT ![n] = "open"] ELSE handle
  /\ UNCHANGED <<config, needs, acquired, stuck, client, tool>>

(* release of a database: only an owned one is closed, once; it is not     *)
(* tried again when that fails.                                            *)
Close(n, ok) ==
  IF ~config[n].owned THEN UNCHANGED <<handle, stuck>>
  ELSE IF ok \/ config[n].adapter = "postgres"
    THEN handle' = [handle EXCEPT ![n] = "closed"] /\ UNCHANGED stuck
    ELSE stuck' = stuck \cup {n} /\ UNCHANGED handle

(* Fault: only what was acquired is released.                              *)
SetUpUnguarded(n, ok, closes) ==
  /\ session.pc = "setup" /\ n \in NextToAcquire
  /\ IF ok THEN acquired' = acquired \cup {n} /\ session' = [session EXCEPT !.pc = "open"]
           ELSE session' = Fail /\ UNCHANGED acquired
  /\ UNCHANGED <<config, needs, handle, stuck, client, tool>>

(* The pragmas and layers of what was opened; when they fail, it is closed *)
(* before the acquisition fails.                                           *)
SetUp(n, ok, closes) ==
  /\ session.pc = "setup" /\ n \in NextToAcquire
  /\ IF ok
       THEN /\ acquired' = acquired \cup {n}
            /\ session' = [session EXCEPT !.pc = "open"]
            /\ UNCHANGED <<handle, stuck>>
       ELSE /\ session' = Fail
            /\ Close(n, closes)
            /\ UNCHANGED acquired
  /\ UNCHANGED <<config, needs, client, tool>>

(* Fault: the stores are looked at for queues only.                        *)
MakeRuntimeAnyway(ok) ==
  /\ session.pc = "open" /\ NextToAcquire = {}
  /\ session' = IF session.stop \/ ~ok THEN Fail
                ELSE [session EXCEPT !.pc = "probe", !.runtime = "live"]
  /\ UNCHANGED <<config, needs, acquired, handle, stuck, client, tool>>

(* Fault: only flows are asked for a store.                                *)
MakeRuntimeUnscheduled(ok) ==
  /\ session.pc = "open" /\ NextToAcquire = {}
  /\ session' =
       IF session.stop \/ ~ok \/ \E n \in needs.flows : n \notin DOMAIN config \/ ~config[n].flows
         THEN Fail ELSE [session EXCEPT !.pc = "probe", !.runtime = "live"]
  /\ UNCHANGED <<config, needs, acquired, handle, stuck, client, tool>>

(* Everything is acquired: flows and schedules need a store wherever they  *)
(* take place; then the runtime is made.                                   *)
MakeRuntime(ok) ==
  /\ session.pc = "open" /\ NextToAcquire = {}
  /\ session' =
       IF \/ session.stop \/ ~ok
          \/ \E n \in needs.flows : n \notin DOMAIN config \/ ~config[n].flows
          \/ \E n \in needs.schedules : n \notin DOMAIN config \/ ~config[n].schedules
         THEN Fail ELSE [session EXCEPT !.pc = "probe", !.runtime = "live"]
  /\ UNCHANGED <<config, needs, acquired, handle, stuck, client, tool>>

(* The stores are probed, by queries of their own.                         *)
Probe(ok) ==
  /\ session.pc = "probe"
  /\ session' = IF session.stop \/ ~ok THEN Fail ELSE [session EXCEPT !.pc = "ready"]
  /\ UNCHANGED <<config, needs, acquired, handle, stuck, client, tool>>

-----------------------------------------------------------------------------
(* Shutdown.                                                               *)

Stop ==
  /\ ~session.stop
  /\ session' = [session EXCEPT !.stop = TRUE,
                                !.pc = IF @ = "ready" THEN "dispose" ELSE @]
  /\ UNCHANGED <<config, needs, acquired, handle, stuck, client, tool>>

(* The runtime stops what runs in it; a query may stay in flight.          *)
Dispose ==
  /\ session.pc = "dispose"
  /\ session' = [session EXCEPT !.pc = "release",
                                !.runtime = IF @ = "live" THEN "disposed" ELSE @]
  /\ UNCHANGED <<config, needs, acquired, handle, stuck, client, tool>>

NextToRelease == {n \in acquired : \A m \in acquired : m <= n}

(* The last acquired first.  An owned pool ends when all its clients are   *)
(* back, the idle ones are closed at once.                                 *)
Release(n, closes) ==
  /\ session.pc = "release" /\ n \in NextToRelease
  /\ \A c \in Clients : client[n][c].use # "query"
  /\ Close(n, closes)
  /\ client' = [client EXCEPT ![n] = [c \in Clients |-> Absent]]
  /\ acquired' = acquired \ {n}
  /\ UNCHANGED <<config, needs, session, tool>>

Closed ==
  /\ session.pc = "release" /\ acquired = {}
  /\ session' = [session EXCEPT !.pc = "closed"]
  /\ UNCHANGED <<config, needs, acquired, handle, stuck, client, tool>>

-----------------------------------------------------------------------------
(* The JSON view of a pool.  Each query checks a client out; it is settled *)
(* by its answer or by the connection's error, and then gives it back.     *)

Handle(n) == IF config[n].owned THEN n ELSE 0

Query(n, c) ==
  /\ session.runtime = "live" /\ n \in acquired
  /\ config[n].adapter = "postgres"
  /\ client[Handle(n)][c].use # "query"
  /\ client' = [client EXCEPT ![Handle(n)][c] = [use |-> "query", owed |-> TRUE]]
  /\ UNCHANGED <<config, needs, session, acquired, handle, stuck, tool>>

InFlight(h, c) == client[h][c] = [use |-> "query", owed |-> TRUE]
Returns(h, c, as) ==
  /\ client' = [client EXCEPT ![h][c] = as]
  /\ UNCHANGED <<config, needs, session, acquired, handle, stuck, tool>>

(* The answer: the client is healthy.                                      *)
Answered(h, c) == InFlight(h, c) /\ Returns(h, c, [use |-> "idle", owed |-> FALSE])

(* Fault: a client goes back to the pool however its query ended.          *)
RejectedHealthy(h, c, owed) ==
  InFlight(h, c) /\ Returns(h, c, [use |-> "idle", owed |-> owed])

(* The query fails, with the server's answer or before it: the client goes *)
(* back with the error, and the pool drops it.                             *)
Rejected(h, c, owed) == InFlight(h, c) /\ Returns(h, c, Absent)

(* Fault: nobody listens to the client's error event.                      *)
DisconnectedUnheard(h, c) ==
  /\ InFlight(h, c)
  /\ Returns(h, c, [use |-> "query", owed |-> FALSE])

(* The connection breaks and the query itself is never settled: the error  *)
(* event is raced with it.                                                 *)
Disconnected(h, c) == InFlight(h, c) /\ Returns(h, c, Absent)

(* The pool replaces an idle client that breaks.                           *)
IdleDisconnected(h, c) == client[h][c].use = "idle" /\ Returns(h, c, Absent)

Settles(h, c) ==
  \/ Answered(h, c)
  \/ \E owed \in BOOLEAN : Rejected(h, c, owed)
  \/ Disconnected(h, c)

-----------------------------------------------------------------------------
(* withDatabase: the tool of a migration or a check.                       *)

ToolOpens(ok) ==
  /\ tool = [handle |-> "none", told |-> "none"]
  /\ tool' = IF ok THEN [tool EXCEPT !.handle = "open"] ELSE [tool EXCEPT !.told = "error"]
  /\ UNCHANGED <<config, needs, session, acquired, handle, stuck, client>>

(* Fault: a failed migration leaves its database open.                     *)
ToolRunsUnguarded(ok, closes) ==
  /\ tool.handle = "open" /\ tool.told = "none"
  /\ tool' = [handle |-> IF ~ok THEN "open" ELSE IF closes THEN "closed" ELSE "stuck",
              told |-> IF ok /\ closes THEN "ok" ELSE "error"]
  /\ UNCHANGED <<config, needs, session, acquired, handle, stuck, client>>

(* Whatever the operation does, the database is closed.                    *)
ToolRuns(ok, closes) ==
  /\ tool.handle = "open" /\ tool.told = "none"
  /\ tool' = [handle |-> IF closes THEN "closed" ELSE "stuck",
              told |-> IF ok /\ closes THEN "ok" ELSE "error"]
  /\ UNCHANGED <<config, needs, session, acquired, handle, stuck, client>>
=============================================================================
