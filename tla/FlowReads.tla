------------------------------ MODULE FlowReads ------------------------------
(***************************************************************************)
(* What a worker reads of the flows in PostgreSQL.  At its activation it   *)
(* looks for the parents that dead processes left behind (WorkerPlan's     *)
(* recover over FlowJobReads.recoveryIds), connection after connection.    *)
(* In a Collect phase it reads the children's results page by page         *)
(* (FlowResultReader), each page from a snapshot to which a second query   *)
(* restores the null results that the store's own snapshot takes for       *)
(* missing (postgresFlowSnapshot).  Other processes go on meanwhile, and   *)
(* once the worker has lost its lease they may even replace the flow.      *)
(***************************************************************************)
EXTENDS Integers, Sequences, SequencesExt, FiniteSets

CONSTANTS
  Routes,       \* the connections of the worker that have a flow reader
  FlowNames,    \* names of flows
  Parents,      \* ids of flow parents
  MaxRecovered, \* the most parents of one connection that are recovered
  Jobs,         \* the contracts of a flow's children
  Batch,        \* the page size of all
  MaxChildren   \* the most children of the flow

ASSUME FlowReadsAssumption == Batch \in Nat \ {0} /\ MaxChildren \in Nat

VARIABLES
  parents,  \* the stored parents: where, of which flow, how far (open stands for
            \* waiting, active and waiting-children, the states the SQL asks for),
            \* and whether a cancelled child's cancellation has still to be cascaded
  recover,  \* the activation: its flows, the connections still to be read, the ids
  left,     \* the parents that were unfinished ever since the activation (history)
  manifest, \* the collected flow's children
  fanOut,   \* which fan-out of that flow is stored
  read,     \* the operation on the reader
  cursors   \* the cursors that the reader has given out

flowVars == <<parents, recover, left, manifest, fanOut, read, cursors>>

Flows == Routes \X FlowNames
States == {"absent", "open", "closed"}
Outcomes == {"null", "data", "failed"}
Manifests == BoundedSeq([job : Jobs, outcome : Outcomes], MaxChildren)
NoRead == [pc |-> "idle", all |-> FALSE, job |-> {}, max |-> 0, limit |-> 0, at |-> 0,
           snapshot |-> <<>>, items |-> <<>>, seen |-> {}]

FlowInit ==
  /\ parents = [p \in Parents |-> [flow |-> <<>>, state |-> "absent", cascade |-> FALSE]]
  /\ recover = [pc |-> "idle", flows |-> {}, unread |-> {}, ids |-> {}]
  /\ left = {}
  /\ manifest = <<>>
  /\ fanOut = 0
  /\ read = NoRead
  /\ cursors = {}

-----------------------------------------------------------------------------
(* Recovery.                                                               *)

Unfinished(parent) == parent.state = "open" \/ parent.cascade

(* A worker is activated with its flows, whatever is stored then.          *)
Activate(flows, stored) ==
  /\ recover.pc = "idle"
  /\ parents' = stored
  /\ recover' = [pc |-> "reading", flows |-> flows, unread |-> Routes, ids |-> {}]
  /\ left' = {p \in Parents : Unfinished(stored[p])}
  /\ UNCHANGED <<manifest, fanOut, read, cursors>>

(* Fault: only the state of a parent is looked at.                         *)
RecoveryIdsOpen(route, names) ==
  {p \in Parents : /\ parents[p].state = "open"
                   /\ \E n \in names : parents[p].flow = <<route, n>>}

(* recoveryIds: the parents of some names in one connection.               *)
RecoveryIds(route, names) ==
  {p \in Parents : Unfinished(parents[p]) /\ \E n \in names : parents[p].flow = <<route, n>>}

(* Fault: what does not fit is left out.                                   *)
RecoverTruncated(route, ok) ==
  /\ recover.pc = "reading" /\ route \in recover.unread
  /\ LET ids == RecoveryIds(route, {n \in FlowNames : <<route, n>> \in recover.flows})
         found == IF Cardinality(ids) > MaxRecovered THEN {CHOOSE p \in ids : TRUE} ELSE ids
         rest == recover.unread \ {route}
     IN recover' = IF ~ok THEN [recover EXCEPT !.pc = "failed"]
                   ELSE [recover EXCEPT !.pc = IF rest = {} THEN "started" ELSE @,
                                        !.unread = rest, !.ids = @ \cup found]
  /\ UNCHANGED <<parents, left, manifest, fanOut, read, cursors>>

(* recover: each connection is asked for its own flows only; more ids than *)
(* are read at once fail the activation.                                   *)
Recover(route, ok) ==
  /\ recover.pc = "reading" /\ route \in recover.unread
  /\ LET ids == RecoveryIds(route, {n \in FlowNames : <<route, n>> \in recover.flows})
         rest == recover.unread \ {route}
     IN recover' = IF ~ok \/ Cardinality(ids) > MaxRecovered
                   THEN [recover EXCEPT !.pc = "failed"]
                   ELSE [recover EXCEPT !.pc = IF rest = {} THEN "started" ELSE @,
                                        !.unread = rest, !.ids = @ \cup ids]
  /\ UNCHANGED <<parents, left, manifest, fanOut, read, cursors>>

(* Other processes start, finish and cascade flows.                        *)
Elsewhere(p, parent) ==
  /\ recover.pc = "reading"
  /\ \/ parents[p].state = "absent" /\ parent.state = "open"
     \/ parents[p].state = "open" /\ parent.state = "closed" /\ parent.flow = parents[p].flow
     \/ parents[p].cascade /\ parent = [parents[p] EXCEPT !.cascade = FALSE]
  /\ parents' = [parents EXCEPT ![p] = parent]
  /\ left' = IF Unfinished(parent) THEN left ELSE left \ {p}
  /\ UNCHANGED <<recover, manifest, fanOut, read, cursors>>

-----------------------------------------------------------------------------
(* Collection.                                                             *)

(* The children as a fan-out stored them; a later one of the same flow has *)
(* children of its own, with results of their own.                         *)
Stored(n) == IF n = 1 THEN manifest
             ELSE [i \in DOMAIN manifest |-> [manifest[i] EXCEPT !.outcome = "data"]]

Collects(children) ==
  /\ fanOut = 0
  /\ manifest' = children /\ fanOut' = 1
  /\ UNCHANGED <<parents, recover, left, read, cursors>>

Replaced ==
  /\ fanOut = 1 /\ read.pc # "idle"
  /\ fanOut' = 2
  /\ UNCHANGED <<parents, recover, left, manifest, read, cursors>>

Reads(to) == read' = to /\ UNCHANGED <<parents, recover, left, manifest, fanOut>>

(* all takes a bound that it will not exceed, page a cursor of this reader.*)
StartAll(job, max) ==
  /\ fanOut # 0 /\ read.pc = "idle" /\ max <= MaxChildren
  /\ Reads([NoRead EXCEPT !.pc = "page", !.all = TRUE, !.job = {job}, !.max = max,
                          !.limit = Batch])
  /\ UNCHANGED cursors

StartPage(job, at, limit) ==
  /\ fanOut # 0 /\ read.pc = "idle" /\ at \in cursors \cup {0}
  /\ Reads([NoRead EXCEPT !.pc = "page", !.job = {job}, !.limit = limit, !.at = at])
  /\ UNCHANGED cursors

(* getFlow of the store: null results are missing.                         *)
Snapshot ==
  /\ read.pc = "page"
  /\ LET snapshot == [i \in DOMAIN manifest |->
           [key |-> i, job |-> manifest[i].job, fanOut |-> fanOut,
            outcome |-> IF Stored(fanOut)[i].outcome = "null" THEN "missing"
                        ELSE Stored(fanOut)[i].outcome]]
     IN Reads([read EXCEPT !.snapshot = snapshot,
                 !.pc = IF \E i \in DOMAIN snapshot : snapshot[i].outcome = "missing"
                        THEN "restore" ELSE "decode"])
  /\ UNCHANGED cursors

Restorable(i) == /\ read.snapshot[i].outcome = "missing"
                 /\ Stored(fanOut)[i].outcome \in {"null", "data"}

(* Fault: what is stored under a child's key is taken for the child's.     *)
RestoreByKey(ok) ==
  /\ read.pc = "restore"
  /\ Reads(IF ~ok THEN [read EXCEPT !.pc = "failed"]
           ELSE [read EXCEPT !.pc = "decode",
                   !.snapshot = [i \in DOMAIN @ |->
                     IF Restorable(i) THEN [@[i] EXCEPT !.outcome = Stored(fanOut)[i].outcome]
                     ELSE @[i]]])
  /\ UNCHANGED cursors

(* The results whose presence the second query establishes, each of the    *)
(* very child of the snapshot.                                             *)
Restore(ok) ==
  /\ read.pc = "restore"
  /\ Reads(IF ~ok \/ \E i \in DOMAIN read.snapshot :
                       Restorable(i) /\ read.snapshot[i].fanOut # fanOut
           THEN [read EXCEPT !.pc = "failed"]
           ELSE [read EXCEPT !.pc = "decode",
                   !.snapshot = [i \in DOMAIN @ |->
                     IF Restorable(i) THEN [@[i] EXCEPT !.outcome = Stored(fanOut)[i].outcome]
                     ELSE @[i]]])
  /\ UNCHANGED cursors

(* The part of the manifest that a page covers; the store may repeat its   *)
(* cursor by mistake.                                                      *)
Covered == read.at + 1 .. IF read.at + read.limit < Len(manifest) THEN read.at + read.limit
                          ELSE Len(manifest)
NextCursors == IF read.at + read.limit >= Len(manifest) THEN {0}
               ELSE {read.at + read.limit, read.at} \ {0}

(* The children of the asked contract in it.                               *)
Selected(positions, job, children) ==
  LET upTo[n \in 0..Len(children)] ==
        IF n = 0 THEN <<>>
        ELSE IF n \in positions /\ {children[n].job} = job
        THEN Append(upTo[n - 1], children[n]) ELSE upTo[n - 1]
  IN upTo[Len(children)]

(* Fault: all ends at the first page without a child of its contract.      *)
NextPageWhileFound(next) ==
  IF next = 0 \/ Selected(Covered, read.job, read.snapshot) = <<>>
  THEN [read EXCEPT !.pc = "done"]
  ELSE IF next \in read.seen THEN [read EXCEPT !.pc = "failed"]
  ELSE [read EXCEPT !.pc = "page", !.seen = @ \cup {next}, !.at = next]

(* Fault: a repeated cursor is followed.                                   *)
NextPageUnseen(next) ==
  IF next = 0 THEN [read EXCEPT !.pc = "done"]
  ELSE [read EXCEPT !.pc = "page", !.seen = @ \cup {next}, !.at = next]

(* all reads on to the last page, unless a cursor comes again.             *)
NextPage(next) ==
  IF next = 0 THEN [read EXCEPT !.pc = "done"]
  ELSE IF next \in read.seen THEN [read EXCEPT !.pc = "failed"]
  ELSE [read EXCEPT !.pc = "page", !.seen = @ \cup {next}, !.at = next]

(* readPage, and the loop of all around it.                                *)
ReadPage(ok, next) ==
  /\ read.pc = "decode" /\ next \in NextCursors
  /\ LET items == read.items \o Selected(Covered, read.job, read.snapshot)
     IN Reads(IF ~ok \/ (read.all /\ Len(items) > read.max) THEN [read EXCEPT !.pc = "failed"]
              ELSE [(IF read.all THEN NextPage(next) ELSE [read EXCEPT !.pc = "done"])
                      EXCEPT !.items = items, !.snapshot = <<>>])
  /\ cursors' = IF ok THEN cursors \cup ({next} \ {0}) ELSE cursors

(* The caller has its answer and may ask again.                            *)
ReadAgain ==
  /\ read.pc \in {"done", "failed"}
  /\ Reads(NoRead)
  /\ UNCHANGED cursors

-----------------------------------------------------------------------------
FlowNext ==
  \/ \E route \in Routes, ok \in BOOLEAN : Recover(route, ok)
  \/ \E p \in Parents, flow \in Flows, state \in {"open", "closed"}, cascade \in BOOLEAN :
       Elsewhere(p, [flow |-> flow, state |-> state, cascade |-> cascade])
  \/ \E job \in Jobs, max \in 0..MaxChildren + 1 : StartAll(job, max)
  \/ \E job \in Jobs, at \in 0..MaxChildren, limit \in 1..MaxChildren : StartPage(job, at, limit)
  \/ Snapshot
  \/ \E ok \in BOOLEAN : Restore(ok)
  \/ \E ok \in BOOLEAN, next \in 0..MaxChildren : ReadPage(ok, next)
  \/ ReadAgain
  \/ Replaced

-----------------------------------------------------------------------------
(* Properties.                                                             *)

(* A worker starts only with every parent of its flows that earlier ones   *)
(* left unfinished, on all its connections, and with none of other flows.  *)
SeedsExact ==
  LET own == {p \in Parents : parents[p].flow \in recover.flows}
  IN recover.pc = "started" => left \cap own \subseteq recover.ids /\ recover.ids \subseteq own

(* What a reader answers are its contract's children, each once and with   *)
(* the outcome that it persisted, a null included: all of them, or those   *)
(* of the page.  When the flow is replaced meanwhile, a child still has no *)
(* result but its own.                                                     *)
CollectExact ==
  read.pc = "done" =>
    /\ fanOut = 1 =>
         LET asked == {key \in IF read.all THEN DOMAIN manifest ELSE Covered :
                         {manifest[key].job} = read.job}
         IN /\ {read.items[i].key : i \in DOMAIN read.items} = asked
            /\ \A i, k \in DOMAIN read.items :
                 i < k => read.items[i].key < read.items[k].key
            /\ \A i \in DOMAIN read.items :
                 read.items[i].outcome = manifest[read.items[i].key].outcome
    /\ \A i \in DOMAIN read.items :
         LET item == read.items[i]
         IN item.outcome \in {Stored(item.fanOut)[item.key].outcome, "missing"}

FlowReadsExact == SeedsExact /\ CollectExact
=============================================================================
