------------------------------ MODULE JobCalls ------------------------------
(***************************************************************************)
(* The calls of a job contract that publish.  The host binds the contract  *)
(* to its application's client and detaches it when it stops; a call looks *)
(* its client up once and uses it after its payloads have been validated   *)
(* by the application's asynchronous schemas.  Several applications of one *)
(* process may come and go with the same contract.                         *)
(***************************************************************************)
EXTENDS Integers, Sequences, SequencesExt

CONSTANTS
  Applications,  \* the applications of the process
  Callers,       \* who calls the contract
  MaxItems       \* the most items of one call

VARIABLES
  application,  \* each application's bootstrap and its engine session
  binding,      \* the owner that the contract is bound to, if any
  call,         \* each caller's call, with its client and, as a history, the
                \* application that its contract was bound to when it was made
  published     \* the items that each call has published, and where

callVars == <<application, binding, call, published>>

(* What becomes of an item: its schema or its contract's key refuses it    *)
(* (malformed), or the client refuses its options.                         *)
Items == {"good", "malformed", "refused"}
NoCall == [pc |-> "idle", op |-> "none", items |-> <<>>, at |-> {}, client |-> {},
           left |-> {}, told |-> "none"]

CallsInit ==
  /\ application = [a \in Applications |-> [host |-> "new", session |-> "new"]]
  /\ binding = {}
  /\ call = [c \in Callers |-> NoCall]
  /\ published = [c \in Callers |-> {}]

-----------------------------------------------------------------------------
(* The host.                                                               *)

(* Fault: whoever is bound is detached.                                    *)
UnbindAny(a) == {}

(* unbindJobClient: an owner only removes its own binding.                 *)
Unbind(a) == binding \ {a}

(* The bootstrap starts the session.                                       *)
Bootstrap(a) ==
  /\ application[a].host = "new"
  /\ application' = [application EXCEPT ![a] = [host |-> "starting", session |-> "ready"]]
  /\ UNCHANGED <<binding, call, published>>

(* Fault: the latest application takes the contract over.                  *)
BindOver(a) ==
  /\ application[a].host = "starting"
  /\ binding' = {a}
  /\ application' = [application EXCEPT ![a].host = "bound"]
  /\ UNCHANGED <<call, published>>

(* bindJobClient, after the storage calls of the bootstrap, during which   *)
(* it may have been stopped; a contract that is bound fails the bootstrap, *)
(* which detaches and closes.                                              *)
Bind(a) ==
  /\ application[a].host = "starting"
  /\ IF binding # {}
       THEN /\ binding' = Unbind(a)
            /\ application' = [application EXCEPT ![a] = [host |-> "failed", session |-> "closed"]]
       ELSE /\ binding' = {a}
            /\ application' = [application EXCEPT ![a].host = "bound"]
  /\ UNCHANGED <<call, published>>

(* Workers, publisher and scheduler are activated, if there are any.       *)
Activated(a, ok) ==
  /\ application[a].host \in {"starting", "bound"}
  /\ application[a].host = "starting" => ~ok
  /\ IF ok THEN /\ application' = [application EXCEPT ![a].host = "serving"]
                /\ UNCHANGED binding
     ELSE /\ application' = [application EXCEPT ![a] = [host |-> "failed", session |-> "closed"]]
          /\ binding' = Unbind(a)
  /\ UNCHANGED <<call, published>>

(* onModuleDestroy: it detaches what is bound by now, then it closes.      *)
Destroy(a) ==
  /\ application[a].session = "ready"
  /\ application' = [application EXCEPT ![a].session = "closed"]
  /\ binding' = Unbind(a)
  /\ UNCHANGED <<call, published>>

-----------------------------------------------------------------------------
(* The calls.                                                              *)

CallGoes(c, to) == call' = [call EXCEPT ![c] = to]
Settled(c, told) == CallGoes(c, [call[c] EXCEPT !.pc = "settled", !.told = told])

(* enqueue, enqueueMany, prepare and execute look for the client first.    *)
StartCall(c, op, items) ==
  /\ call[c].pc = "idle"
  /\ op # "many" => Len(items) = 1
  /\ CallGoes(c, [NoCall EXCEPT !.pc = IF binding = {} THEN "settled" ELSE "parsing",
                                !.told = IF binding = {} THEN "unbound" ELSE "none",
                                !.op = op, !.items = items, !.at = binding,
                                !.client = binding, !.left = DOMAIN items])
  /\ UNCHANGED <<application, binding, published>>

(* Fault: an item is published as soon as it is encoded.                   *)
EncodedEach(c, i) ==
  /\ call[c].pc = "parsing" /\ i \in call[c].left
  /\ IF call[c].items[i] # "good" THEN Settled(c, "refused") /\ UNCHANGED published
     ELSE /\ CallGoes(c, [call[c] EXCEPT !.left = @ \ {i}])
          /\ published' = [published EXCEPT ![c] = @ \cup (call[c].client \X {i})]
  /\ UNCHANGED <<application, binding>>

(* Schemas parse and encode the items side by side, in any order; the      *)
(* first refusal is the call's.                                            *)
Encoded(c, i) ==
  /\ call[c].pc = "parsing" /\ i \in call[c].left
  /\ IF call[c].items[i] = "malformed" THEN Settled(c, "refused")
     ELSE CallGoes(c, [call[c] EXCEPT !.left = @ \ {i}])
  /\ UNCHANGED <<application, binding, published>>

Ready(c) == \A a \in call[c].client : application[a].session = "ready"

(* Fault: the client is looked up again when it is needed.                 *)
ForwardedToBound(c) ==
  /\ call[c].pc = "parsing" /\ call[c].left = {}
  /\ CallGoes(c, [call[c] EXCEPT
       !.client = binding,
       !.pc = IF "refused" \in Range(call[c].items) \/ binding = {} THEN "settled" ELSE "engine",
       !.told = IF "refused" \in Range(call[c].items) \/ binding = {} THEN "refused" ELSE @])
  /\ UNCHANGED <<application, binding, published>>

(* The client takes all items' options, then asks its engine, which only   *)
(* a ready session does.                                                   *)
Forwarded(c) ==
  /\ call[c].pc = "parsing" /\ call[c].left = {}
  /\ IF "refused" \in Range(call[c].items) THEN Settled(c, "refused")
     ELSE IF ~Ready(c) THEN Settled(c, "closed")
     ELSE CallGoes(c, [call[c] EXCEPT !.pc = "engine"])
  /\ UNCHANGED <<application, binding, published>>

(* The engine publishes all items at once, or fails; its answer may be     *)
(* lost.  prepare stores nothing.  execute goes on with the job's id.      *)
Executed(c, stores, answers) ==
  /\ call[c].pc = "engine"
  /\ published' = IF stores /\ call[c].op # "prepare"
                  THEN [published EXCEPT ![c] = call[c].client \X DOMAIN call[c].items]
                  ELSE published
  /\ IF stores /\ answers
     THEN IF call[c].op = "execute" THEN CallGoes(c, [call[c] EXCEPT !.pc = "await"])
          ELSE Settled(c, "value")
     ELSE Settled(c, "failed")
  /\ UNCHANGED <<application, binding>>

(* awaitResult of execute looks for a client again.                        *)
AwaitResult(c, ok) ==
  /\ call[c].pc = "await"
  /\ Settled(c, IF binding = {} THEN "unbound"
                ELSE IF \E a \in binding : application[a].session # "ready" THEN "closed"
                ELSE IF ok THEN "value" ELSE "failed")
  /\ UNCHANGED <<application, binding, published>>

-----------------------------------------------------------------------------
CallsNext ==
  \/ \E a \in Applications :
       Bootstrap(a) \/ Bind(a) \/ Destroy(a) \/ \E ok \in BOOLEAN : Activated(a, ok)
  \/ \E c \in Callers, op \in {"enqueue", "many", "prepare", "execute"},
        items \in BoundedSeq(Items, MaxItems) : StartCall(c, op, items)
  \/ \E c \in Callers : (\E i \in 1..MaxItems : Encoded(c, i)) \/ Forwarded(c)
  \/ \E c \in Callers, ok, answers \in BOOLEAN : Executed(c, ok, answers) \/ AwaitResult(c, ok)

-----------------------------------------------------------------------------
(* Properties.                                                             *)

(* A call publishes all of its items or none, none when one is refused,    *)
(* and only in the application that its contract was bound to, whatever    *)
(* became of the contract while it was validated; a value means all.       *)
CallsWhole ==
  \A c \in Callers :
    LET all == call[c].at \X DOMAIN call[c].items
    IN /\ published[c] \in {{}, all}
       /\ published[c] # {} => Range(call[c].items) \subseteq {"good"}
       /\ call[c].told = "value" /\ call[c].op # "prepare" => published[c] = all

(* An application that serves keeps its contracts until it stops, whoever  *)
(* starts and stops beside it, and none is left to a failed bootstrap.     *)
KeptBound ==
  /\ \A a \in Applications :
       application[a].session = "ready" /\ application[a].host \in {"bound", "serving"}
         => binding = {a}
  /\ \A a \in binding : application[a].host \in {"bound", "serving"}

PublishedWhole == CallsWhole /\ KeptBound
=============================================================================
