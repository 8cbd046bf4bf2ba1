------------------------------ MODULE Delivery ------------------------------
(***************************************************************************)
(* A job from its declaration to its handler, across the releases of a     *)
(* rolling deployment: one release declares and publishes it, another one  *)
(* may append it to an outbox, and a third one's worker runs it.  All know *)
(* the job by the same identity, but their contracts may differ.  Beside   *)
(* that, the applications of one process share a contract while calls are  *)
(* made through it, the parents of flows are recovered by a worker, and    *)
(* their children collected: these share no state with the job, so they    *)
(* take place in behaviours of their own.                                  *)
(***************************************************************************)
EXTENDS Publication, Invocation, FlowReads, JobCalls

VARIABLES
  life,      \* how far the job has come
  payload,   \* the value that is published and what is stored of it
  contract,  \* the publishing release's registered job, while it publishes
  request,   \* the prepared or stored job
  claim      \* the claimed job's reference and the worker's own policy

delivery == <<life, payload, contract, request, claim>>
allVars == <<vars, delivery, flowVars, callVars>>

-----------------------------------------------------------------------------
(* What can be declared and published, a few of each kind.                 *)

Declarable == {Retry(1, {}), Retry(2, {"fixed"}), Retry(1, {"growing"}), Retry(0, {}),
               Retry(2, {"invalid"})} \cup {Retry(2, {p}) : p \in Policies}

Layer == [retry : Optional(Declarable), delay : {{}}, timeout : {{}}] \cup
         [retry : {{}}, delay : Optional({0, 1}), timeout : Optional({0, 1})]

Traits == [typed : BOOLEAN, limited : BOOLEAN, derives : {"nothing", "key", "identity"}]

PublishOptions ==
  [retry : Optional(Declarable), metadata : {"plain", "malformed"} \cup Policies,
   key : {{}, {"invalid"}} \cup {{k} : k \in Keys},
   timeout : Optional({0, 1}), time : {"none", "delay", "at", "both"}]

(* The retry policy that the innermost of the layers declares (history).   *)
Declared(layers) ==
  LET declaring == {i \in DOMAIN layers : layers[i].retry # {}}
  IN IF declaring = {} THEN Retry(1, {})
     ELSE CHOOSE r \in layers[CHOOSE i \in declaring : \A j \in declaring : j <= i].retry : TRUE

-----------------------------------------------------------------------------
DeliveryInit ==
  /\ Init
  /\ FlowInit
  /\ CallsInit
  /\ life = "declared"
  /\ payload = {}
  /\ contract = {}
  /\ request = {}
  /\ claim = {}

(* A release starts: the registry resolves the layers of the job.          *)
Start ==
  /\ life = "declared"
  /\ \E layers \in Layer \X Layer, traits \in Traits :
       /\ contract' = {[job |-> j, declared |-> Declared(layers)] :
                       j \in UNION {CompileJob(r) : r \in Register(layers, traits)}}
       /\ life' = IF contract' = {} THEN "refused" ELSE "registered"
  /\ UNCHANGED <<vars, payload, request, claim>>

(* The payload is parsed and encoded, and stored by the engine.            *)
Encode ==
  /\ life = "registered"
  /\ \E schema \in Schemas, input \in Values :
       \E value \in ValidateSchema(schema, input) :
         \E text \in EncodeSchema(schema, value) :
           payload' = {[given |-> value,
                        read |-> UNION {DecodeSchema(schema, t) :
                                        t \in SchemaCodec(schema, text)}]}
  /\ life' = "encoded"
  /\ UNCHANGED <<vars, contract, request, claim>>

(* It publishes the job in one of the ways.  What the caller asked for     *)
(* goes with the stored job only as a history.                             *)
Publish ==
  /\ life = "encoded"
  /\ \E c \in contract, o \in PublishOptions :
       \E way \in {<<"prepared", Enqueue(c.job, o)>>, <<"stored", Enqueue(c.job, o)>>,
                   <<"stored", Schedule(c.job, o)>>, <<"stored", Child(c.job, o)>>} :
         /\ way[2] # {}
         /\ life' = way[1]
         /\ request' = {[stored |-> job, keyed |-> ~c.job.limited \/ job.key # {},
                         derived |-> GetDispatchKey(c.job) \subseteq job.key,
                         declared |-> CHOOSE r \in Else(o.retry, {c.declared}) : TRUE] :
                        job \in way[2]}
  /\ payload' = {} /\ contract' = {}
  /\ UNCHANGED <<vars, claim>>

(* A release, the same or another one, appends the prepared job.           *)
AppendOutbox ==
  /\ life = "prepared"
  /\ \E layer \in Layer, traits \in Traits :
       \E job \in UNION {CompileJob(r) : r \in Register(<<layer>>, traits)}, q \in request :
         /\ CompileOutboxRecord(job, q.stored) # {}
         /\ request' = {[q EXCEPT !.keyed = ~job.limited \/ q.stored.key # {},
                                  !.derived = GetDispatchKey(job) \subseteq q.stored.key]}
  /\ life' = "stored"
  /\ UNCHANGED <<vars, payload, contract, claim>>

(* A worker of some release claims it.                                     *)
Claim ==
  /\ life = "stored"
  /\ \E own \in Optional(Policies), q \in request :
       claim' = {[own |-> own, reference |-> q.stored.reference,
                  published |-> RetryReference(q.declared)]}
  /\ life' = "delivered"
  /\ request' = {}
  /\ UNCHANGED <<vars, payload, contract>>

(* The worker's code is only called under the saved policy.                *)
Enter(ok) ==
  /\ ok => \A c \in claim : AssertRetryReference(Retry(1, c.own), c.reference)
  /\ Instance(ok)
  /\ life' = IF ok THEN "running" ELSE "delivered"
  /\ UNCHANGED <<payload, contract, request, claim>>

Delivered(step) == life \in {"delivered", "running"} /\ step /\ UNCHANGED delivery

RunDelivered ==
  \/ life = "delivered" /\ \E ok \in BOOLEAN : Enter(ok)
  \/ stage.phase # "instance" /\ Delivered(Run)

(* What failed may be a domain failure that its declared schema accepts.   *)
DomainFailure == stage.phase = "settled" /\ outcome = "error"

(* A domain failure asks the worker's own policy what to do next.          *)
Decide ==
  /\ life = "running"
  /\ DomainFailure
  /\ life' = "decided"
  /\ UNCHANGED <<vars, payload, contract, request, claim>>

(* A worker is activated and looks for the parents left behind.            *)
Recovery ==
  /\ life = "declared"
  /\ \E flows \in SUBSET Flows,
        stored \in [Parents -> [flow : Flows, state : {"open", "closed"}, cascade : BOOLEAN] \cup
                             {[flow |-> <<>>, state |-> "absent", cascade |-> FALSE]}] :
       Activate(flows, stored)
  /\ life' = "recovering"
  /\ UNCHANGED <<vars, payload, contract, request, claim>>

(* A parent's children have ended and its Collect phase reads them.        *)
Collection ==
  /\ life = "declared"
  /\ \E children \in Manifests : Collects(children)
  /\ life' = "collecting"
  /\ UNCHANGED <<vars, payload, contract, request, claim>>

Reading == life \in {"recovering", "collecting"} /\ FlowNext /\ UNCHANGED <<vars, delivery>>

(* Applications start and stop in one process, and the contract is called. *)
Calling ==
  /\ life \in {"declared", "calling"}
  /\ CallsNext
  /\ life' = "calling"
  /\ UNCHANGED <<vars, payload, contract, request, claim>>

OnlyJob(step) == step /\ UNCHANGED <<flowVars, callVars>>

JobNext ==
  \/ Start \/ Encode \/ Publish \/ AppendOutbox \/ Claim \/ Decide
  \/ RunDelivered
  \/ \E k \in Levels : Delivered(Proceed(k))
  \/ \E k \in Levels \ {Handler} : Delivered(CallNext(k))
  \/ Delivered(StartRead)
  \/ Delivered(EndRead)
  \/ Delivered(Abort)

DeliveryNext ==
  \/ OnlyJob(JobNext)
  \/ (Recovery \/ Collection \/ Reading) /\ UNCHANGED callVars
  \/ Calling /\ UNCHANGED flowVars

(* What the application's code and the store are asked for settles.        *)
DeliverySpec ==
  /\ DeliveryInit /\ [][DeliveryNext]_allVars
  /\ WF_allVars(OnlyJob(RunDelivered))
  /\ \A k \in Levels : WF_allVars(OnlyJob(Delivered(Proceed(k))))
  /\ WF_allVars(OnlyJob(Delivered(EndRead)))

-----------------------------------------------------------------------------
(* Properties.                                                             *)

(* However a job was published, by whatever release, no code of a worker   *)
(* runs for it whose contract declares another custom retry policy than    *)
(* the one it was published under, and no other policy decides its retry;  *)
(* only a mismatch keeps a worker from it.                                 *)
PolicyFollowed ==
  \A c \in claim :
    /\ life \in {"running", "decided"} => c.own = c.published
    /\ c.own = c.published => AssertRetryReference(Retry(1, c.own), c.reference)

(* A worker reads the value that was published, whatever the schema and    *)
(* the codec do to values: what cannot be restored is not stored.          *)
PayloadKept == \A p \in payload : p.read = {p.given}

(* A stored job has the retry policy of the innermost declaration, the     *)
(* message's own before all layers, attempts and backoff from the same.    *)
RetryAsDeclared ==
  \A q \in request :
    /\ q.stored.attempts = q.declared.attempts
    /\ q.stored.backoff = CompileBackoff(q.declared)
    /\ q.stored.reference = RetryReference(q.declared)

(* A job reaches a queue that is limited per key only with a key, the one  *)
(* its contract derives if it does, whichever release stored it.           *)
KeyedWhereLimited == life = "stored" => \A q \in request : q.keyed /\ q.derived

(* What a worker claims is what was declared and published, its payload,   *)
(* its retries and its key, through whatever ways and releases it came;    *)
(* and a call publishes what it was given as a whole.                      *)
StoredAsDeclared == PayloadKept /\ RetryAsDeclared /\ KeyedWhereLimited /\ PublishedWhole

(* A claimed job's supervisor is always answered: draining and closing     *)
(* wait for nothing that waits for them.                                   *)
InvocationSettles == (life = "delivered") ~> (stage.phase = "settled")
=============================================================================
