----------------------------- MODULE Publication -----------------------------
(***************************************************************************)
(* What becomes of a job between the call that publishes it and the store: *)
(* the layers of its policy, the retry reference a custom policy leaves in *)
(* its metadata, its dispatch key.  A job is enqueued, prepared for an     *)
(* outbox, scheduled or fanned out as the child of a flow, and every way   *)
(* has its own compiler.                                                   *)
(*                                                                         *)
(* An optional value is a set of one element at most; an operator that     *)
(* rejects its input returns the empty set.                                *)
(***************************************************************************)
EXTENDS Integers, Sequences, SequencesExt

CONSTANTS
  Policies,  \* the custom retry policies, a name and a version each
  Keys       \* valid dispatch keys

Optional(S) == {{}} \cup {{x} : x \in S}

(* value ?? default                                                        *)
Else(value, default) == IF value = {} THEN default ELSE value

-----------------------------------------------------------------------------
(* Retry policies.                                                         *)

Backoffs == {"fixed", "growing", "invalid"} \cup Policies

Retry(attempts, backoff) == [attempts |-> attempts, backoff |-> backoff]

(* copyRetry: what can be written but not registered.                      *)
CopyRetry(retry) == {r \in {retry} : r.attempts >= 1 /\ r.backoff # {"invalid"}}

(* The name and version of a custom policy, a constant backoff without any *)
(* declaration, and otherwise the declared one.                            *)
RetryReference(retry) == retry.backoff \cap Policies
CompileBackoff(retry) == Else(retry.backoff, {"immediate"}) \ Policies

(* Fault: attempts and backoff are inherited one by one.                   *)
ResolveFieldwise(layers) ==
  FoldLeft(LAMBDA resolved, layer :
             [retry |-> IF layer.retry = {} THEN resolved.retry
                        ELSE LET r == CHOOSE r \in layer.retry : TRUE
                             IN Retry(r.attempts, Else(r.backoff, resolved.retry.backoff)),
              delay |-> Else(layer.delay, resolved.delay),
              timeout |-> Else(layer.timeout, resolved.timeout)],
           [retry |-> Retry(1, {}), delay |-> {0}, timeout |-> {}], layers)

(* Later layers override earlier ones, a retry policy as a whole.          *)
ResolveJobPolicy(layers) ==
  FoldLeft(LAMBDA resolved, layer :
             [retry |-> CHOOSE r \in Else(layer.retry, {resolved.retry}) : TRUE,
              delay |-> Else(layer.delay, resolved.delay),
              timeout |-> Else(layer.timeout, resolved.timeout)],
           [retry |-> Retry(1, {}), delay |-> {0}, timeout |-> {}], layers)

(* The registered job: its resolved policy and what its contract and its   *)
(* queue declare.                                                          *)
Register(layers, traits) ==
  IF \E i \in DOMAIN layers : \E r \in layers[i].retry : CopyRetry(r) = {} THEN {}
  ELSE {[retry |-> policy.retry, delay |-> policy.delay, timeout |-> policy.timeout,
         typed |-> traits.typed, limited |-> traits.limited, derives |-> traits.derives] :
        policy \in {ResolveJobPolicy(layers)}}

(* compileJob: an executable job has a positive timeout, and a custom      *)
(* policy only sees failures of a declared type.                           *)
CompileJob(job) ==
  {j \in {job} : j.timeout # {0} /\ (RetryReference(j.retry) # {} => j.typed)}

-----------------------------------------------------------------------------
(* Payloads and results.  A schema is any function that validates and      *)
(* transforms, a codec adds any function back.                             *)

Values == {"date", "text", "void"}

(* What JSON makes of a value: a date becomes its text, void is nothing.   *)
Json == [date |-> "text", text |-> "text", void |-> "nothing"]

Schemas ==
  [codec : {FALSE}, validate : [Values -> Values \cup {"issue"}]] \cup
  [codec : {TRUE}, validate : [Values -> Values \cup {"issue"}],
   encode : [Values -> Values \cup {"defect"}]]

ValidateSchema(schema, value) == {schema.validate[value]} \ {"issue"}

(* Only a value that survives JSON is written; a text is its JSON value.   *)
JsonText(value) == {v \in {value} : Json[v] = v}
DecodeSchema(schema, text) == ValidateSchema(schema, text)

(* Fault: the codec is not tried backwards.                                *)
EncodeUnchecked(schema, value) ==
  IF schema.codec THEN UNION {JsonText(v) : v \in {schema.encode[value]} \ {"defect"}}
  ELSE UNION {JsonText(v) : v \in {value} \cap ValidateSchema(schema, value)}

(* Encoding must be undone by decoding, without a codec by doing nothing.  *)
EncodeSchema(schema, value) ==
  IF schema.codec
    THEN {text \in UNION {JsonText(v) : v \in {schema.encode[value]} \ {"defect"}} :
            DecodeSchema(schema, text) = {value}}
    ELSE UNION {JsonText(v) : v \in {value} \cap ValidateSchema(schema, value)}

(* The codec of a compiled job takes encoded input and stores it encoded.  *)
SchemaCodec(schema, input) ==
  UNION {EncodeSchema(schema, value) : value \in ValidateSchema(schema, input)}

-----------------------------------------------------------------------------
(* What a publication may choose.                                          *)

(* A custom decision belongs to the contract, not to the message.          *)
PublicationRetry(job, override) ==
  {r \in UNION {CopyRetry(r) : r \in Else(override, {job.retry})} :
     RetryReference(r) = RetryReference(job.retry)}

(* Fault: a reference among the caller's metadata is kept.                 *)
PublicationMetadataOpen(job, metadata) ==
  IF metadata \in Policies THEN {{metadata}}
  ELSE {RetryReference(job.retry) : plain \in {metadata} \cap {"plain"}}

(* The metadata that is stored, as far as the reference goes: the caller's *)
(* is plain data and never names a policy itself.                          *)
PublicationMetadata(job, metadata) ==
  {RetryReference(job.retry) : plain \in {metadata} \cap {"plain"}}

ValidateDispatchKey(key) == key \subseteq Keys

(* The key that the contract derives from the payload.                     *)
GetDispatchKey(job) == IF job.derives = "key" THEN {CHOOSE k \in Keys : TRUE} ELSE {}

(* Fault: an explicit key replaces the derived one.                        *)
PublicationKeyExplicit(job, supplied) ==
  {key \in {Else(supplied, GetDispatchKey(job))} : ValidateDispatchKey(supplied)}

(* publicationOptions: a derived key cannot be overridden.                 *)
PublicationKey(job, supplied) ==
  {key \in {Else(GetDispatchKey(job), supplied)} :
     ValidateDispatchKey(supplied) /\ (supplied # {} => key = supplied)}

-----------------------------------------------------------------------------
(* The four ways.  A stored job keeps its retry policy, the reference in   *)
(* its metadata and its dispatch key.                                      *)

StoredJob(retry, reference, key) ==
  [attempts |-> retry.attempts, backoff |-> CompileBackoff(retry),
   reference |-> reference, key |-> key]

Timeout(job, supplied) == {t \in {Else(supplied, job.timeout)} : t # {0}}

(* enqueue, enqueueMany and prepare, through enqueueOptions.               *)
Enqueue(job, o) ==
  {StoredJob(retry, reference, key) :
     retry \in PublicationRetry(job, o.retry), reference \in PublicationMetadata(job, o.metadata),
     key \in {k \in PublicationKey(job, o.key) : job.limited => k # {}},
     timeout \in Timeout(job, o.timeout), time \in {"none", "delay", "at"} \cap {o.time}}

(* Fault: a queue limited per key is scheduled like any other.             *)
ScheduleUnkeyed(job, o) ==
  {StoredJob(retry, reference, {}) :
     retry \in PublicationRetry(job, o.retry), reference \in PublicationMetadata(job, o.metadata),
     timeout \in Timeout(job, o.timeout)}

(* compileSchedule: a schedule keeps no dispatch key and has a cadence for *)
(* a delay.                                                                *)
Schedule(job, o) ==
  IF job.limited \/ GetDispatchKey(job) # {} \/ job.delay # {0} THEN {}
  ELSE {StoredJob(retry, reference, {}) :
          retry \in PublicationRetry(job, o.retry),
          reference \in PublicationMetadata(job, o.metadata), timeout \in Timeout(job, o.timeout)}

(* Fault: the backoff of a child's override is lost.                       *)
ChildLenient(job, o) ==
  IF job.limited \/ job.delay # {0} \/ job.derives # "nothing" THEN {}
  ELSE {[StoredJob(retry, reference, {}) EXCEPT !.backoff = CompileBackoff(job.retry)] :
          retry \in PublicationRetry(job, o.retry),
          reference \in PublicationMetadata(job, o.metadata)}

(* compileFlowChildren: a child has the declared backoff, no key and no    *)
(* identity of its own; a custom policy is never equal to an override.     *)
Child(job, o) ==
  IF job.limited \/ job.delay # {0} \/ job.derives # "nothing" THEN {}
  ELSE {[StoredJob(retry, reference, {}) EXCEPT !.backoff = CompileBackoff(job.retry)] :
          retry \in {r \in PublicationRetry(job, o.retry) :
                     o.retry # {} => /\ CompileBackoff(r) = CompileBackoff(job.retry)
                                     /\ RetryReference(job.retry) = {}},
          reference \in PublicationMetadata(job, o.metadata)}

-----------------------------------------------------------------------------
(* The checks of another release.                                          *)

(* Fault: a job without a reference is anybody's.                          *)
AssertRetryReferenceLenient(retry, reference) ==
  reference # {} => reference = RetryReference(retry)

(* The saved policy is the one of this release's contract.                 *)
AssertRetryReference(retry, reference) == reference = RetryReference(retry)

(* Fault: the destination's limits are those of when it was prepared.      *)
AppendUnkeyed(job, request) ==
  {r \in {request} :
     /\ AssertRetryReference(job.retry, r.reference)
     /\ GetDispatchKey(job) # {} => r.key = GetDispatchKey(job)}

(* compileOutboxRecord: a prepared job is appended by a release whose      *)
(* contract agrees with it.                                                *)
CompileOutboxRecord(job, request) ==
  {r \in {request} :
     /\ AssertRetryReference(job.retry, r.reference)
     /\ ValidateDispatchKey(r.key)
     /\ GetDispatchKey(job) # {} => r.key = GetDispatchKey(job)
     /\ job.limited => r.key # {}}
=============================================================================
