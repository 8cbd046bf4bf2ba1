----------------------------- MODULE MCStartup -----------------------------
(* Queue classes on two connections, so that queues and jobs of one name,  *)
(* an inherited schedule, a limited and a delayed queue, and mistakes are  *)
(* among them; one or two flows with up to two children; workers that      *)
(* may share a base class and override its processor.                      *)
EXTENDS Startup, TLC

Names(a) == [job |-> {a}, schedules |-> {}]
Service(fields, n, q, chain, controls, delay, policy, static) ==
  [fields |-> fields, connection |-> n, name |-> q, chain |-> chain, controls |-> controls,
   delay |-> delay, policy |-> policy, static |-> static]

Main == Service("main", 1, "q", <<[x |-> Names("a")], [y |-> Names("b")]>>,
                "none", 0, {"p"}, TRUE)
Scheduled == <<[x |-> [job |-> {"a"}, schedules |-> {"k"}]],
               [x |-> [job |-> {}, schedules |-> {}]]>>

MCServices ==
  {Main,
   Service("other", 1, "r", Scheduled, "none", 0, {}, TRUE),
   Service("other", 1, "r", Scheduled, "perKey", 0, {}, TRUE),
   Service("third", 2, "q", Scheduled, "none", 0, {}, TRUE),
   Service("third", 2, "q", <<[x |-> Names("a")]>>, "none", 1, {}, TRUE),
   Service("again", 1, "s", Scheduled, "none", 0, {}, TRUE),
   Service("main", 2, "s", <<[x |-> Names("a")]>>, "none", 0, {}, TRUE),
   Service("scoped", 2, "s", <<[x |-> Names("a")]>>, "none", 0, {}, FALSE),
   Service("same", 2, "s", <<[x |-> Names("a")], [y |-> Names("a")]>>, "none", 0, {}, TRUE),
   Service("unnamed", 2, "s", <<[x |-> [job |-> {}, schedules |-> {"k"}]]>>,
           "none", 0, {}, TRUE)}

MCProviders ==
  {<<>>, <<[policy |-> "p", static |-> TRUE]>>, <<[policy |-> "p", static |-> FALSE]>>,
   <<[policy |-> "p", static |-> TRUE], [policy |-> "p", static |-> TRUE]>>}

Contracts == {<<"main", "x">>, <<"main", "y">>, <<"other", "x">>, <<"third", "x">>}
Flow(name, owner, parent, children, chain, processors) ==
  [name |-> name, owner |-> owner, parent |-> parent, children |-> children,
   chain |-> chain, processors |-> processors]

Plain == <<("fan" :> "fanOut") @@ ("col" :> "collect")>>
Phases ==
  {Plain, <<"fan" :> "fanOut", "col" :> "collect">>, <<"fan" :> "fanOut">>,
   <<"fan" :> "fanOut", "fan" :> "collect">>,
   Plain \o <<("fan" :> "collect") @@ ("col" :> "fanOut")>>, Plain \o <<"own" :> "fanOut">>}

MCFlowSets ==
  {{}} \cup
  {{Flow("f", "w1", p, {c}, chain, processors)} :
     p \in Contracts, c \in Contracts, chain \in Phases, processors \in {{}, {"col"}}} \cup
  {{Flow("f", "w1", p, cs, Plain, {}), Flow(g, "w2", q, {c}, Plain, {})} :
     p \in Contracts, cs \in {S \in SUBSET Contracts : Cardinality(S) \in {1, 2}},
     g \in {"f", "g"}, q \in Contracts, c \in Contracts}

Method(process, annotated) == [process |-> process, annotated |-> annotated]
Worker(class, name, base, own) == [class |-> class, name |-> name, chain |-> <<base, own>>]

Bases == {<<>>} \cup {[m |-> Method({c}, TRUE)] : c \in Contracts}
Overrides == {<<>>, [m |-> Method({}, TRUE)], [m |-> Method({}, FALSE)]} \cup
             {[m |-> Method({c}, TRUE)] : c \in Contracts}
Owns == {<<>>} \cup {[n |-> Method({c}, TRUE)] : c \in Contracts}

MCWorkerSets ==
  {{}} \cup
  {{Worker("w1", name, base, own), Worker("w2", {"n2"}, base, other)} :
     name \in {{}, {"n1"}, {"n2"}}, base \in Bases, own \in Overrides, other \in Owns} \cup
  {{Worker("w1", {"n1"}, base, own), Worker("w2", {"n2"}, <<>>, other)} :
     base \in Bases, own \in {o @@ p : o \in Overrides, p \in Owns}, other \in Owns}

(* The first connection has every store its adapter offers.                *)
Full == {o \in Options : /\ o.scope = 1 /\ o.valid /\ o.path # o.native
                         /\ o.schedules /\ o.flows = (o.adapter = "postgres")}
MCOptionSets ==
  {<<o>> : o \in {o \in Options : o.scope = 1}} \cup {<<o, p>> : o \in Full, p \in Options}
=============================================================================
