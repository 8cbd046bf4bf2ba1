--------------------------- MODULE MCDeployment ---------------------------
(* Two declared queues on two connections, one with a limit per key, and   *)
(* an ordinary one, the queue of a flow's parent.  One schedule is         *)
(* declared; the other address emits to the queue limited per key, as an   *)
(* earlier release may have left it.                                       *)
EXTENDS Deployment

CONSTANTS keyed, limited, plain, daily, stale

MCQueues == {keyed, limited, plain}
MCAddresses == {daily, stale}
MCConn == [q \in MCQueues |-> IF q = limited THEN 2 ELSE 1]
MCDeclared == <<keyed, limited>>
MCKeyed == {keyed}
MCPlanned == <<daily>>
MCTarget == [s \in MCAddresses |-> IF s = daily THEN limited ELSE keyed]
MCRoles == <<[queue |-> plain, parent |-> TRUE], [queue |-> limited, parent |-> FALSE]>>
MCFound == [q \in MCQueues |->
  CASE q = keyed -> Policy
    [] q = limited -> {p \in Policy : p.group = "other" => p.enabled /\ ~p.keyed}
    [] OTHER -> {Absent, [group |-> "other", enabled |-> TRUE, keyed |-> FALSE]}]
=============================================================================
