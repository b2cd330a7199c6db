----------------------------- MODULE MCEventStore -----------------------------
(* Instance of EventStore for TLC: two services and one auditor.            *)
EXTENDS EventStore, TLC

CONSTANTS c1, c2, a1, a2, k1, k2, k3, x1

MCRoleOf == c1 :> "research" @@ c2 :> "scheduler"
MCCapabilityOf == [a \in Aggregates |-> IF a = a1 THEN "task" ELSE "read"]
MCTopicKeys == {k1}
MCCites == [k \in Keys |-> IF k = k2 THEN {x1} ELSE {}]

\* SHA-256 as an injective token of its argument.
MCContentHash(v) == <<"sha256", v>>
===============================================================================
