--------------------------- MODULE AggregateHistory ---------------------------
(***************************************************************************)
(* What the event store promises its callers: one history of operations,   *)
(* each applied once and to the latest state of its aggregate, in which a  *)
(* transaction's operations appear together or not at all.  There are no   *)
(* locks, transactions, hashes or retries here.                            *)
(***************************************************************************)
EXTENDS Naturals, Sequences, FiniteSets

CONSTANTS Aggregates, Keys, MaxWrites

VARIABLES
    history,    \* the operations in the order they took effect
    rows        \* version and state of every aggregate

vars == <<history, rows>>

Operations == [key: Keys, aggregate: Aggregates]

Init ==
    /\ history = <<>>
    /\ rows = [a \in Aggregates |-> [version |-> 0, state |-> {}]]

Used == {history[i].key : i \in DOMAIN history}

\* One transaction takes effect: its operations use new keys, and each folds
\* into the aggregate as every earlier operation left it.
Perform(ops) ==
    LET touching(a) == {i \in DOMAIN ops : ops[i].aggregate = a} IN
    /\ \A i, j \in DOMAIN ops : ops[i].key = ops[j].key => i = j
    /\ \A i \in DOMAIN ops : ops[i].key \notin Used
    /\ history' = history \o ops
    /\ rows' = [a \in Aggregates |->
                  [version |-> rows[a].version + Cardinality(touching(a)),
                   state   |-> rows[a].state \cup {ops[i].key : i \in touching(a)}]]

Next == \E n \in 1..MaxWrites : \E ops \in [1..n -> Operations] : Perform(ops)

Spec == Init /\ [][Next]_vars
===============================================================================
