------------------------------ MODULE EventStore ------------------------------
(***************************************************************************)
(* The event store (liki/store.py): every durable change of the system is  *)
(* a call of Store.transition inside a Store.transaction.  A transition    *)
(* appends one event to the hash-chained event_log, updates the projected  *)
(* row of its aggregate and, when it has a topic, adds a row to the        *)
(* transactional outbox.  All transitions serialise on one advisory lock,  *)
(* held from the first transition of a transaction to its commit or        *)
(* rollback.  Store.audit re-reads the log and the projection under the    *)
(* shared form of that lock.                                               *)
(*                                                                         *)
(* A transaction runs at READ COMMITTED: what a caller read before the     *)
(* lock may be stale when its transition runs.  The state of an aggregate  *)
(* is abstracted to the set of operation keys folded into it, so that a    *)
(* lost update is a missing key.                                           *)
(***************************************************************************)
EXTENDS Naturals, Sequences, FiniteSets

CONSTANTS
    Clients,            \* connections that run service operations
    Auditors,           \* connections that run Store.audit
    Aggregates,         \* (aggregate_type, aggregate_id) pairs
    Keys,               \* operation keys
    Artifacts,          \* (producer, content_hash, schema) triples
    RoleOf,             \* the role of each client's principal
    CapabilityOf,       \* the capability the caller demands per aggregate
    TopicKeys,          \* operations that pass a topic to transition
    Cites,              \* artifact_ids each operation passes
    MaxWrites,          \* bound: transitions in one transaction
    NoClient,           \* nobody holds the advisory lock
    NoRequest,          \* a connection without a pending request
    ContentHash(_)      \* core.content_hash

\* CAPABILITIES of store.py.
CAPABILITIES ==
    [owner            |-> {"read", "stop", "proposal", "owner_decision", "incident", "notification"},
     operator         |-> {"read", "stop", "incident", "notification"},
     research         |-> {"read", "artifact", "research", "task"},
     evaluator        |-> {"read", "artifact", "evidence", "gate", "snapshot"},
     sealed_evaluator |-> {"sealed", "artifact", "evidence", "gate", "snapshot"},
     inference        |-> {"read", "artifact", "inference"},
     scheduler        |-> {"read", "task", "incident", "notification"},
     governance       |-> {"read", "artifact", "proposal", "policy", "incident", "notification"},
     paper            |-> {"read", "artifact", "paper", "stop", "incident"},
     data             |-> {"read", "artifact", "evidence", "data"},
     auditor          |-> {"read"}]

ASSUME StoreConstants ==
    /\ RoleOf \in [Clients -> DOMAIN CAPABILITIES]
    /\ Cites \in [Keys -> SUBSET Artifacts]
    /\ TopicKeys \subseteq Keys
    /\ MaxWrites \in Nat \ {0}
    /\ NoClient \notin Clients

VARIABLES
    db,         \* the committed tables: event log, projection, outbox
    artifacts,  \* committed rows of table artifacts
    lock,       \* holder of pg_advisory_xact_lock(71403218)
    shared,     \* holders of its shared form
    tx,         \* the transaction each client has open
    last,       \* the request a client would send again after a lost answer
    acked,      \* requests whose success was reported to the caller
    audit,      \* progress of each audit
    verdict     \* outcome of each auditor's latest audit

vars == <<db, artifacts, lock, shared, tx, last, acked, audit, verdict>>

-------------------------------------------------------------------------------
(* Rows and requests.                                                      *)

\* What the request hash covers: the caller's principal is part of it.
Requests == [operation_key: Keys, aggregate: Aggregates, expected_version: Nat,
             state: SUBSET Keys, actor: Clients]

\* The columns the event hash covers: every column but sequence,
\* ingested_at_utc and the hash itself.
Envelope(e) == [operation_key |-> e.operation_key, operation_hash |-> e.operation_hash,
                aggregate |-> e.aggregate, aggregate_version |-> e.aggregate_version,
                state_after |-> e.state_after, artifact_ids |-> e.artifact_ids,
                previous_hash |-> e.previous_hash]

EmptyDB == [log |-> <<>>,
            aggregates |-> [a \in Aggregates |-> [version |-> 0, state |-> {}]],
            outbox |-> {}]

\* A transaction before its first transition works on the committed tables;
\* after it, on its own uncommitted copy.
NoTx == [phase |-> "idle", request |-> NoRequest, work |-> EmptyDB, arts |-> {},
         done |-> {}]

Locked(c) == tx[c].phase = "locked"
Visible(c) == IF Locked(c) THEN tx[c].work ELSE db

\* pg_advisory_xact_lock is re-entrant for its holder and waits otherwise.
LockAvailable_IgnoringAudits(c) == lock \in {c, NoClient}  \* variant: no shared lock
LockAvailable_Always(c) == TRUE                            \* variant: no lock at all
LockAvailable(c) == lock = c \/ (lock = NoClient /\ shared = {})

EventOf(d, k) == CHOOSE i \in DOMAIN d.log : d.log[i].operation_key = k
\* Variant: the lookup misses the transaction's own rows.
Recorded_Committed(d, k) == \E i \in DOMAIN db.log : db.log[i].operation_key = k
Recorded(d, k) == \E i \in DOMAIN d.log : d.log[i].operation_key = k

-------------------------------------------------------------------------------
(* Store.transition, the part that writes.                                 *)

PreviousHash(log) == IF log = <<>> THEN "GENESIS" ELSE log[Len(log)].event_hash

NewEvent(d, r) ==
    LET envelope == [operation_key     |-> r.operation_key,
                     operation_hash    |-> ContentHash(r),
                     aggregate         |-> r.aggregate,
                     aggregate_version |-> d.aggregates[r.aggregate].version + 1,
                     state_after       |-> r.state,
                     artifact_ids      |-> Cites[r.operation_key],
                     previous_hash     |-> PreviousHash(d.log)]
    IN  [operation_key     |-> envelope.operation_key,
         operation_hash    |-> envelope.operation_hash,
         aggregate         |-> envelope.aggregate,
         aggregate_version |-> envelope.aggregate_version,
         state_after       |-> envelope.state_after,
         artifact_ids      |-> envelope.artifact_ids,
         previous_hash     |-> envelope.previous_hash,
         event_hash        |-> ContentHash(envelope)]

\* The three inserts of one transition.
Applied(d, r) ==
    LET e == NewEvent(d, r)
    IN  [log        |-> Append(d.log, e),
         aggregates |-> [d.aggregates EXCEPT ![r.aggregate] =
                            [version |-> e.aggregate_version, state |-> r.state]],
         outbox     |-> d.outbox \cup ({r.operation_key} \cap TopicKeys)]

\* Identity.require, before the lock.
Permitted(c, r) == CapabilityOf[r.aggregate] \in CAPABILITIES[RoleOf[c]]

\* The recorded event answers this very request.
SameRequest_ByKey(d, r) == TRUE     \* variant: the key alone decides
SameRequest(d, r) ==
    d.log[EventOf(d, r.operation_key)].operation_hash = ContentHash(r)

\* The caller read the latest version of the aggregate.
UpToDate_Unchecked(d, r) == TRUE    \* variant: the last writer wins
UpToDate(d, r) == r.expected_version = d.aggregates[r.aggregate].version

\* Cited artifacts are committed or the transaction's own.
CitesKnown_Dirty(c, r) ==           \* variant: reads uncommitted rows of others
    Cites[r.operation_key] \subseteq artifacts \cup UNION {tx[o].arts : o \in Clients}
CitesKnown(c, r) == Cites[r.operation_key] \subseteq artifacts \cup tx[c].arts

\* The checks of transition under the lock, in the order of the code; "ok"
\* when the event is to be appended.
Outcome(c, r) ==
    LET d == Visible(c) IN
    IF Recorded(d, r.operation_key)
    THEN IF SameRequest(d, r) THEN "replay" ELSE "IDEMPOTENCY_CONFLICT"
    ELSE IF ~UpToDate(d, r) THEN "CONCURRENT_MODIFICATION"
    ELSE IF ~CitesKnown(c, r) THEN "UNKNOWN_ARTIFACT" ELSE "ok"

-------------------------------------------------------------------------------
(* Clients.                                                                *)

\* The transition a caller derives from the row it read.
RequestFor_Behind(c, k, a, row) ==  \* variant: names the version before it
    [operation_key |-> k, aggregate |-> a, expected_version |-> row.version - 1,
     state |-> row.state \cup {k}, actor |-> c]
RequestFor(c, k, a, row) == [operation_key |-> k, aggregate |-> a,
                             expected_version |-> row.version,
                             state |-> row.state \cup {k}, actor |-> c]

Init ==
    /\ db = EmptyDB
    /\ artifacts = {}
    /\ lock = NoClient
    /\ shared = {}
    /\ tx = [c \in Clients |-> NoTx]
    /\ last = [c \in Clients |-> NoRequest]
    /\ acked = {}
    /\ audit = [u \in Auditors |-> [phase |-> "idle", log |-> <<>>]]
    /\ verdict = [u \in Auditors |-> "none"]

\* A service operation opens a transaction, reads the aggregate (Store.state)
\* and derives from that row the transition it will ask for.
Begin(c, k, a) ==
    /\ ~Locked(c)
    /\ tx[c].request = NoRequest
    /\ LET r == RequestFor(c, k, a, db.aggregates[a])
       IN  /\ tx' = [tx EXCEPT ![c].phase = "open", ![c].request = r]
           /\ last' = [last EXCEPT ![c] = r]
    /\ UNCHANGED <<db, artifacts, lock, shared, acked, audit, verdict>>

\* The caller repeats, byte for byte, a request whose answer it did not get.
Retry(c) ==
    /\ ~Locked(c)
    /\ tx[c].request = NoRequest
    /\ last[c] # NoRequest
    /\ tx' = [tx EXCEPT ![c].phase = "open", ![c].request = last[c]]
    /\ UNCHANGED <<db, artifacts, lock, shared, last, acked, audit, verdict>>

\* An operation with several transitions reads its own uncommitted rows.
ReadAgain(c, k, a) ==
    /\ Locked(c)
    /\ tx[c].request = NoRequest
    /\ Cardinality(tx[c].done) < MaxWrites
    /\ tx' = [tx EXCEPT ![c].request = RequestFor(c, k, a, tx[c].work.aggregates[a])]
    /\ UNCHANGED <<db, artifacts, lock, shared, last, acked, audit, verdict>>

\* put_artifact takes no lock; INSERT .. ON CONFLICT DO NOTHING waits for a
\* concurrent transaction that inserted the same row, then returns that row.
PutArtifact(c, x) ==
    /\ "artifact" \in CAPABILITIES[RoleOf[c]]
    /\ x \notin artifacts
    /\ \A o \in Clients : x \notin tx[o].arts
    /\ tx' = [tx EXCEPT ![c].arts = @ \cup {x},
                        ![c].phase = IF @ = "idle" THEN "open" ELSE @]
    /\ UNCHANGED <<db, artifacts, lock, shared, last, acked, audit, verdict>>

Append1(c) ==
    /\ tx[c].request # NoRequest
    /\ Permitted(c, tx[c].request)
    /\ LockAvailable(c)
    /\ Outcome(c, tx[c].request) = "ok"
    /\ lock' = c
    /\ tx' = [tx EXCEPT ![c].phase = "locked", ![c].request = NoRequest,
                        ![c].work = Applied(Visible(c), tx[c].request),
                        ![c].done = @ \cup {tx[c].request}]
    /\ UNCHANGED <<db, artifacts, shared, last, acked, audit, verdict>>

\* The operation was applied before: its event is returned, nothing written.
Replay(c) ==
    /\ tx[c].request # NoRequest
    /\ Permitted(c, tx[c].request)
    /\ LockAvailable(c)
    /\ Outcome(c, tx[c].request) = "replay"
    /\ lock' = c
    /\ tx' = [tx EXCEPT ![c].phase = "locked", ![c].request = NoRequest,
                        ![c].work = Visible(c),
                        ![c].done = @ \cup {tx[c].request}]
    /\ UNCHANGED <<db, artifacts, shared, last, acked, audit, verdict>>

\* The connection ends without a commit: rows and locks are gone.
Rollback_KeepsLock(c) ==    \* variant: a session lock outlives the rollback
    /\ tx' = [tx EXCEPT ![c] = NoTx]
    /\ UNCHANGED <<db, artifacts, lock, shared, last, acked, audit, verdict>>

Rollback(c) ==
    /\ tx' = [tx EXCEPT ![c] = NoTx]
    /\ lock' = IF lock = c THEN NoClient ELSE lock
    /\ UNCHANGED <<db, artifacts, shared, last, acked, audit, verdict>>

\* A DomainError of transition leaves the with-block and rolls back.
Refuse(c) ==
    /\ tx[c].request # NoRequest
    /\ \/ ~Permitted(c, tx[c].request)
       \/ /\ LockAvailable(c)
          /\ Outcome(c, tx[c].request) \notin {"ok", "replay"}
    /\ Rollback(c)

\* statement_timeout cancels a statement that waits for the lock.
Timeout(c) ==
    /\ tx[c].request # NoRequest
    /\ Permitted(c, tx[c].request)
    /\ ~LockAvailable(c)
    /\ Rollback(c)

\* The process or the connection dies before COMMIT.
Crash(c) ==
    /\ tx[c].phase # "idle"
    /\ Rollback(c)

\* COMMIT; the answer reaches the caller, or is lost with the connection.
Commit(c, delivered) ==
    /\ tx[c].phase # "idle"
    /\ tx[c].request = NoRequest
    /\ db' = Visible(c)
    /\ artifacts' = artifacts \cup tx[c].arts
    /\ lock' = IF lock = c THEN NoClient ELSE lock
    /\ tx' = [tx EXCEPT ![c] = NoTx]
    /\ acked' = IF delivered THEN acked \cup tx[c].done ELSE acked
    /\ UNCHANGED <<shared, last, audit, verdict>>

-------------------------------------------------------------------------------
(* Store.audit.                                                            *)

\* previous_hash links each event to the one before it and the stored hash is
\* the hash of the envelope.
ChainOK(log) ==
    \A i \in 1..Len(log) :
        /\ log[i].previous_hash = IF i = 1 THEN "GENESIS" ELSE log[i - 1].event_hash
        /\ log[i].event_hash = ContentHash(Envelope(log[i]))

\* j is the last event of aggregate a among the first n.
IsLatest(log, a, n, j) ==
    /\ j \in 1..n
    /\ log[j].aggregate = a
    /\ \A k \in 1..n : log[k].aggregate = a => k <= j

\* aggregate_version = prior_version + 1, where prior_version is the version
\* of the aggregate's previous event, or 0.
GapFree(log) ==
    \A i \in 1..Len(log) :
        \/ /\ log[i].aggregate_version = 1
           /\ \A j \in 1..(i - 1) : log[j].aggregate # log[i].aggregate
        \/ \E j \in 1..(i - 1) :
              /\ IsLatest(log, log[i].aggregate, i - 1, j)
              /\ log[i].aggregate_version = log[j].aggregate_version + 1

\* The rows of the projection are the ones reconstructed from the log.
ProjectionOK(log, rows) ==
    \A a \in Aggregates :
        \/ /\ rows[a].version = 0
           /\ rows[a].state = {}
           /\ \A j \in 1..Len(log) : log[j].aggregate # a
        \/ /\ rows[a].version > 0
           /\ \E j \in 1..Len(log) :
                 /\ IsLatest(log, a, Len(log), j)
                 /\ rows[a] = [version |-> log[j].aggregate_version,
                               state |-> log[j].state_after]

\* First statement: the shared lock, then the event log.
AuditLog(u) ==
    /\ audit[u].phase = "idle"
    /\ lock = NoClient
    /\ shared' = shared \cup {u}
    /\ audit' = [audit EXCEPT ![u] = [phase |-> "reading", log |-> db.log]]
    /\ UNCHANGED <<db, artifacts, lock, tx, last, acked, verdict>>

\* Second statement: the projection, read in a snapshot of its own.
AuditProjection(u) ==
    /\ audit[u].phase = "reading"
    /\ verdict' = [verdict EXCEPT ![u] =
          IF ~ChainOK(audit[u].log) THEN "AUDIT_INTEGRITY_FAILURE"
          ELSE IF ~GapFree(audit[u].log) THEN "AUDIT_REVISION_GAP"
          ELSE IF ~ProjectionOK(audit[u].log, db.aggregates) THEN "PROJECTION_DRIFT"
          ELSE "VERIFIED"]
    /\ audit' = [audit EXCEPT ![u] = [phase |-> "idle", log |-> <<>>]]
    /\ shared' = shared \ {u}
    /\ UNCHANGED <<db, artifacts, lock, tx, last, acked>>

-------------------------------------------------------------------------------

ClientStep(c) ==
    \/ \E k \in Keys, a \in Aggregates : Begin(c, k, a) \/ ReadAgain(c, k, a)
    \/ \E x \in Artifacts : PutArtifact(c, x)
    \/ Retry(c)
    \/ Append1(c)
    \/ Replay(c)
    \/ Refuse(c)
    \/ Timeout(c)
    \/ Crash(c)
    \/ \E delivered \in BOOLEAN : Commit(c, delivered)

AuditStep(u) == AuditLog(u) \/ AuditProjection(u)

Next ==
    \/ \E c \in Clients : ClientStep(c)
    \/ \E u \in Auditors : AuditStep(u)

Spec == Init /\ [][Next]_vars

\* A connection that is open finishes: its statements return (statement_timeout
\* bounds every wait) and the with-block commits or rolls back.
Finish(c) ==
    \/ Append1(c) \/ Replay(c) \/ Refuse(c) \/ Timeout(c)
    \/ \E delivered \in BOOLEAN : Commit(c, delivered)

FairSpec ==
    /\ Spec
    /\ \A c \in Clients : WF_vars(Finish(c))
    /\ \A u \in Auditors : WF_vars(AuditProjection(u))

-------------------------------------------------------------------------------
(* Properties.                                                             *)

\* Shape of the tables, the locks and the open transactions.
TypeOK ==
    /\ DOMAIN db = {"log", "aggregates", "outbox"}
    /\ db.aggregates \in [Aggregates -> [version: Nat, state: SUBSET Keys]]
    /\ db.outbox \subseteq Keys
    /\ artifacts \subseteq Artifacts
    /\ lock \in Clients \cup {NoClient}
    /\ shared \subseteq Auditors
    /\ \A c \in Clients :
          /\ tx[c].phase \in {"idle", "open", "locked"}
          /\ tx[c].request \in Requests \cup {NoRequest}
          /\ last[c] \in Requests \cup {NoRequest}
          /\ tx[c].work.aggregates \in [Aggregates -> [version: Nat, state: SUBSET Keys]]
          /\ tx[c].arts \subseteq Artifacts
          /\ tx[c].done \subseteq Requests
    /\ acked \subseteq Requests
    /\ \A u \in Auditors : audit[u].phase \in {"idle", "reading"}

\* Store.audit never reports a failure, whatever transactions run, fail or
\* commit between its two statements: the chain links, versions have no gap
\* and the projection equals the replay of the log.
AuditVerifies == \A u \in Auditors : verdict[u] \in {"none", "VERIFIED"}

KeysOf(log, a) == {log[i].operation_key : i \in {j \in DOMAIN log : log[j].aggregate = a}}

\* An operation that read an aggregate before another one committed never
\* overwrites that one's change: the row holds every operation of the log.
NoLostUpdate == \A a \in Aggregates : db.aggregates[a].state = KeysOf(db.log, a)

\* A retried or recomputed operation is applied at most once.
AppliedOnce ==
    \A i, j \in DOMAIN db.log :
        db.log[i].operation_key = db.log[j].operation_key => i = j

\* A caller told of success finds exactly its request in the log, also when
\* the answer came from a replay.
AckedDurable ==
    \A r \in acked : \E i \in DOMAIN db.log :
        /\ db.log[i].operation_key = r.operation_key
        /\ db.log[i].operation_hash = ContentHash(r)

\* What one transaction writes appears together: an outbox row exists iff its
\* event does, and an event never cites an artifact that was rolled back.
CommittedTogether ==
    /\ db.outbox = {db.log[i].operation_key : i \in DOMAIN db.log} \cap TopicKeys
    /\ \A i \in DOMAIN db.log : db.log[i].artifact_ids \subseteq artifacts

\* The log only grows at its end; a commit never rewrites or forgets an event
\* another transaction appended.
LogAppendOnly ==
    [][/\ Len(db'.log) >= Len(db.log)
       /\ SubSeq(db'.log, 1, Len(db.log)) = db.log]_db

\* Every transaction gives the lock back, however it ends, so no operation
\* waits for ever behind a dead one.
LockIsReleased == []<>(lock = NoClient)

-------------------------------------------------------------------------------

\* The refinement mapping onto AggregateHistory.
History == INSTANCE AggregateHistory WITH
    history <- [i \in DOMAIN db.log |-> [key |-> db.log[i].operation_key,
                                         aggregate |-> db.log[i].aggregate]],
    rows <- db.aggregates

\* The store with its lock, retries, crashes and rollbacks behaves as one
\* history of atomic operations.
ImplementsHistory == History!Spec
===============================================================================
