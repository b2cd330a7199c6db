--------------------------- MODULE EventStoreProofs ---------------------------
(***************************************************************************)
(* Proofs about EventStore, for every set of clients, auditors, keys and   *)
(* aggregates and every content hash.                                      *)
(*                                                                         *)
(* The tables a transaction works on are sound at every moment, committed  *)
(* or not (SoundDB); whoever has uncommitted tables holds the lock; and    *)
(* while an audit is between its statements nobody does.  That is the      *)
(* inductive invariant Inv, from which the theorems follow.                *)
(***************************************************************************)
EXTENDS EventStore, SequenceTheorems, FiniteSetTheorems, TLAPS

-------------------------------------------------------------------------------
(* Logs.  Nothing is assumed about the values of a hash, so a log is a     *)
(* sequence over whatever it contains.                                     *)

IsLog(s) == s \in Seq({s[i] : i \in DOMAIN s})

\* s is what t was some events ago.
Extends(t, s) == /\ Len(s) <= Len(t)
                 /\ \A i \in 1..Len(s) : t[i] = s[i]

\* The positions of a log are 1 to its length.
LEMMA LogDomain ==
    ASSUME NEW s, IsLog(s)
    PROVE  Len(s) \in Nat /\ DOMAIN s = 1..Len(s)
BY LenProperties DEF IsLog

\* The empty log, and only it, has length 0.
LEMMA EmptyLog ==
    /\ IsLog(<<>>)
    /\ Len(<<>>) = 0
    /\ \A s : IsLog(s) /\ Len(s) = 0 => s = <<>>
BY EmptySeq DEF IsLog

\* What appending an event to a log gives.
LEMMA AppendLog ==
    ASSUME NEW s, NEW e, IsLog(s)
    PROVE  /\ IsLog(Append(s, e))
           /\ Len(Append(s, e)) = Len(s) + 1
           /\ \A i \in 1..Len(s) : Append(s, e)[i] = s[i]
           /\ Append(s, e)[Len(s) + 1] = e
<1> DEFINE T == {s[i] : i \in DOMAIN s} \cup {e}
           t == Append(s, e)
<1>1. s \in Seq(T)
  BY SeqMonotonic DEF IsLog
<1>2. /\ t \in Seq(T)
      /\ Len(t) = Len(s) + 1
      /\ \A i \in 1..Len(s) : t[i] = s[i]
      /\ t[Len(s) + 1] = e
  BY <1>1
<1>3. t \in [1..Len(t) -> {t[i] : i \in DOMAIN t}] /\ Len(t) \in Nat
  BY <1>2, LenProperties
<1>4. t \in Seq({t[i] : i \in DOMAIN t})
  <2>1. SubSeq(t, 1, Len(t)) = t
    BY <1>2, SubSeqFull
  <2>2. \A i \in 1..Len(t) : t[i] \in {t[j] : j \in DOMAIN t}
    BY <1>3
  <2> HIDE DEF t
  <2>3. SubSeq(t, 1, Len(t)) \in Seq({t[j] : j \in DOMAIN t})
    BY <1>3, <2>2, SubSeqProperties
  <2> QED
    BY <2>1, <2>3
<1> QED
  BY <1>2, <1>4 DEF IsLog

\* A log that extends another has it as its beginning.
LEMMA ExtendsSubSeq ==
    ASSUME NEW s, NEW t, IsLog(s), IsLog(t), Extends(t, s)
    PROVE  SubSeq(t, 1, Len(s)) = s
<1> DEFINE T == {s[i] : i \in DOMAIN s}
<1>1. Len(s) \in Nat /\ s \in Seq(T) /\ \A i \in 1..Len(s) : s[i] \in T
  BY LogDomain DEF IsLog
<1>2. \A i \in 1..Len(s) : t[i] \in T
  BY <1>1 DEF Extends
<1>3. /\ SubSeq(t, 1, Len(s)) \in Seq(T)
      /\ Len(SubSeq(t, 1, Len(s))) = Len(s)
      /\ \A i \in 1..Len(s) : SubSeq(t, 1, Len(s))[i] = t[i]
  BY <1>1, <1>2, SubSeqProperties
<1> QED
  BY <1>1, <1>3, SeqEqual DEF Extends

-------------------------------------------------------------------------------
(* Tables.                                                                 *)

Rows == [version: Nat, state: SUBSET Keys]

\* An operation key has one event.
KeysUnique(log) ==
    \A i, j \in 1..Len(log) : log[i].operation_key = log[j].operation_key => i = j

\* What Store.audit checks, and what makes a retry safe.
SoundDB(d) ==
    /\ DOMAIN d = {"log", "aggregates", "outbox"}
    /\ IsLog(d.log)
    /\ d.aggregates \in [Aggregates -> Rows]
    /\ d.outbox \subseteq Keys
    /\ ChainOK(d.log)
    /\ GapFree(d.log)
    /\ ProjectionOK(d.log, d.aggregates)
    /\ KeysUnique(d.log)

\* The tables migrate creates are sound.
LEMMA EmptyDBSound == SoundDB(EmptyDB)
<1>1. EmptyDB.log = <<>> /\ IsLog(<<>>) /\ Len(<<>>) = 0
  BY EmptyLog DEF EmptyDB
<1>2. EmptyDB.aggregates \in [Aggregates -> Rows]
  BY DEF EmptyDB, Rows
<1>3. ProjectionOK(EmptyDB.log, EmptyDB.aggregates)
  BY <1>1 DEF EmptyDB, ProjectionOK
<1>4. ChainOK(EmptyDB.log) /\ GapFree(EmptyDB.log) /\ KeysUnique(EmptyDB.log)
  BY <1>1 DEF ChainOK, GapFree, KeysUnique
<1> QED
  BY <1>1, <1>2, <1>3, <1>4 DEF SoundDB, EmptyDB

\* A transition whose operation key is new keeps the tables sound: the heart
\* of the argument.  Nothing is needed of its expected_version.
LEMMA AppliedSound ==
    ASSUME NEW d, SoundDB(d), NEW r \in Requests, ~Recorded(d, r.operation_key)
    PROVE  SoundDB(Applied(d, r)) /\ Extends(Applied(d, r).log, d.log)
<1> DEFINE e == NewEvent(d, r)
           n == Len(d.log)
           a == r.aggregate
           new == Applied(d, r)
<1>1. /\ n \in Nat
      /\ DOMAIN d.log = 1..n
      /\ IsLog(new.log)
      /\ Len(new.log) = n + 1
      /\ \A i \in 1..n : new.log[i] = d.log[i]
      /\ new.log[n + 1] = e
  BY AppendLog, LogDomain DEF SoundDB, Applied
<1>2. /\ e.operation_key = r.operation_key
      /\ e.aggregate = a
      /\ e.aggregate_version = d.aggregates[a].version + 1
      /\ e.state_after = r.state
      /\ e.previous_hash = PreviousHash(d.log)
      /\ e.event_hash = ContentHash(Envelope(e))
  BY DEF NewEvent, Envelope
<1>3. /\ a \in Aggregates
      /\ r.state \subseteq Keys
      /\ r.operation_key \in Keys
      /\ d.aggregates[a].version \in Nat
  BY DEF Requests, SoundDB, Rows
<1>4. /\ new.aggregates[a] = [version |-> e.aggregate_version, state |-> r.state]
      /\ \A b \in Aggregates : b # a => new.aggregates[b] = d.aggregates[b]
      /\ new.aggregates \in [Aggregates -> Rows]
  BY <1>2, <1>3 DEF Applied, SoundDB, Rows
<1> HIDE DEF e, new
<1>5. ChainOK(new.log)
  <2> SUFFICES ASSUME NEW i \in 1..(n + 1)
               PROVE  /\ new.log[i].previous_hash =
                            IF i = 1 THEN "GENESIS" ELSE new.log[i - 1].event_hash
                      /\ new.log[i].event_hash = ContentHash(Envelope(new.log[i]))
    BY <1>1 DEF ChainOK
  <2>1. CASE i \in 1..n
    <3>1. /\ d.log[i].previous_hash = IF i = 1 THEN "GENESIS" ELSE d.log[i - 1].event_hash
          /\ d.log[i].event_hash = ContentHash(Envelope(d.log[i]))
      BY <2>1 DEF ChainOK, SoundDB
    <3>2. new.log[i] = d.log[i] /\ (i # 1 => new.log[i - 1] = d.log[i - 1])
      BY <1>1, <2>1
    <3> QED
      BY <3>1, <3>2
  <2>2. CASE i = n + 1
    <3>1. PreviousHash(d.log) = IF n = 0 THEN "GENESIS" ELSE d.log[n].event_hash
      BY <1>1, EmptyLog DEF PreviousHash, SoundDB
    <3> QED
      BY <1>1, <1>2, <2>2, <3>1
  <2> QED
    BY <1>1, <2>1, <2>2
<1>6. GapFree(new.log)
  <2> SUFFICES ASSUME NEW i \in 1..(n + 1)
               PROVE  \/ /\ new.log[i].aggregate_version = 1
                         /\ \A j \in 1..(i - 1) : new.log[j].aggregate # new.log[i].aggregate
                      \/ \E j \in 1..(i - 1) :
                            /\ IsLatest(new.log, new.log[i].aggregate, i - 1, j)
                            /\ new.log[i].aggregate_version = new.log[j].aggregate_version + 1
    BY <1>1 DEF GapFree
  <2>1. \A j \in 1..(i - 1) : new.log[j] = d.log[j]
    BY <1>1
  <2>2. \A b, j : IsLatest(new.log, b, i - 1, j) <=> IsLatest(d.log, b, i - 1, j)
    BY <2>1 DEF IsLatest
  <2>3. CASE i \in 1..n
    <3>1. new.log[i] = d.log[i]
      BY <1>1, <2>3
    <3> QED
      BY <2>1, <2>2, <2>3, <3>1 DEF GapFree, SoundDB
  <2>4. CASE i = n + 1
    <3>1. new.log[i] = e /\ i - 1 = n
      BY <1>1, <2>4
    <3>2. CASE d.aggregates[a].version = 0 /\ \A j \in 1..n : d.log[j].aggregate # a
      BY <1>2, <2>1, <3>1, <3>2
    <3>3. ASSUME NEW j \in 1..n,
                 IsLatest(d.log, a, n, j),
                 d.aggregates[a] = [version |-> d.log[j].aggregate_version,
                                    state |-> d.log[j].state_after]
          PROVE  /\ IsLatest(new.log, new.log[i].aggregate, i - 1, j)
                 /\ new.log[i].aggregate_version = new.log[j].aggregate_version + 1
                 /\ j \in 1..(i - 1)
      BY <1>2, <2>1, <2>2, <3>1, <3>3
    <3>4. \/ d.aggregates[a].version = 0 /\ \A j \in 1..n : d.log[j].aggregate # a
          \/ \E j \in 1..n : /\ IsLatest(d.log, a, n, j)
                              /\ d.aggregates[a] = [version |-> d.log[j].aggregate_version,
                                                     state |-> d.log[j].state_after]
      BY <1>3 DEF SoundDB, ProjectionOK
    <3> QED
      BY <3>2, <3>3, <3>4
  <2>5. i \in 1..n \/ i = n + 1
    BY <1>1
  <2> QED
    BY ONLY <2>3, <2>4, <2>5
<1>7. ProjectionOK(new.log, new.aggregates)
  <2> SUFFICES ASSUME NEW b \in Aggregates
               PROVE  \/ /\ new.aggregates[b].version = 0
                         /\ new.aggregates[b].state = {}
                         /\ \A j \in 1..(n + 1) : new.log[j].aggregate # b
                      \/ /\ new.aggregates[b].version > 0
                         /\ \E j \in 1..(n + 1) :
                               /\ IsLatest(new.log, b, n + 1, j)
                               /\ new.aggregates[b] =
                                    [version |-> new.log[j].aggregate_version,
                                     state |-> new.log[j].state_after]
    BY <1>1 DEF ProjectionOK
  <2>1. CASE b = a
    <3>1. IsLatest(new.log, b, n + 1, n + 1)
      BY <1>1, <1>2, <2>1 DEF IsLatest
    <3>2. new.aggregates[b].version > 0
      BY <1>2, <1>3, <1>4, <2>1
    <3> QED
      BY <1>1, <1>2, <1>4, <2>1, <3>1, <3>2
  <2>2. CASE b # a
    <3>1. new.aggregates[b] = d.aggregates[b]
      BY <1>4, <2>2
    <3>2. new.log[n + 1].aggregate # b
      BY <1>1, <1>2, <2>2
    <3>3. CASE /\ d.aggregates[b].version = 0
               /\ d.aggregates[b].state = {}
               /\ \A j \in 1..n : d.log[j].aggregate # b
      BY <1>1, <3>1, <3>2, <3>3
    <3>4. ASSUME NEW j \in 1..n,
                 d.aggregates[b].version > 0,
                 IsLatest(d.log, b, n, j),
                 d.aggregates[b] = [version |-> d.log[j].aggregate_version,
                                    state |-> d.log[j].state_after]
          PROVE  /\ IsLatest(new.log, b, n + 1, j)
                 /\ j \in 1..(n + 1)
                 /\ new.aggregates[b].version > 0
                 /\ new.aggregates[b] = [version |-> new.log[j].aggregate_version,
                                         state |-> new.log[j].state_after]
      BY <1>1, <3>1, <3>2, <3>4, SMTT(30) DEF IsLatest
    <3> QED
      BY <3>3, <3>4 DEF SoundDB, ProjectionOK
  <2> QED
    BY <2>1, <2>2
<1>8. KeysUnique(new.log)
  <2>1. \A i \in 1..n : d.log[i].operation_key # e.operation_key
    BY <1>1, <1>2 DEF Recorded
  <2> QED
    BY <1>1, <2>1, SMTT(30) DEF KeysUnique, SoundDB
<1>9. DOMAIN new = {"log", "aggregates", "outbox"} /\ new.outbox \subseteq Keys
  BY <1>3 DEF new, Applied, SoundDB
<1> QED
  BY <1>1, <1>4, <1>5, <1>6, <1>7, <1>8, <1>9 DEF SoundDB, Extends, new

-------------------------------------------------------------------------------
(* The inductive invariant.                                                *)

\* The variables are functions and records with these domains.
Shape ==
    /\ DOMAIN tx = Clients
    /\ \A c \in Clients : DOMAIN tx[c] = {"phase", "request", "work", "arts", "done"}
    /\ DOMAIN last = Clients
    /\ DOMAIN audit = Auditors
    /\ DOMAIN verdict = Auditors

\* Committed and uncommitted tables are sound; only the holder of the lock
\* has uncommitted ones, and they continue the committed log.
TablesSound ==
    /\ SoundDB(db)
    /\ \A c \in Clients :
          Locked(c) => /\ lock = c
                       /\ SoundDB(tx[c].work)
                       /\ Extends(tx[c].work.log, db.log)

\* While an audit is under way nobody holds the lock, so the log it read is
\* still the committed one.
AuditsIsolated ==
    /\ lock # NoClient => shared = {}
    /\ \A u \in Auditors :
          audit[u].phase = "reading" => u \in shared /\ audit[u].log = db.log

Inv == TypeOK /\ Shape /\ TablesSound /\ AuditsIsolated /\ AuditVerifies

\* A log extends itself, and what extends an extension extends the first.
LEMMA ExtendsOrder ==
    /\ \A s : IsLog(s) => Extends(s, s)
    /\ \A s, t, u : /\ IsLog(s) /\ IsLog(t) /\ IsLog(u)
                    /\ Extends(t, s) /\ Extends(u, t)
                    => Extends(u, s)
<1>1. ASSUME NEW s, IsLog(s) PROVE Extends(s, s)
  BY <1>1, LogDomain DEF Extends
<1>2. ASSUME NEW s, NEW t, NEW u, IsLog(s), IsLog(t), IsLog(u), Extends(t, s), Extends(u, t)
      PROVE  Extends(u, s)
  <2>1. Len(s) \in Nat /\ Len(t) \in Nat /\ Len(u) \in Nat
    BY <1>2, LogDomain
  <2> QED
    BY <1>2, <2>1 DEF Extends
<1> QED
  BY <1>1, <1>2

\* What a transition reads, committed or its own, is sound.
LEMMA VisibleSound ==
    ASSUME TablesSound, NEW c \in Clients
    PROVE  SoundDB(Visible(c)) /\ Extends(Visible(c).log, db.log)
BY ExtendsOrder DEF TablesSound, Visible, SoundDB

\* A request derived from a row of sound tables is well formed.
LEMMA RequestTyped ==
    ASSUME NEW c \in Clients, NEW k \in Keys, NEW a \in Aggregates, NEW row \in Rows
    PROVE  RequestFor(c, k, a, row) \in Requests
BY DEF RequestFor, Requests, Rows

\* The initial state satisfies the invariant.
LEMMA InvInit == Init => Inv
<1> SUFFICES ASSUME Init PROVE Inv
  OBVIOUS
<1>1. SoundDB(EmptyDB)
  BY EmptyDBSound
<1>2. Shape
  BY DEF Init, Shape, NoTx
<1>3. TablesSound
  BY <1>1 DEF Init, TablesSound, Locked, NoTx
<1>4. AuditsIsolated /\ AuditVerifies
  BY DEF Init, AuditsIsolated, AuditVerifies
<1>5. TypeOK
  BY <1>1 DEF Init, TypeOK, NoTx, SoundDB, Rows
<1> QED
  BY <1>2, <1>3, <1>4, <1>5 DEF Inv

\* A connection that ends without a commit leaves the committed tables alone
\* and the lock to the others.
LEMMA RollbackInv ==
    ASSUME Inv, NEW c \in Clients, Rollback(c)
    PROVE  Inv'
<1> USE DEF Rollback
<1>1. SoundDB(EmptyDB)
  BY EmptyDBSound
<1>2. tx'[c] = NoTx /\ \A d \in Clients : d # c => tx'[d] = tx[d]
  BY DEF Inv, Shape
<1>3. Shape'
  BY DEF Inv, Shape, NoTx
<1>4. TablesSound'
  <2>1. SoundDB(db)'
    BY DEF Inv, TablesSound
  <2>2. ASSUME NEW d \in Clients, Locked(d)'
        PROVE  lock' = d /\ SoundDB(tx'[d].work) /\ Extends(tx'[d].work.log, db'.log)
    <3>1. d # c
      BY <1>2, <2>2 DEF Locked, NoTx
    <3>2. Locked(d) /\ tx'[d] = tx[d]
      BY <1>2, <2>2, <3>1 DEF Locked
    <3> QED
      BY <3>1, <3>2 DEF Inv, TablesSound
  <2> QED
    BY <2>1, <2>2 DEF TablesSound
<1>5. AuditsIsolated' /\ AuditVerifies'
  BY DEF Inv, AuditsIsolated, AuditVerifies
<1>6. TypeOK'
  BY <1>1, <1>2 DEF Inv, TypeOK, NoTx, SoundDB, Rows
<1> QED
  BY <1>3, <1>4, <1>5, <1>6 DEF Inv

\* A transition that succeeds or is replayed takes the lock and goes on with
\* tables w that continue the committed ones.
LEMMA TakeLockInv ==
    ASSUME Inv, NEW c \in Clients, NEW w,
           tx[c].request # NoRequest,
           LockAvailable(c),
           SoundDB(w), Extends(w.log, db.log),
           lock' = c,
           tx' = [tx EXCEPT ![c].phase = "locked", ![c].request = NoRequest,
                            ![c].work = w, ![c].done = @ \cup {tx[c].request}],
           UNCHANGED <<db, artifacts, shared, last, acked, audit, verdict>>
    PROVE  Inv'
<1>1. /\ tx'[c].phase = "locked"
      /\ tx'[c].request = NoRequest
      /\ tx'[c].work = w
      /\ tx'[c].arts = tx[c].arts
      /\ tx'[c].done = tx[c].done \cup {tx[c].request}
      /\ \A d \in Clients : d # c => tx'[d] = tx[d]
  BY DEF Inv, Shape
<1>2. Shape'
  BY DEF Inv, Shape
<1>3. TablesSound'
  <2>1. SoundDB(db)'
    BY DEF Inv, TablesSound
  <2>2. ASSUME NEW d \in Clients, Locked(d)'
        PROVE  lock' = d /\ SoundDB(tx'[d].work) /\ Extends(tx'[d].work.log, db'.log)
    <3>1. CASE d = c
      BY <1>1, <3>1
    <3>2. CASE d # c
      <4>1. Locked(d)
        BY <1>1, <2>2, <3>2 DEF Locked
      <4> QED
        BY <3>2, <4>1, StoreConstants DEF LockAvailable, Inv, TablesSound
    <3> QED
      BY <3>1, <3>2
  <2> QED
    BY <2>1, <2>2 DEF TablesSound
<1>4. AuditsIsolated' /\ AuditVerifies'
  BY StoreConstants DEF Inv, AuditsIsolated, AuditVerifies, LockAvailable
<1>5. TypeOK'
  <2>1. tx[c].request \in Requests /\ tx[c].done \subseteq Requests /\ tx[c].arts \subseteq Artifacts
    BY DEF Inv, TypeOK
  <2>2. w.aggregates \in [Aggregates -> [version: Nat, state: SUBSET Keys]]
    BY DEF SoundDB, Rows
  <2>3. ASSUME NEW d \in Clients
        PROVE  /\ tx'[d].phase \in {"idle", "open", "locked"}
               /\ tx'[d].request \in Requests \cup {NoRequest}
               /\ tx'[d].work.aggregates \in [Aggregates -> [version: Nat, state: SUBSET Keys]]
               /\ tx'[d].arts \subseteq Artifacts
               /\ tx'[d].done \subseteq Requests
    <3>1. CASE d = c
      BY <1>1, <2>1, <2>2, <3>1
    <3>2. CASE d # c
      BY <1>1, <3>2 DEF Inv, TypeOK
    <3> QED
      BY <3>1, <3>2, Zenon
  <2> QED
    BY <2>3, Zenon DEF Inv, TypeOK
<1> QED
  BY <1>2, <1>3, <1>4, <1>5 DEF Inv

\* A step that changes neither lock nor tables, only what a client asks for.
LEMMA AskInv ==
    ASSUME Inv, NEW c \in Clients,
           UNCHANGED <<db, artifacts, lock, shared, acked, audit, verdict>>,
           DOMAIN tx' = Clients, DOMAIN last' = Clients,
           \A d \in Clients : DOMAIN tx'[d] = DOMAIN tx[d],
           \A d \in Clients : d # c => tx'[d] = tx[d] /\ last'[d] = last[d],
           tx'[c].work = tx[c].work, tx'[c].done = tx[c].done,
           tx'[c].arts \subseteq Artifacts,
           tx'[c].phase \in {"idle", "open", "locked"},
           tx'[c].phase = "locked" => tx[c].phase = "locked",
           tx'[c].request \in Requests \cup {NoRequest},
           last'[c] \in Requests \cup {NoRequest}
    PROVE  Inv'
<1>1. Shape'
  BY DEF Inv, Shape
<1>2. TablesSound'
  BY DEF Inv, TablesSound, Locked
<1>3. AuditsIsolated' /\ AuditVerifies'
  BY DEF Inv, AuditsIsolated, AuditVerifies
<1>4. TypeOK'
  BY DEF Inv, TypeOK
<1> QED
  BY <1>1, <1>2, <1>3, <1>4 DEF Inv

\* Every step keeps the invariant, action by action.
LEMMA InvNext == Inv /\ [Next]_vars => Inv'
<1> SUFFICES ASSUME Inv, [Next]_vars PROVE Inv'
  OBVIOUS
<1>1. ASSUME NEW c \in Clients, NEW k \in Keys, NEW a \in Aggregates, Begin(c, k, a)
      PROVE  Inv'
  <2> DEFINE r == RequestFor(c, k, a, db.aggregates[a])
  <2>1. r \in Requests
    BY RequestTyped DEF Inv, TablesSound, SoundDB, Rows
  <2> HIDE DEF r
  <2>2. /\ tx' = [tx EXCEPT ![c].phase = "open", ![c].request = r]
        /\ last' = [last EXCEPT ![c] = r]
        /\ UNCHANGED <<db, artifacts, lock, shared, acked, audit, verdict>>
    BY <1>1 DEF Begin, r
  <2>3. tx[c].arts \subseteq Artifacts
    BY DEF Inv, TypeOK
  <2> QED
    BY <2>1, <2>2, <2>3, AskInv DEF Inv, Shape
<1>2. ASSUME NEW c \in Clients, Retry(c) PROVE Inv'
  <2>1. last[c] \in Requests \cup {NoRequest} /\ tx[c].arts \subseteq Artifacts
    BY DEF Inv, TypeOK
  <2> QED
    BY <1>2, <2>1, AskInv DEF Retry, Inv, Shape
<1>3. ASSUME NEW c \in Clients, NEW k \in Keys, NEW a \in Aggregates, ReadAgain(c, k, a)
      PROVE  Inv'
  <2> DEFINE r == RequestFor(c, k, a, tx[c].work.aggregates[a])
  <2>1. r \in Requests
    BY <1>3, RequestTyped DEF ReadAgain, Inv, TablesSound, SoundDB, Rows
  <2> HIDE DEF r
  <2>2. /\ tx' = [tx EXCEPT ![c].request = r]
        /\ UNCHANGED <<db, artifacts, lock, shared, last, acked, audit, verdict>>
    BY <1>3 DEF ReadAgain, r
  <2>3. /\ tx[c].arts \subseteq Artifacts
        /\ tx[c].phase \in {"idle", "open", "locked"}
        /\ last[c] \in Requests \cup {NoRequest}
    BY DEF Inv, TypeOK
  <2> QED
    BY <2>1, <2>2, <2>3, AskInv DEF Inv, Shape
<1>4. ASSUME NEW c \in Clients, NEW x \in Artifacts, PutArtifact(c, x) PROVE Inv'
  <2>1. /\ tx[c].arts \subseteq Artifacts
        /\ tx[c].phase \in {"idle", "open", "locked"}
        /\ tx[c].request \in Requests \cup {NoRequest}
        /\ last[c] \in Requests \cup {NoRequest}
    BY DEF Inv, TypeOK
  <2>2. /\ DOMAIN tx' = Clients
        /\ \A d \in Clients : DOMAIN tx'[d] = DOMAIN tx[d]
        /\ \A d \in Clients : d # c => tx'[d] = tx[d]
        /\ tx'[c].work = tx[c].work
        /\ tx'[c].done = tx[c].done
        /\ tx'[c].request = tx[c].request
        /\ tx'[c].arts = tx[c].arts \cup {x}
        /\ tx'[c].phase = IF tx[c].phase = "idle" THEN "open" ELSE tx[c].phase
    BY <1>4 DEF PutArtifact, Inv, Shape
  <2>3. /\ UNCHANGED <<db, artifacts, lock, shared, last, acked, audit, verdict>>
        /\ DOMAIN last' = Clients
    BY <1>4 DEF PutArtifact, Inv, Shape
  <2> QED
    BY <2>1, <2>2, <2>3, AskInv
<1>5. ASSUME NEW c \in Clients, Append1(c) PROVE Inv'
  <2>1. SoundDB(Visible(c)) /\ Extends(Visible(c).log, db.log)
    BY VisibleSound DEF Inv
  <2>2. tx[c].request \in Requests
    BY <1>5 DEF Append1, Inv, TypeOK
  <2>3. ~Recorded(Visible(c), tx[c].request.operation_key)
    BY <1>5 DEF Append1, Outcome
  <2>4. /\ SoundDB(Applied(Visible(c), tx[c].request))
        /\ Extends(Applied(Visible(c), tx[c].request).log, Visible(c).log)
    BY <2>1, <2>2, <2>3, AppliedSound
  <2>5. Extends(Applied(Visible(c), tx[c].request).log, db.log)
    BY <2>1, <2>4, ExtendsOrder DEF SoundDB, Inv, TablesSound
  <2> QED
    BY <1>5, <2>4, <2>5, TakeLockInv DEF Append1
<1>6. ASSUME NEW c \in Clients, Replay(c) PROVE Inv'
  BY <1>6, VisibleSound, TakeLockInv DEF Replay, Inv
<1>7. ASSUME NEW c \in Clients, Refuse(c) \/ Timeout(c) \/ Crash(c) PROVE Inv'
  BY <1>7, RollbackInv DEF Refuse, Timeout, Crash
<1>8. ASSUME NEW c \in Clients, NEW delivered \in BOOLEAN, Commit(c, delivered) PROVE Inv'
  <2> USE <1>8 DEF Commit
  <2>1. SoundDB(EmptyDB)
    BY EmptyDBSound
  <2>2. tx'[c] = NoTx /\ \A d \in Clients : d # c => tx'[d] = tx[d]
    BY DEF Inv, Shape
  <2>3. Shape'
    BY DEF Inv, Shape, NoTx
  <2>4. db' = db \/ (lock = c /\ shared = {})
    BY StoreConstants DEF Visible, Inv, TablesSound, AuditsIsolated
  <2>5. TablesSound'
    <3>1. SoundDB(db)'
      BY VisibleSound DEF Inv
    <3>2. ASSUME NEW d \in Clients, Locked(d)'
          PROVE  lock' = d /\ SoundDB(tx'[d].work) /\ Extends(tx'[d].work.log, db'.log)
      <4>1. d # c
        BY <2>2, <3>2 DEF Locked, NoTx
      <4>2. Locked(d) /\ tx'[d] = tx[d]
        BY <2>2, <3>2, <4>1 DEF Locked
      <4>3. lock = d
        BY <4>2 DEF Inv, TablesSound
      <4> QED
        BY <2>4, <4>1, <4>2, <4>3 DEF Inv, TablesSound
    <3> QED
      BY <3>1, <3>2 DEF TablesSound
  <2>6. AuditsIsolated' /\ AuditVerifies'
    BY <2>4 DEF Inv, AuditsIsolated, AuditVerifies
  <2>7. TypeOK'
    <3>1. SoundDB(db)' /\ artifacts' \subseteq Artifacts /\ acked' \subseteq Requests
      BY <2>5 DEF Inv, TypeOK, TablesSound
    <3> QED
      BY <2>1, <2>2, <3>1 DEF Inv, TypeOK, NoTx, SoundDB, Rows
  <2> QED
    BY <2>3, <2>5, <2>6, <2>7 DEF Inv
<1>9. ASSUME NEW u \in Auditors, AuditLog(u) PROVE Inv'
  <2> USE <1>9 DEF AuditLog
  <2>1. Shape' /\ AuditVerifies' /\ TablesSound'
    BY DEF Inv, Shape, AuditVerifies, TablesSound, Locked
  <2>2. AuditsIsolated'
    BY DEF Inv, Shape, AuditsIsolated
  <2>3. TypeOK'
    BY DEF Inv, Shape, TypeOK
  <2> QED
    BY <2>1, <2>2, <2>3 DEF Inv
<1>10. ASSUME NEW u \in Auditors, AuditProjection(u) PROVE Inv'
  <2>1. /\ audit' = [audit EXCEPT ![u] = [phase |-> "idle", log |-> <<>>]]
        /\ shared' = shared \ {u}
        /\ UNCHANGED <<db, artifacts, lock, tx, last, acked>>
    BY <1>10 DEF AuditProjection
  <2>2. verdict' = [verdict EXCEPT ![u] = "VERIFIED"]
    <3>1. audit[u].log = db.log
      BY <1>10 DEF AuditProjection, Inv, AuditsIsolated
    <3>2. /\ ChainOK(audit[u].log)
          /\ GapFree(audit[u].log)
          /\ ProjectionOK(audit[u].log, db.aggregates)
      BY <3>1 DEF Inv, TablesSound, SoundDB
    <3> QED
      BY <1>10, <3>2 DEF AuditProjection
  <2>3. Shape' /\ TablesSound'
    BY <2>1, <2>2 DEF Inv, Shape, TablesSound, Locked
  <2>4. AuditsIsolated'
    BY <2>1 DEF Inv, Shape, AuditsIsolated
  <2>5. AuditVerifies'
    BY <2>2 DEF Inv, Shape, AuditVerifies
  <2>6. TypeOK'
    BY <2>1 DEF Inv, Shape, TypeOK
  <2> QED
    BY <2>3, <2>4, <2>5, <2>6 DEF Inv
<1>11. ASSUME UNCHANGED vars PROVE Inv'
  BY <1>11 DEF vars, Inv, TypeOK, Shape, TablesSound, AuditsIsolated, AuditVerifies, Locked
<1> QED
  BY <1>1, <1>2, <1>3, <1>4, <1>5, <1>6, <1>7, <1>8, <1>9, <1>10, <1>11
  DEF Next, ClientStep, AuditStep

-------------------------------------------------------------------------------
(* Theorems.                                                               *)

\* The invariant holds in every reachable state.
THEOREM Invariance == Spec => []Inv
BY InvInit, InvNext, PTL DEF Spec

\* Tables, locks and transactions keep their types under every operation of
\* Store.
THEOREM TypeCorrect == Spec => []TypeOK
<1>1. Inv => TypeOK
  BY DEF Inv
<1> QED
  BY <1>1, Invariance, PTL

\* Store.audit never reports an integrity failure, a revision gap or drift of
\* the projection, whatever transactions run around its two statements.
THEOREM AuditNeverFails == Spec => []AuditVerifies
<1>1. Inv => AuditVerifies
  BY DEF Inv
<1> QED
  BY <1>1, Invariance, PTL

\* No retry of an operation key, with the same request or another, makes
\* Store.transition append a second event for it.
THEOREM AtMostOneEvent == Spec => []AppliedOnce
<1>1. Inv => AppliedOnce
  BY LogDomain DEF Inv, TablesSound, SoundDB, KeysUnique, AppliedOnce
<1> QED
  BY <1>1, Invariance, PTL

\* A commit only adds events at the end of event_log: the copy a transaction
\* worked on never misses what others committed.
THEOREM LogOnlyGrows == Spec => LogAppendOnly
<1>1. ASSUME Inv, Inv', [Next]_vars
      PROVE  [/\ Len(db'.log) >= Len(db.log)
              /\ SubSeq(db'.log, 1, Len(db.log)) = db.log]_db
  <2>1. IsLog(db.log) /\ IsLog(db'.log)
    BY <1>1 DEF Inv, TablesSound, SoundDB
  <2>2. ASSUME NEW c \in Clients, NEW delivered \in BOOLEAN, Commit(c, delivered)
        PROVE  Extends(db'.log, db.log)
    BY <1>1, <2>2, VisibleSound DEF Commit, Inv
  <2>3. db' = db \/ Extends(db'.log, db.log)
    <3>1. CASE UNCHANGED vars
      BY <3>1 DEF vars
    <3>2. CASE \E u \in Auditors : AuditStep(u)
      BY <3>2 DEF AuditStep, AuditLog, AuditProjection
    <3>3. CASE \E c \in Clients : ClientStep(c)
      BY <2>2, <3>3, ZenonT(60) DEF ClientStep, Begin, Retry, ReadAgain, PutArtifact, Append1, Replay,
                        Refuse, Timeout, Crash, Rollback
    <3> QED
      BY <1>1, <3>1, <3>2, <3>3 DEF Next
  <2>4. Extends(db'.log, db.log) =>
           /\ Len(db'.log) >= Len(db.log)
           /\ SubSeq(db'.log, 1, Len(db.log)) = db.log
    BY <2>1, ExtendsSubSeq, LogDomain DEF Extends
  <2> QED
    BY <2>3, <2>4
<1> QED
  BY <1>1, Invariance, PTL DEF Spec, LogAppendOnly

-------------------------------------------------------------------------------
(* What tables contain.  The first invariant says that they agree with each *)
(* other, this one what they hold: every operation of the log and nothing  *)
(* else, and in a transaction's own copy no more than it wrote.            *)

\* Projection and outbox hold the operations of the log.
Complete(d) ==
    /\ \A a \in Aggregates : d.aggregates[a].state = KeysOf(d.log, a)
    /\ d.outbox = {d.log[i].operation_key : i \in DOMAIN d.log} \cap TopicKeys
    /\ \A i \in DOMAIN d.log : /\ d.log[i].operation_key \in Keys
                               /\ d.log[i].aggregate \in Aggregates

\* The log holds exactly this request.
Answered(d, r) ==
    \E i \in DOMAIN d.log : /\ d.log[i].operation_key = r.operation_key
                            /\ d.log[i].operation_hash = ContentHash(r)

CitesIn(d, arts) == \A i \in DOMAIN d.log : d.log[i].artifact_ids \subseteq arts

\* The events of aggregate a that w has and d does not.
New(w, d, a) == {i \in 1..(Len(w.log) - Len(d.log)) : w.log[Len(d.log) + i].aggregate = a}

\* w is d after at most n transitions.
Continues(w, d, n) ==
    /\ Len(w.log) - Len(d.log) <= n
    /\ \A a \in Aggregates :
          /\ w.aggregates[a].version = d.aggregates[a].version + Cardinality(New(w, d, a))
          /\ w.aggregates[a] = d.aggregates[a] \/ w.aggregates[a].version > d.aggregates[a].version

\* A request was derived from a version of its aggregate that is no later than
\* the one in d, and if it is that one, from its state.
Derived(d, r) ==
    LET row == d.aggregates[r.aggregate] IN
    /\ r.expected_version <= row.version
    /\ r.expected_version = row.version => r.state = row.state \cup {r.operation_key}

\* What the open transaction of c sees and has asked for.
ClientContents(c) ==
    /\ Complete(Visible(c)) /\ CitesIn(Visible(c), artifacts \cup tx[c].arts)
    /\ \A r \in tx[c].done : Answered(Visible(c), r)
    /\ Continues(Visible(c), db, Cardinality(tx[c].done))
    /\ ~Locked(c) => tx[c].done = {}
    /\ tx[c].request # NoRequest => Derived(Visible(c), tx[c].request)
    /\ last[c] # NoRequest => Derived(db, last[c])
    /\ IsFiniteSet(tx[c].done)
    /\ Cardinality(tx[c].done) <= MaxWrites
    /\ tx[c].request # NoRequest => Cardinality(tx[c].done) < MaxWrites

Contents ==
    /\ Complete(db) /\ CitesIn(db, artifacts)
    /\ \A r \in acked : Answered(db, r)
    /\ \A c \in Clients : ClientContents(c)

\* The tables as they are continue themselves.
LEMMA ContinuesSelf ==
    ASSUME NEW d, SoundDB(d)
    PROVE  Continues(d, d, 0)
<1>1. Len(d.log) \in Nat
  BY LogDomain DEF SoundDB
<1>2. \A a : New(d, d, a) = {}
  BY <1>1 DEF New
<1>3. \A a \in Aggregates : d.aggregates[a].version \in Nat
  BY DEF SoundDB, Rows
<1> QED
  BY <1>1, <1>2, <1>3, FS_EmptySet DEF Continues

\* What was derived from earlier tables is derived from later ones: a version
\* that was passed is not reached again.
LEMMA DerivedLater ==
    ASSUME NEW w, NEW d, NEW n, SoundDB(w), SoundDB(d), Continues(w, d, n),
           NEW r \in Requests, Derived(d, r)
    PROVE  Derived(w, r)
<1> DEFINE a == r.aggregate
<1>1. a \in Aggregates /\ r.expected_version \in Nat
  BY DEF Requests
<1>2. w.aggregates[a].version \in Nat /\ d.aggregates[a].version \in Nat
  BY <1>1 DEF SoundDB, Rows
<1>3. w.aggregates[a] = d.aggregates[a] \/ w.aggregates[a].version > d.aggregates[a].version
  BY <1>1 DEF Continues
<1> QED
  BY <1>1, <1>2, <1>3 DEF Derived

\* A transition whose checks passed under the lock adds its operation to the
\* projection, the outbox and the log, and loses no other.
LEMMA AppliedComplete ==
    ASSUME NEW d, SoundDB(d), NEW w, SoundDB(w), Extends(w.log, d.log),
           NEW n \in Nat, Complete(w), Continues(w, d, n),
           NEW r \in Requests, ~Recorded(w, r.operation_key), UpToDate(w, r), Derived(w, r)
    PROVE  /\ Complete(Applied(w, r))
           /\ Continues(Applied(w, r), d, n + 1)
           /\ Answered(Applied(w, r), r)
           /\ \A q : Answered(w, q) => Answered(Applied(w, r), q)
           /\ \A arts : CitesIn(w, arts) /\ Cites[r.operation_key] \subseteq arts
                           => CitesIn(Applied(w, r), arts)
<1> DEFINE e == NewEvent(w, r)
           m == Len(w.log)
           l == Len(d.log)
           a == r.aggregate
           k == r.operation_key
           new == Applied(w, r)
<1>1. /\ m \in Nat /\ l \in Nat /\ l <= m
      /\ DOMAIN w.log = 1..m
      /\ IsLog(new.log)
      /\ Len(new.log) = m + 1
      /\ DOMAIN new.log = 1..(m + 1)
      /\ \A i \in 1..m : new.log[i] = w.log[i]
      /\ new.log[m + 1] = e
  BY AppendLog, LogDomain DEF SoundDB, Applied, Extends
<1>2. /\ e.operation_key = k
      /\ e.operation_hash = ContentHash(r)
      /\ e.aggregate = a
      /\ e.aggregate_version = w.aggregates[a].version + 1
      /\ e.artifact_ids = Cites[k]
  BY DEF NewEvent
<1>3. a \in Aggregates /\ k \in Keys /\ r.expected_version \in Nat
  BY DEF Requests
<1>4. \A b \in Aggregates : w.aggregates[b].version \in Nat /\ d.aggregates[b].version \in Nat
  BY DEF SoundDB, Rows
<1>5. /\ new.aggregates[a] = [version |-> w.aggregates[a].version + 1, state |-> r.state]
      /\ \A b \in Aggregates : b # a => new.aggregates[b] = w.aggregates[b]
  BY <1>2, <1>3 DEF Applied, SoundDB
<1>6. new.outbox = w.outbox \cup ({k} \cap TopicKeys)
  BY DEF Applied
<1>7. r.state = w.aggregates[a].state \cup {k}
  BY DEF UpToDate, Derived
<1>8. Len(w.log) = m /\ Len(d.log) = l
  OBVIOUS
<1> HIDE DEF e, new, m, l
<1>9. \A i : i \in 1..(m + 1) <=> i \in 1..m \/ i = m + 1
  BY <1>1
<1>10. Complete(new)
  <2>1. ASSUME NEW b \in Aggregates PROVE new.aggregates[b].state = KeysOf(new.log, b)
    <3>1. w.aggregates[b].state = KeysOf(w.log, b)
      BY DEF Complete
    <3>2. KeysOf(new.log, b) = KeysOf(w.log, b) \cup (IF b = a THEN {k} ELSE {})
      BY <1>1, <1>2, <1>9 DEF KeysOf
    <3> QED
      BY <1>5, <1>7, <3>1, <3>2
  <2>2. {new.log[i].operation_key : i \in DOMAIN new.log}
          = {w.log[i].operation_key : i \in DOMAIN w.log} \cup {k}
    BY <1>1, <1>2, <1>9, SMTT(30)
  <2>3. new.outbox = {new.log[i].operation_key : i \in DOMAIN new.log} \cap TopicKeys
    BY <1>6, <2>2 DEF Complete
  <2>4. \A i \in DOMAIN new.log : /\ new.log[i].operation_key \in Keys
                                  /\ new.log[i].aggregate \in Aggregates
    BY <1>1, <1>2, <1>3, <1>9 DEF Complete
  <2> QED
    BY <2>1, <2>3, <2>4 DEF Complete
<1>11. Continues(new, d, n + 1)
  <2>1. Len(new.log) - l <= n + 1
    <3>1. m - l <= n
      BY <1>8 DEF Continues
    <3> QED
      BY <1>1, <3>1
  <2>2. ASSUME NEW b \in Aggregates
        PROVE  /\ IsFiniteSet(New(w, d, b))
               /\ Cardinality(New(w, d, b)) \in Nat
               /\ b # a => New(new, d, b) = New(w, d, b)
               /\ b = a => Cardinality(New(new, d, b)) = Cardinality(New(w, d, b)) + 1
    <3> DEFINE x == m - l
    <3>1. x \in Nat /\ Len(new.log) - l = x + 1 /\ l + (x + 1) = m + 1
      BY <1>1
    <3>2. 1..(x + 1) = 1..x \cup {x + 1}
      BY <3>1
    <3>3. \A i \in 1..x : l + i \in 1..m
      BY <1>1
    <3>4. New(w, d, b) \subseteq 1..x
      BY <1>8 DEF New
    <3>5. IsFiniteSet(New(w, d, b)) /\ Cardinality(New(w, d, b)) \in Nat
      <4>1. IsFiniteSet(1..x)
        BY <3>1, FS_Interval
      <4>2. IsFiniteSet(New(w, d, b))
        BY <3>4, <4>1, FS_Subset
      <4> QED
        BY <4>2, FS_CardinalityType
    <3>6. New(new, d, b) = New(w, d, b) \cup (IF b = a THEN {x + 1} ELSE {})
      <4>1. \A i \in 1..x : new.log[l + i] = w.log[l + i]
        BY <1>1, <3>3
      <4>2. new.log[l + (x + 1)].aggregate = a
        BY <1>1, <1>2, <3>1
      <4> HIDE DEF x
      <4>3. New(new, d, b) = {i \in 1..x \cup {x + 1} : new.log[l + i].aggregate = b}
        BY <1>8, <3>1, <3>2 DEF New
      <4>4. New(w, d, b) = {i \in 1..x : w.log[l + i].aggregate = b}
        BY <1>8 DEF New, x
      <4> QED
        BY <4>1, <4>2, <4>3, <4>4
    <3>7. x + 1 \notin New(w, d, b)
      <4>1. x + 1 \notin 1..x
        BY <3>1
      <4> QED
        BY <3>4, <4>1
    <3> HIDE DEF x
    <3> QED
      BY <3>5, <3>6, <3>7, FS_AddElement
  <2>3. ASSUME NEW b \in Aggregates
        PROVE  /\ new.aggregates[b].version = d.aggregates[b].version + Cardinality(New(new, d, b))
               /\ \/ new.aggregates[b] = d.aggregates[b]
                  \/ new.aggregates[b].version > d.aggregates[b].version
    <3>1. /\ w.aggregates[b].version = d.aggregates[b].version + Cardinality(New(w, d, b))
          /\ \/ w.aggregates[b] = d.aggregates[b]
             \/ w.aggregates[b].version > d.aggregates[b].version
      BY DEF Continues
    <3>2. CASE b = a
      <4>1. new.aggregates[b].version = w.aggregates[b].version + 1
        BY <1>5, <3>2
      <4> QED
        BY <1>4, <2>2, <3>1, <3>2, <4>1
    <3>3. CASE b # a
      BY <1>5, <2>2, <3>1, <3>3
    <3> QED
      BY <3>2, <3>3
  <2> QED
    BY <1>8, <2>1, <2>3 DEF Continues
<1>12. Answered(new, r)
  BY <1>1, <1>2 DEF Answered
<1>13. \A q : Answered(w, q) => Answered(new, q)
  BY <1>1 DEF Answered
<1>14. ASSUME NEW arts, CitesIn(w, arts), Cites[k] \subseteq arts PROVE CitesIn(new, arts)
  BY <1>1, <1>2, <1>14 DEF CitesIn
<1> QED
  BY <1>10, <1>11, <1>12, <1>13, <1>14 DEF new

\* A longer log answers what a shorter one did.
LEMMA AnsweredLater ==
    ASSUME NEW w, NEW d, IsLog(w.log), IsLog(d.log), Extends(w.log, d.log), NEW q, Answered(d, q)
    PROVE  Answered(w, q)
<1>1. /\ DOMAIN d.log = 1..Len(d.log) /\ DOMAIN w.log = 1..Len(w.log)
      /\ Len(d.log) \in Nat /\ Len(w.log) \in Nat /\ Len(d.log) <= Len(w.log)
  BY LogDomain DEF Extends
<1> QED
  BY <1>1 DEF Answered, Extends

\* A request derived from a row is derived from the tables the row is in.
LEMMA RequestDerived ==
    ASSUME NEW d, SoundDB(d), NEW c \in Clients, NEW k \in Keys, NEW a \in Aggregates
    PROVE  Derived(d, RequestFor(c, k, a, d.aggregates[a]))
<1>1. d.aggregates[a].version \in Nat
  BY DEF SoundDB, Rows
<1> QED
  BY <1>1 DEF Derived, RequestFor

\* A transaction that has written nothing may write.
LEMMA NothingDone ==
    /\ IsFiniteSet({}) /\ Cardinality({}) = 0
    /\ 0 <= MaxWrites /\ 0 < MaxWrites
BY FS_EmptySet, StoreConstants DEF StoreConstants

\* A step of client c that only changes what c asks for leaves contents alone.
LEMMA AskContents ==
    ASSUME Inv, Contents, NEW c \in Clients,
           UNCHANGED <<db, artifacts, acked>>,
           \A d \in Clients : d # c => tx'[d] = tx[d] /\ last'[d] = last[d],
           tx'[c].work = tx[c].work, tx'[c].done = tx[c].done,
           tx[c].arts \subseteq tx'[c].arts,
           tx'[c].phase = "locked" <=> tx[c].phase = "locked",
           tx'[c].request # NoRequest => /\ Derived(Visible(c), tx'[c].request)
                                         /\ Cardinality(tx[c].done) < MaxWrites,
           last'[c] # NoRequest => Derived(db, last'[c])
    PROVE  Contents'
<1>1. \A d \in Clients : Visible(d)' = Visible(d) /\ Locked(d)' = Locked(d)
  BY DEF Visible, Locked
<1>2. ASSUME NEW d \in Clients PROVE ClientContents(d)'
  <2>1. ClientContents(d)
    BY DEF Contents
  <2>2. CASE d # c
    BY <1>1, <2>1, <2>2 DEF ClientContents
  <2>3. CASE d = c
    <3>1. CitesIn(Visible(c), artifacts \cup tx'[c].arts)
      BY <2>1, <2>3 DEF ClientContents, CitesIn
    <3> QED
      BY <1>1, <2>1, <2>3, <3>1 DEF ClientContents
  <2> QED
    BY <2>2, <2>3
<1> QED
  BY <1>2 DEF Contents

\* A transition that succeeds or is replayed: c goes on with tables w.
LEMMA TakeLockContents ==
    ASSUME Inv, Contents, NEW c \in Clients, NEW w,
           tx[c].request # NoRequest,
           Complete(w), CitesIn(w, artifacts \cup tx[c].arts),
           \A r \in tx[c].done \cup {tx[c].request} : Answered(w, r),
           Continues(w, db, Cardinality(tx[c].done \cup {tx[c].request})),
           tx' = [tx EXCEPT ![c].phase = "locked", ![c].request = NoRequest,
                            ![c].work = w, ![c].done = @ \cup {tx[c].request}],
           UNCHANGED <<db, artifacts, last, acked>>
    PROVE  Contents'
<1>1. /\ tx'[c].phase = "locked"
      /\ tx'[c].request = NoRequest
      /\ tx'[c].work = w
      /\ tx'[c].arts = tx[c].arts
      /\ tx'[c].done = tx[c].done \cup {tx[c].request}
      /\ \A d \in Clients : d # c => tx'[d] = tx[d]
  BY DEF Inv, Shape
<1>2. Visible(c)' = w /\ Locked(c)'
  BY <1>1 DEF Visible, Locked
<1>3. ASSUME NEW d \in Clients PROVE ClientContents(d)'
  <2>1. ClientContents(d)
    BY DEF Contents
  <2>2. CASE d # c
    <3>1. Visible(d)' = Visible(d) /\ (Locked(d)' <=> Locked(d))
      <4>1. tx'[d] = tx[d] /\ db' = db
        BY <1>1, <2>2
      <4> QED
        BY ONLY <4>1 DEF Visible, Locked
    <3> QED
      BY <1>1, <2>1, <2>2, <3>1 DEF ClientContents
  <2>3. CASE d = c
    <3>1. /\ IsFiniteSet(tx[c].done)
          /\ Cardinality(tx[c].done) < MaxWrites
      BY <2>1, <2>3 DEF ClientContents
    <3>2. /\ IsFiniteSet(tx'[c].done)
          /\ Cardinality(tx'[c].done) <= Cardinality(tx[c].done) + 1
      <4>1. PICK D, x : D = tx[c].done /\ tx'[c].done = D \cup {x}
        BY <1>1
      <4>2. IsFiniteSet(D) /\ Cardinality(D) \in Nat
        BY <3>1, <4>1, FS_CardinalityType
      <4>3. IsFiniteSet(D \cup {x}) /\ Cardinality(D \cup {x}) \in {Cardinality(D), Cardinality(D) + 1}
        BY <4>2, FS_AddElement
      <4>4. Cardinality(D \cup {x}) <= Cardinality(D) + 1
        BY <4>2, <4>3
      <4> QED
        BY <4>1, <4>3, <4>4
    <3>3. Cardinality(tx'[c].done) <= MaxWrites
      <4>1. Cardinality(tx[c].done) \in Nat /\ Cardinality(tx'[c].done) \in Nat
        BY <3>1, <3>2, FS_CardinalityType
      <4>2. MaxWrites \in Nat
        BY StoreConstants DEF StoreConstants
      <4> QED
        BY <3>1, <3>2, <4>1, <4>2
    <3> QED
      BY <1>1, <1>2, <2>1, <2>3, <3>2, <3>3 DEF ClientContents
  <2> QED
    BY <2>2, <2>3
<1> QED
  BY <1>3 DEF Contents

\* The transaction of c is over and db' is what it leaves behind: the committed
\* tables as they were, or its own.
LEMMA EndContents ==
    ASSUME Inv, Inv', Contents, NEW c \in Clients, NEW n,
           tx' = [tx EXCEPT ![c] = NoTx], last' = last,
           Continues(db', db, n),
           Complete(db'), CitesIn(db', artifacts'), artifacts \subseteq artifacts',
           \A r \in acked' : Answered(db', r),
           \A d \in Clients : d # c /\ Locked(d) => db' = db
    PROVE  Contents'
<1>1. tx'[c] = NoTx /\ \A d \in Clients : d # c => tx'[d] = tx[d]
  BY DEF Inv, Shape
<1>2. SoundDB(db) /\ SoundDB(db')
  BY DEF Inv, TablesSound
<1>3. ASSUME NEW d \in Clients PROVE ClientContents(d)'
  <2>1. ClientContents(d)
    BY DEF Contents
  <2>2. last'[d] # NoRequest => Derived(db', last'[d])
    <3>1. last[d] # NoRequest => last[d] \in Requests /\ Derived(db, last[d])
      BY <2>1 DEF ClientContents, Inv, TypeOK
    <3> QED
      BY <1>2, <3>1, DerivedLater
  <2>3. CASE ~Locked(d)'
    <3>1. Visible(d)' = db'
      BY <2>3 DEF Visible
    <3>2. tx'[d].done = {}
      <4>1. CASE d = c
        BY <1>1, <4>1 DEF NoTx
      <4>2. CASE d # c
        BY <1>1, <2>1, <2>3, <4>2 DEF ClientContents, Locked
      <4> QED
        BY <4>1, <4>2
    <3>3. CitesIn(db', artifacts' \cup tx'[d].arts)
      BY DEF CitesIn
    <3>4. tx'[d].request # NoRequest => Derived(db', tx'[d].request)
      <4>1. CASE d = c
        BY <1>1, <4>1 DEF NoTx
      <4>2. CASE d # c
        <5>1. Visible(d) = db /\ tx'[d] = tx[d]
          BY <1>1, <2>3, <4>2 DEF Visible, Locked
        <5>2. tx[d].request # NoRequest => tx[d].request \in Requests /\ Derived(db, tx[d].request)
          BY <2>1, <5>1 DEF ClientContents, Inv, TypeOK
        <5> QED
          BY <1>2, <5>1, <5>2, DerivedLater
      <4> QED
        BY <4>1, <4>2
    <3>5. Continues(db', db', 0)
      BY <1>2, ContinuesSelf
    <3> QED
      BY <2>2, <2>3, <3>1, <3>2, <3>3, <3>4, <3>5, NothingDone DEF ClientContents
  <2>4. CASE Locked(d)'
    <3>1. d # c
      BY <1>1, <2>4 DEF Locked, NoTx
    <3>2. Locked(d) /\ tx'[d] = tx[d] /\ db' = db
      BY <1>1, <2>4, <3>1 DEF Locked
    <3>3. Visible(d)' = Visible(d)
      BY <2>4, <3>2 DEF Visible
    <3>4. CitesIn(Visible(d), artifacts' \cup tx[d].arts)
      BY <2>1 DEF ClientContents, CitesIn
    <3> QED
      BY <2>1, <2>2, <2>4, <3>2, <3>3, <3>4 DEF ClientContents
  <2> QED
    BY <2>3, <2>4
<1> QED
  BY <1>3 DEF Contents

\* The empty tables hold nothing and nobody has asked for anything.
LEMMA ContentsInit == Init => Contents
<1> SUFFICES ASSUME Init PROVE Contents
  OBVIOUS
<1>1. db = EmptyDB /\ SoundDB(db)
  BY EmptyDBSound DEF Init
<1>2. db.log = <<>> /\ DOMAIN db.log = {}
  <2>1. db.log = <<>>
    BY <1>1 DEF EmptyDB
  <2>2. Len(db.log) = 0 /\ DOMAIN db.log = 1..0
    BY <2>1, EmptyLog, LogDomain
  <2> QED
    BY <2>1, <2>2
<1>3. Complete(db)
  BY <1>1, <1>2 DEF Complete, KeysOf, EmptyDB
<1>4. \A arts : CitesIn(db, arts)
  BY <1>2 DEF CitesIn
<1>5. ASSUME NEW c \in Clients PROVE ClientContents(c)
  <2>1. tx[c] = NoTx /\ last[c] = NoRequest
    BY DEF Init
  <2>2. ~Locked(c) /\ Visible(c) = db
    BY <2>1 DEF Locked, Visible, NoTx
  <2>3. tx[c].done = {} /\ tx[c].request = NoRequest
    BY <2>1 DEF NoTx
  <2>4. Continues(db, db, 0)
    BY <1>1, ContinuesSelf
  <2> QED
    BY <1>3, <1>4, <2>1, <2>2, <2>3, <2>4, NothingDone DEF ClientContents
<1>6. acked = {}
  BY DEF Init
<1> QED
  BY <1>3, <1>4, <1>5, <1>6 DEF Contents

\* Every step keeps what the tables contain.
LEMMA ContentsNext == Inv /\ Inv' /\ Contents /\ [Next]_vars => Contents'
<1> SUFFICES ASSUME Inv, Inv', Contents, [Next]_vars PROVE Contents'
  OBVIOUS
<1>1. \A c \in Clients : ClientContents(c)
  BY DEF Contents
<1>2. \A c \in Clients : ~Locked(c) => /\ Visible(c) = db
                                       /\ Cardinality(tx[c].done) < MaxWrites
  BY <1>1, NothingDone DEF ClientContents, Visible
<1>3. SoundDB(db) /\ \A c \in Clients : Locked(c) => SoundDB(tx[c].work)
  BY DEF Inv, TablesSound
<1>4. ASSUME NEW c \in Clients, NEW k \in Keys, NEW a \in Aggregates, Begin(c, k, a)
      PROVE  Contents'
  <2> DEFINE r == RequestFor(c, k, a, db.aggregates[a])
  <2>1. Derived(db, r)
    BY <1>3, RequestDerived
  <2> HIDE DEF r
  <2>2. /\ tx' = [tx EXCEPT ![c].phase = "open", ![c].request = r]
        /\ last' = [last EXCEPT ![c] = r]
        /\ UNCHANGED <<db, artifacts, acked>>
        /\ ~Locked(c)
    BY <1>4 DEF Begin, r
  <2>3. /\ \A d \in Clients : d # c => tx'[d] = tx[d] /\ last'[d] = last[d]
        /\ tx'[c].work = tx[c].work /\ tx'[c].done = tx[c].done /\ tx'[c].arts = tx[c].arts
        /\ tx'[c].phase = "open" /\ tx'[c].request = r /\ last'[c] = r
    BY <2>2 DEF Inv, Shape
  <2> QED
    BY <1>2, <2>1, <2>2, <2>3, AskContents DEF Locked
<1>5. ASSUME NEW c \in Clients, Retry(c) PROVE Contents'
  <2>1. /\ tx' = [tx EXCEPT ![c].phase = "open", ![c].request = last[c]]
        /\ UNCHANGED <<db, artifacts, acked, last>>
        /\ ~Locked(c)
        /\ last[c] # NoRequest
    BY <1>5 DEF Retry
  <2>2. /\ \A d \in Clients : d # c => tx'[d] = tx[d]
        /\ tx'[c].work = tx[c].work /\ tx'[c].done = tx[c].done /\ tx'[c].arts = tx[c].arts
        /\ tx'[c].phase = "open" /\ tx'[c].request = last[c]
    BY <2>1 DEF Inv, Shape
  <2>3. Derived(db, last[c])
    BY <1>1, <2>1 DEF ClientContents
  <2> QED
    BY <1>2, <2>1, <2>2, <2>3, AskContents DEF Locked
<1>6. ASSUME NEW c \in Clients, NEW k \in Keys, NEW a \in Aggregates, ReadAgain(c, k, a)
      PROVE  Contents'
  <2> DEFINE r == RequestFor(c, k, a, tx[c].work.aggregates[a])
  <2>1. Locked(c) /\ Visible(c) = tx[c].work /\ Cardinality(tx[c].done) < MaxWrites
    BY <1>6 DEF ReadAgain, Visible
  <2>2. Derived(Visible(c), r)
    BY <1>3, <2>1, RequestDerived
  <2> HIDE DEF r
  <2>3. /\ tx' = [tx EXCEPT ![c].request = r]
        /\ UNCHANGED <<db, artifacts, acked, last>>
    BY <1>6 DEF ReadAgain, r
  <2>4. /\ \A d \in Clients : d # c => tx'[d] = tx[d]
        /\ tx'[c].work = tx[c].work /\ tx'[c].done = tx[c].done /\ tx'[c].arts = tx[c].arts
        /\ tx'[c].phase = tx[c].phase /\ tx'[c].request = r
    BY <2>3 DEF Inv, Shape
  <2>5. last'[c] # NoRequest => Derived(db, last'[c])
    BY <1>1, <2>3 DEF ClientContents
  <2> QED
    BY <2>1, <2>2, <2>3, <2>4, <2>5, AskContents
<1>7. ASSUME NEW c \in Clients, NEW x \in Artifacts, PutArtifact(c, x) PROVE Contents'
  <2>1. /\ \A d \in Clients : d # c => tx'[d] = tx[d]
        /\ tx'[c].work = tx[c].work
        /\ tx'[c].done = tx[c].done
        /\ tx'[c].request = tx[c].request
        /\ tx'[c].arts = tx[c].arts \cup {x}
        /\ tx'[c].phase = IF tx[c].phase = "idle" THEN "open" ELSE tx[c].phase
    BY <1>7 DEF PutArtifact, Inv, Shape
  <2>2. UNCHANGED <<db, artifacts, acked, last>>
    BY <1>7 DEF PutArtifact
  <2>3. /\ last'[c] # NoRequest => Derived(db, last'[c])
        /\ tx'[c].request # NoRequest => /\ Derived(Visible(c), tx'[c].request)
                                         /\ Cardinality(tx[c].done) < MaxWrites
    BY <1>1, <2>1, <2>2 DEF ClientContents
  <2>4. tx'[c].phase = "locked" <=> tx[c].phase = "locked"
    BY <2>1
  <2> QED
    BY <2>1, <2>2, <2>3, <2>4, AskContents
<1>8. ASSUME NEW c \in Clients, Append1(c) PROVE Contents'
  <2> DEFINE r == tx[c].request
             v == Visible(c)
             n == Cardinality(tx[c].done)
  <2>1. SoundDB(v) /\ Extends(v.log, db.log)
    BY VisibleSound, SMTT(30) DEF Inv
  <2>2. r \in Requests /\ r # NoRequest
    BY <1>8 DEF Append1, Inv, TypeOK
  <2>3. ~Recorded(v, r.operation_key) /\ UpToDate(v, r) /\ CitesKnown(c, r)
    BY <1>8 DEF Append1, Outcome
  <2>4. /\ Complete(v) /\ CitesIn(v, artifacts \cup tx[c].arts)
        /\ \A q \in tx[c].done : Answered(v, q)
        /\ Continues(v, db, n)
        /\ Derived(v, r)
        /\ IsFiniteSet(tx[c].done)
    BY <1>1, <2>2 DEF ClientContents
  <2>5. n \in Nat
    BY <2>4, FS_CardinalityType
  <2>6. r \notin tx[c].done
    BY <2>3, <2>4 DEF Answered, Recorded
  <2>7. Cardinality(tx[c].done \cup {r}) = n + 1
    BY <2>4, <2>6, FS_AddElement
  <2> HIDE DEF r, v, n
  <2>8. /\ Complete(Applied(v, r))
        /\ Continues(Applied(v, r), db, n + 1)
        /\ Answered(Applied(v, r), r)
        /\ \A q : Answered(v, q) => Answered(Applied(v, r), q)
        /\ CitesIn(v, artifacts \cup tx[c].arts) /\ Cites[r.operation_key] \subseteq artifacts \cup tx[c].arts
              => CitesIn(Applied(v, r), artifacts \cup tx[c].arts)
    BY <1>3, <2>1, <2>2, <2>3, <2>4, <2>5, AppliedComplete
  <2>9. CitesIn(Applied(v, r), artifacts \cup tx[c].arts)
    BY <2>3, <2>4, <2>8 DEF CitesKnown
  <2>10. \A q \in tx[c].done \cup {r} : Answered(Applied(v, r), q)
    BY <2>4, <2>8
  <2>11. /\ tx' = [tx EXCEPT ![c].phase = "locked", ![c].request = NoRequest,
                             ![c].work = Applied(v, r), ![c].done = @ \cup {tx[c].request}]
         /\ UNCHANGED <<db, artifacts, last, acked>>
    BY <1>8 DEF Append1, v, r
  <2>12. PICK w : w = Applied(v, r)
    OBVIOUS
  <2> QED
    BY <2>2, <2>7, <2>8, <2>9, <2>10, <2>11, <2>12, TakeLockContents DEF r
<1>9. ASSUME NEW c \in Clients, Replay(c) PROVE Contents'
  <2> DEFINE r == tx[c].request
             v == Visible(c)
             n == Cardinality(tx[c].done)
  <2>1. /\ Complete(v) /\ CitesIn(v, artifacts \cup tx[c].arts)
        /\ \A q \in tx[c].done : Answered(v, q)
        /\ Continues(v, db, n)
        /\ IsFiniteSet(tx[c].done)
    BY <1>1 DEF ClientContents
  <2>2. Answered(v, r)
    <3>1. Recorded(v, r.operation_key) /\ SameRequest(v, r)
      BY <1>9 DEF Replay, Outcome
    <3>2. /\ EventOf(v, r.operation_key) \in DOMAIN v.log
          /\ v.log[EventOf(v, r.operation_key)].operation_key = r.operation_key
      BY <3>1 DEF Recorded, EventOf
    <3> QED
      BY <3>1, <3>2 DEF SameRequest, Answered
  <2>3. Continues(v, db, Cardinality(tx[c].done \cup {r}))
    <3>1. n \in Nat /\ Cardinality(tx[c].done \cup {r}) \in {n, n + 1}
      BY <2>1, FS_AddElement, FS_CardinalityType
    <3>2. Len(v.log) \in Nat /\ Len(db.log) \in Nat
      BY <1>3, VisibleSound, LogDomain DEF Inv, SoundDB
    <3>3. Len(v.log) - Len(db.log) <= Cardinality(tx[c].done \cup {r})
      <4>1. Len(v.log) - Len(db.log) <= n
        BY <2>1 DEF Continues
      <4>2. \A a, b, x, y \in Nat : a - b <= x /\ y \in {x, x + 1} => a - b <= y
        OBVIOUS
      <4>3. Cardinality(tx[c].done \cup {r}) \in Nat
        BY <3>1
      <4> HIDE DEF n, v, r
      <4> QED
        BY ONLY <3>1, <3>2, <4>1, <4>2, <4>3
    <3> QED
      BY <2>1, <3>3 DEF Continues
  <2>4. /\ r # NoRequest
        /\ tx' = [tx EXCEPT ![c].phase = "locked", ![c].request = NoRequest,
                            ![c].work = v, ![c].done = @ \cup {tx[c].request}]
        /\ UNCHANGED <<db, artifacts, last, acked>>
    BY <1>9 DEF Replay
  <2> HIDE DEF v
  <2> QED
    BY <2>1, <2>2, <2>3, <2>4, TakeLockContents
<1>10. ASSUME NEW c \in Clients, Refuse(c) \/ Timeout(c) \/ Crash(c) PROVE Contents'
  <2>1. /\ tx' = [tx EXCEPT ![c] = NoTx]
        /\ UNCHANGED <<db, artifacts, last, acked>>
    BY <1>10 DEF Refuse, Timeout, Crash, Rollback
  <2>2. Continues(db', db, 0)
    BY <1>3, <2>1, ContinuesSelf
  <2>3. /\ Complete(db') /\ CitesIn(db', artifacts') /\ artifacts \subseteq artifacts'
        /\ \A r \in acked' : Answered(db', r)
    BY <2>1 DEF Contents
  <2> QED
    BY <2>1, <2>2, <2>3, EndContents
<1>11. ASSUME NEW c \in Clients, NEW delivered \in BOOLEAN, Commit(c, delivered) PROVE Contents'
  <2>1. /\ db' = Visible(c)
        /\ artifacts' = artifacts \cup tx[c].arts
        /\ tx' = [tx EXCEPT ![c] = NoTx]
        /\ acked' \subseteq acked \cup tx[c].done
        /\ last' = last
    BY <1>11 DEF Commit
  <2>2. /\ Complete(db') /\ CitesIn(db', artifacts')
        /\ Continues(db', db, Cardinality(tx[c].done))
        /\ \A r \in tx[c].done : Answered(db', r)
    BY <1>1, <2>1 DEF ClientContents
  <2>3. \A r \in acked : Answered(db', r)
    <3>1. IsLog(db.log) /\ IsLog(db'.log) /\ Extends(db'.log, db.log)
      BY <1>3, <2>1, VisibleSound DEF Inv, SoundDB
    <3> QED
      BY <3>1, AnsweredLater DEF Contents
  <2>4. \A d \in Clients : d # c /\ Locked(d) => db' = db
    BY <2>1 DEF Visible, Inv, TablesSound
  <2> QED
    BY <2>1, <2>2, <2>3, <2>4, EndContents
<1>12. ASSUME UNCHANGED <<db, artifacts, tx, last, acked>> PROVE Contents'
  <2>1. \A c \in Clients : Visible(c)' = Visible(c) /\ (Locked(c)' <=> Locked(c))
    BY <1>12 DEF Visible, Locked
  <2>2. \A c \in Clients : ClientContents(c)'
    BY <1>1, <1>12, <2>1 DEF ClientContents
  <2> QED
    BY <1>12, <2>2 DEF Contents
<1>13. ASSUME NEW u \in Auditors, AuditStep(u) PROVE Contents'
  BY <1>12, <1>13 DEF AuditStep, AuditLog, AuditProjection
<1>14. ASSUME UNCHANGED vars PROVE Contents'
  BY <1>12, <1>14 DEF vars
<1> QED
  BY <1>4, <1>5, <1>6, <1>7, <1>8, <1>9, <1>10, <1>11, <1>13, <1>14
  DEF Next, ClientStep

\* What the tables contain is right in every reachable state.
THEOREM ContentsInvariance == Spec => []Contents
BY ContentsInit, ContentsNext, Invariance, PTL DEF Spec

\* The version check under the lock loses no update: a projected row holds
\* every operation of its aggregate, whatever its writers had read.
THEOREM NoUpdateIsLost == Spec => []NoLostUpdate
<1>1. Contents => NoLostUpdate
  BY DEF Contents, Complete, NoLostUpdate
<1> QED
  BY <1>1, ContentsInvariance, PTL

\* What Store.transition answered, from its own append or from a replay, is in
\* the log for good.
THEOREM AcknowledgedIsDurable == Spec => []AckedDurable
<1>1. Contents => AckedDurable
  BY DEF Contents, Answered, AckedDurable
<1> QED
  BY <1>1, ContentsInvariance, PTL

\* A transaction's event, outbox row and artifacts are committed together or
\* not at all.
THEOREM OneTransaction == Spec => []CommittedTogether
<1>1. Contents => CommittedTogether
  BY DEF Contents, Complete, CitesIn, CommittedTogether
<1> QED
  BY <1>1, ContentsInvariance, PTL

-------------------------------------------------------------------------------
(* Refinement of AggregateHistory.                                         *)

Op == [key: Keys, aggregate: Aggregates]

\* The history of a log.
OpsOf(log) == [i \in DOMAIN log |-> [key |-> log[i].operation_key,
                                     aggregate |-> log[i].aggregate]]

\* The history of the tables d is a sequence of operations.
LEMMA OpsSeq ==
    ASSUME NEW d, SoundDB(d), Complete(d)
    PROVE  /\ OpsOf(d.log) \in Seq(Op)
           /\ Len(OpsOf(d.log)) = Len(d.log)
           /\ \A i \in 1..Len(d.log) :
                 OpsOf(d.log)[i] = [key |-> d.log[i].operation_key,
                                    aggregate |-> d.log[i].aggregate]
<1>1. Len(d.log) \in Nat /\ DOMAIN d.log = 1..Len(d.log)
  BY LogDomain DEF SoundDB
<1> DEFINE n == Len(d.log)
           h == OpsOf(d.log)
<1>2. h \in [1..n -> Op]
  BY <1>1 DEF OpsOf, Op, Complete
<1>3. \A i \in 1..n : h[i] = [key |-> d.log[i].operation_key, aggregate |-> d.log[i].aggregate]
  BY <1>1 DEF OpsOf
<1>4. n \in Nat
  BY <1>1
<1> HIDE DEF n, h
<1>5. h \in Seq(Op) /\ Len(h) = n
  BY <1>2, <1>4
<1> QED
  BY <1>3, <1>5 DEF n, h

\* Tables w are d after the operations ops took effect in this order.
Performed(w, d, ops) ==
    /\ \A i, j \in DOMAIN ops : ops[i].key = ops[j].key => i = j
    /\ \A i \in DOMAIN ops :
          ops[i].key \notin {OpsOf(d.log)[j].key : j \in DOMAIN OpsOf(d.log)}
    /\ OpsOf(w.log) = OpsOf(d.log) \o ops
    /\ w.aggregates = [a \in Aggregates |->
          [version |-> d.aggregates[a].version
                         + Cardinality({i \in DOMAIN ops : ops[i].aggregate = a}),
           state   |-> d.aggregates[a].state
                         \cup {ops[i].key : i \in {j \in DOMAIN ops : ops[j].aggregate = a}}]]

\* Committing tables that hold more events performs the operations of those
\* events, in the order they were appended.
LEMMA CommitPerforms ==
    ASSUME NEW w, NEW d, SoundDB(w), SoundDB(d), Complete(w), Complete(d),
           Extends(w.log, d.log), NEW n \in Nat, Continues(w, d, n), n <= MaxWrites,
           Len(w.log) # Len(d.log)
    PROVE  \E x \in 1..MaxWrites : \E ops \in [1..x -> Op] : Performed(w, d, ops)
<1> DEFINE l == Len(d.log)
           m == Len(w.log)
           x == m - l
           ops == [i \in 1..x |-> [key |-> w.log[l + i].operation_key,
                                   aggregate |-> w.log[l + i].aggregate]]
<1>1. /\ l \in Nat /\ m \in Nat /\ l <= m
      /\ DOMAIN d.log = 1..l /\ DOMAIN w.log = 1..m
      /\ \A i \in 1..l : w.log[i] = d.log[i]
  BY LogDomain DEF SoundDB, Extends
<1>2. x \in Nat /\ l + x = m /\ x <= n /\ x # 0 /\ l # m
  BY <1>1 DEF Continues
<1>3. /\ \A i, j \in 1..m : w.log[i].operation_key = w.log[j].operation_key => i = j
      /\ \A i \in 1..m : w.log[i].operation_key \in Keys /\ w.log[i].aggregate \in Aggregates
  BY <1>1 DEF SoundDB, KeysUnique, Complete
<1>4. \A a : New(w, d, a) = {i \in 1..x : w.log[l + i].aggregate = a}
  BY DEF New
<1>5. /\ OpsOf(w.log) \in Seq(Op) /\ OpsOf(d.log) \in Seq(Op)
      /\ Len(OpsOf(w.log)) = m /\ Len(OpsOf(d.log)) = l
      /\ \A i \in 1..m : OpsOf(w.log)[i] = [key |-> w.log[i].operation_key,
                                            aggregate |-> w.log[i].aggregate]
      /\ \A i \in 1..l : OpsOf(d.log)[i] = [key |-> d.log[i].operation_key,
                                            aggregate |-> d.log[i].aggregate]
  BY OpsSeq
<1>6. \A a \in Aggregates :
         /\ w.aggregates[a].version = d.aggregates[a].version + Cardinality(New(w, d, a))
         /\ w.aggregates[a].state = KeysOf(w.log, a)
         /\ d.aggregates[a].state = KeysOf(d.log, a)
  BY DEF Continues, Complete
<1> HIDE DEF l, m, x
<1>7. x \in 1..MaxWrites
  <2>1. MaxWrites \in Nat
    BY StoreConstants DEF StoreConstants
  <2> QED
    BY <1>2, <2>1
<1>8. \A i \in 1..x : l + i \in 1..m /\ l + i \notin 1..l
  BY <1>1, <1>2
<1>9. ops \in [1..x -> Op] /\ DOMAIN ops = 1..x
  BY <1>3, <1>8 DEF Op
<1>10. \A i \in 1..x : /\ ops[i].key = w.log[l + i].operation_key
                       /\ ops[i].aggregate = w.log[l + i].aggregate
                       /\ ops[i] = [key |-> ops[i].key, aggregate |-> ops[i].aggregate]
  OBVIOUS
<1> HIDE DEF ops
<1>11. \A i, j \in 1..x : ops[i].key = ops[j].key => i = j
  <2> SUFFICES ASSUME NEW i \in 1..x, NEW j \in 1..x, ops[i].key = ops[j].key PROVE i = j
    OBVIOUS
  <2>1. l + i = l + j
    <3>1. w.log[l + i].operation_key = w.log[l + j].operation_key
      BY <1>10
    <3>2. PICK p \in 1..m, q \in 1..m : p = l + i /\ q = l + j
      BY <1>8
    <3> QED
      BY <1>3, <3>1, <3>2
  <2> QED
    BY <1>1, <1>2, <2>1
<1>12. \A i \in 1..x : \A j \in 1..l : ops[i].key # OpsOf(d.log)[j].key
  <2> SUFFICES ASSUME NEW i \in 1..x, NEW j \in 1..l, ops[i].key = OpsOf(d.log)[j].key
               PROVE  FALSE
    OBVIOUS
  <2>1. j \in 1..m /\ w.log[j].operation_key = w.log[l + i].operation_key
    <3>1. j \in 1..m
      BY <1>1
    <3>2. OpsOf(d.log)[j].key = w.log[j].operation_key
      <4>1. OpsOf(d.log)[j] = [key |-> d.log[j].operation_key, aggregate |-> d.log[j].aggregate]
        BY <1>5
      <4>2. w.log[j] = d.log[j]
        BY <1>1
      <4> QED
        BY ONLY <4>1, <4>2
    <3>3. ops[i].key = w.log[l + i].operation_key
      BY <1>10
    <3> QED
      BY <3>1, <3>2, <3>3
  <2> QED
    BY <1>3, <1>8, <2>1
<1>13. OpsOf(w.log) = OpsOf(d.log) \o ops
  <2>1. ops \in Seq(Op) /\ Len(ops) = x
    BY <1>2, <1>9
  <2>2. PICK h \in Seq(Op) : h = OpsOf(d.log)
    BY <1>5
  <2>3. PICK g \in Seq(Op) : g = OpsOf(w.log)
    BY <1>5
  <2>4. /\ h \o ops \in Seq(Op)
        /\ Len(h \o ops) = l + x
        /\ \A i \in 1..(l + x) : (h \o ops)[i] = IF i <= l THEN h[i] ELSE ops[i - l]
    <3>1. /\ h \o ops \in Seq(Op)
          /\ Len(h \o ops) = Len(h) + Len(ops)
          /\ \A i \in 1..(Len(h) + Len(ops)) :
                (h \o ops)[i] = IF i <= Len(h) THEN h[i] ELSE ops[i - Len(h)]
      BY <2>1, ConcatProperties
    <3>2. Len(h) = l /\ Len(ops) = x
      BY <1>5, <2>1, <2>2
    <3> QED
      BY ONLY <3>1, <3>2
  <2>5. Len(g) = m /\ Len(h \o ops) = m
    BY <1>2, <1>5, <2>3, <2>4
  <2>6. ASSUME NEW i \in 1..m PROVE g[i] = (h \o ops)[i]
    <3>1. (h \o ops)[i] = IF i <= l THEN h[i] ELSE ops[i - l]
      BY <1>2, <2>4
    <3>2. CASE i <= l
      <4>1. i \in 1..l
        BY <1>1, <3>2
      <4> QED
        BY <1>1, <1>5, <2>2, <2>3, <3>1, <3>2, <4>1
    <3>3. CASE ~(i <= l)
      <4>1. i - l \in 1..x /\ l + (i - l) = i
        BY <1>1, <1>2, <3>3
      <4> QED
        <5>1. g[i] = [key |-> w.log[i].operation_key, aggregate |-> w.log[i].aggregate]
          BY <1>5, <2>3
        <5>2. PICK j \in 1..x : j = i - l
          BY <4>1
        <5>3. /\ ops[j].key = w.log[l + j].operation_key
              /\ ops[j].aggregate = w.log[l + j].aggregate
              /\ ops[j] = [key |-> ops[j].key, aggregate |-> ops[j].aggregate]
          BY <1>10
        <5>4. l + j = i
          BY <4>1, <5>2
        <5>5. (h \o ops)[i] = ops[j]
          BY <3>1, <3>3, <5>2
        <5> QED
          BY ONLY <5>1, <5>3, <5>4, <5>5
    <3> QED
      BY <3>2, <3>3
  <2>7. g = h \o ops
    BY <2>4, <2>5, <2>6, SeqEqual
  <2> QED
    BY <2>2, <2>3, <2>7
<1>14. ASSUME NEW a \in Aggregates
       PROVE  w.aggregates[a] = [version |-> d.aggregates[a].version
                                   + Cardinality({i \in 1..x : ops[i].aggregate = a}),
                     state   |-> d.aggregates[a].state
                                   \cup {ops[i].key : i \in {j \in 1..x : ops[j].aggregate = a}}]
  <2>1. {i \in 1..x : ops[i].aggregate = a} = New(w, d, a)
    <3>1. \A i \in 1..x : ops[i].aggregate = w.log[l + i].aggregate
      BY <1>10
    <3>2. New(w, d, a) = {i \in 1..x : w.log[l + i].aggregate = a}
      BY <1>4
    <3> QED
      BY ONLY <3>1, <3>2
  <2>2. KeysOf(w.log, a) = KeysOf(d.log, a)
                             \cup {ops[i].key : i \in {j \in 1..x : ops[j].aggregate = a}}
    <3>1. \A i \in 1..m : i \in 1..l \/ (i - l \in 1..x /\ l + (i - l) = i)
      BY <1>1, <1>2
    <3>2. ASSUME NEW k \in KeysOf(w.log, a)
          PROVE  \/ k \in KeysOf(d.log, a)
                 \/ k \in {ops[i].key : i \in {j \in 1..x : ops[j].aggregate = a}}
      <4>1. PICK i \in 1..m : w.log[i].aggregate = a /\ k = w.log[i].operation_key
        BY <1>1, <3>2 DEF KeysOf
      <4>2. CASE i \in 1..l
        BY <1>1, <4>1, <4>2 DEF KeysOf
      <4>3. CASE i - l \in 1..x /\ l + (i - l) = i
        <5>1. ops[i - l].key = k /\ ops[i - l].aggregate = a
          BY <1>10, <4>1, <4>3
        <5> QED
          BY <4>3, <5>1
      <4> QED
        BY <3>1, <4>2, <4>3
    <3>3. ASSUME NEW k \in KeysOf(d.log, a) PROVE k \in KeysOf(w.log, a)
      <4>1. PICK i \in 1..l : d.log[i].aggregate = a /\ k = d.log[i].operation_key
        BY <1>1, <3>3 DEF KeysOf
      <4>2. i \in 1..m
        BY <1>1
      <4> QED
        BY <1>1, <4>1, <4>2 DEF KeysOf
    <3>4. ASSUME NEW i \in 1..x, ops[i].aggregate = a PROVE ops[i].key \in KeysOf(w.log, a)
      BY <1>1, <1>8, <1>10, <3>4 DEF KeysOf
    <3> QED
      BY <3>2, <3>3, <3>4
  <2>3. w.aggregates[a] \in Rows
    BY DEF SoundDB
  <2>4. w.aggregates[a] = [version |-> w.aggregates[a].version, state |-> w.aggregates[a].state]
    BY <2>3 DEF Rows
  <2> QED
    BY <1>6, <2>1, <2>2, <2>4
<1>15. w.aggregates = [a \in Aggregates |-> w.aggregates[a]]
  BY DEF SoundDB
<1>16. w.aggregates = [a \in Aggregates |->
                    [version |-> d.aggregates[a].version
                                   + Cardinality({i \in DOMAIN ops : ops[i].aggregate = a}),
                     state   |-> d.aggregates[a].state
                                   \cup {ops[i].key : i \in {j \in DOMAIN ops : ops[j].aggregate = a}}]]
  BY <1>9, <1>14, <1>15
<1>17. DOMAIN OpsOf(d.log) = 1..l
  BY <1>5
<1>18. \A i \in DOMAIN ops :
          ops[i].key \notin {OpsOf(d.log)[j].key : j \in DOMAIN OpsOf(d.log)}
  BY <1>9, <1>12, <1>17
<1>19. \A i, j \in DOMAIN ops : ops[i].key = ops[j].key => i = j
  BY <1>9, <1>11
<1>20. ops \in [1..x -> Op]
  BY <1>9
<1>21. Performed(w, d, ops)
  BY <1>13, <1>16, <1>18, <1>19 DEF Performed
<1> QED
  BY <1>7, <1>20, <1>21

\* Committing tables with no new event changes nothing a caller can read.
LEMMA SameTables ==
    ASSUME NEW w, NEW d, SoundDB(w), SoundDB(d), Extends(w.log, d.log),
           NEW n, Continues(w, d, n), Len(w.log) = Len(d.log)
    PROVE  OpsOf(w.log) = OpsOf(d.log) /\ w.aggregates = d.aggregates
<1>1. /\ Len(d.log) \in Nat
      /\ DOMAIN d.log = 1..Len(d.log) /\ DOMAIN w.log = 1..Len(d.log)
      /\ \A i \in 1..Len(d.log) : w.log[i] = d.log[i]
  BY LogDomain DEF SoundDB, Extends
<1>2. OpsOf(w.log) = OpsOf(d.log)
  BY <1>1 DEF OpsOf
<1>3. ASSUME NEW a \in Aggregates PROVE w.aggregates[a] = d.aggregates[a]
  <2>1. New(w, d, a) = {}
    BY <1>1 DEF New
  <2>2. Cardinality(New(w, d, a)) = 0
    BY <2>1, FS_EmptySet
  <2>3. d.aggregates[a].version \in Nat
    BY DEF SoundDB, Rows
  <2> QED
    BY <2>2, <2>3 DEF Continues
<1>4. w.aggregates = d.aggregates
  BY <1>3 DEF SoundDB
<1> QED
  BY <1>2, <1>4

\* Store.transition and Store.transaction implement AggregateHistory: with
\* locks, retries, replays, crashes and rollbacks, what callers see is one
\* history of operations, each on the latest state, one transaction at a time.
THEOREM Refinement == Spec => ImplementsHistory
<1>1. Init => History!Init
  <2> SUFFICES ASSUME Init PROVE History!Init
    OBVIOUS
  <2>1. db.log = <<>> /\ db.aggregates = [a \in Aggregates |-> [version |-> 0, state |-> {}]]
    BY DEF Init, EmptyDB
  <2>2. OpsOf(<<>>) = <<>>
    BY DEF OpsOf
  <2> QED
    BY <2>1, <2>2 DEF History!Init, OpsOf
<1>2. Inv /\ Inv' /\ Contents /\ Contents' /\ [Next]_vars => [History!Next]_(History!vars)
  <2> SUFFICES ASSUME Inv, Inv', Contents, Contents', [Next]_vars
               PROVE  [History!Next]_(History!vars)
    OBVIOUS
  <2>1. CASE OpsOf(db'.log) = OpsOf(db.log) /\ db'.aggregates = db.aggregates
    BY <2>1 DEF History!vars, OpsOf
  <2>2. CASE db' = db
    <3>1. OpsOf(db'.log) = OpsOf(db.log) /\ db'.aggregates = db.aggregates
      BY <2>2
    <3> QED
      BY <2>1, <3>1
  <2>3. ASSUME NEW c \in Clients, NEW delivered \in BOOLEAN, Commit(c, delivered)
        PROVE  [History!Next]_(History!vars)
    <3> DEFINE n == Cardinality(tx[c].done)
    <3>1. db' = Visible(c)
      BY <2>3 DEF Commit
    <3>2. /\ SoundDB(db') /\ SoundDB(db) /\ Complete(db') /\ Complete(db)
          /\ Extends(db'.log, db.log)
      BY <3>1, VisibleSound DEF Inv, TablesSound, Contents
    <3>3. ClientContents(c)
      BY DEF Contents
    <3>4. Continues(db', db, n) /\ n \in Nat /\ n <= MaxWrites
      BY <3>1, <3>3, FS_CardinalityType DEF ClientContents
    <3> HIDE DEF n
    <3>5. CASE Len(db'.log) = Len(db.log)
      <4>1. OpsOf(db'.log) = OpsOf(db.log) /\ db'.aggregates = db.aggregates
        BY <3>2, <3>4, <3>5, SameTables
      <4> QED
        BY <2>1, <4>1
    <3>6. CASE Len(db'.log) # Len(db.log)
      <4>1. PICK x \in 1..MaxWrites : \E ops \in [1..x -> Op] : Performed(db', db, ops)
        BY <3>2, <3>4, <3>6, CommitPerforms
      <4>2. PICK ops \in [1..x -> Op] : Performed(db', db, ops)
        BY <4>1
      <4>3. ops \in [1..x -> History!Operations]
        BY SMTT(30) DEF Op, History!Operations
      <4>4. History!Perform(ops)
        <5>1. \A S : History!Cardinality(S) = Cardinality(S)
          BY DEF Cardinality, History!Cardinality
        <5> QED
          BY <4>2, <5>1 DEF Performed, History!Perform, History!Used, OpsOf
      <4> QED
        BY <4>3, <4>4 DEF History!Next
    <3> QED
      BY <3>5, <3>6
  <2>4. CASE UNCHANGED vars
    BY <2>2, <2>4 DEF vars
  <2>5. CASE \E u \in Auditors : AuditStep(u)
    BY <2>2, <2>5 DEF AuditStep, AuditLog, AuditProjection
  <2>6. CASE \E c \in Clients : ClientStep(c)
    BY <2>2, <2>3, <2>6, ZenonT(60) DEF ClientStep, Begin, Retry, ReadAgain, PutArtifact, Append1, Replay,
                            Refuse, Timeout, Crash, Rollback
  <2> QED
    BY <2>4, <2>5, <2>6 DEF Next
<1> QED
  BY <1>1, <1>2, Invariance, ContentsInvariance, PTL DEF Spec, ImplementsHistory, History!Spec

===============================================================================
