----------------------------- MODULE OutboxProofs -----------------------------
(***************************************************************************)
(* Proofs about Outbox: for any number of senders, keys and attempts, a    *)
(* notification reaches Telegram at most once, receipts are truthful and   *)
(* what was decided about a row stays.                                     *)
(*                                                                         *)
(* SentAtMostOnce is not inductive: it does not say why a row that is      *)
(* PENDING again was never delivered, nor why two senders never hold a     *)
(* message to send at the same time.  The invariant adds both: tokens are  *)
(* unique per key and never ahead of the row, a sender that has still to   *)
(* send owns the newest claim of its row, and what a sender was answered   *)
(* under the newest claim is what the provider did.                        *)
(***************************************************************************)
EXTENDS Outbox, TLAPS

Busy(s) == sender[s].phase # "idle"

\* A busy sender works on a queued row under a token that was given out, and
\* no two hold the same token.
TokensFenced ==
    /\ \A s \in Senders :
          Busy(s) => /\ sender[s].key \in Keys
                     /\ Queued(sender[s].key)
                     /\ sender[s].token <= row[sender[s].key].attempts
    /\ \A s, r \in Senders :
          /\ Busy(s) /\ Busy(r)
          /\ sender[s].key = sender[r].key
          /\ sender[s].token = sender[r].token
          => s = r

\* A sender that has yet to call the provider holds the newest claim, of a
\* row that nobody released for another try, and nothing was sent for it.
ClaimedUnsent ==
    \A s \in Senders :
        sender[s].phase = "claimed" =>
            /\ CurrentToken(s)
            /\ row[sender[s].key].status \in {"LEASED", "QUARANTINED"}
            /\ provider[sender[s].key] = 0

\* The answer under the newest claim tells what the provider has.
AnswerTrue ==
    \A s \in Senders :
        sender[s].phase = "sent" /\ CurrentToken(s) =>
            /\ sender[s].outcome = "receipt" => provider[sender[s].key] = 1
            /\ sender[s].outcome = "TRANSIENT" => provider[sender[s].key] = 0

\* What waits to be sent was not sent, and what was not queued was not either.
PendingUnsent ==
    \A k \in Keys : ~Queued(k) \/ row[k].status = "PENDING" => provider[k] = 0

\* A queued row has its notification record.
RowsRecorded == \A k \in Keys : Queued(k) => records[k] # NoRow

Inv == /\ TypeOK /\ RowsRecorded /\ TokensFenced /\ ClaimedUnsent /\ AnswerTrue
       /\ PendingUnsent /\ SentAtMostOnce /\ ReceiptsTruthful

-------------------------------------------------------------------------------
(* The lemmas, one per group of actions.                                   *)

\* Before the first notification nothing is queued and nothing was sent.
LEMMA InvInit == Init => Inv
<1> SUFFICES ASSUME Init PROVE Inv
  OBVIOUS
<1>1. TypeOK
  BY DEF Init, TypeOK, Idle
<1>2. RowsRecorded /\ TokensFenced /\ ClaimedUnsent /\ AnswerTrue
  BY DEF Init, Idle, Queued, Busy, RowsRecorded, TokensFenced, ClaimedUnsent, AnswerTrue
<1>3. PendingUnsent /\ SentAtMostOnce /\ ReceiptsTruthful
  BY DEF Init, Queued, PendingUnsent, SentAtMostOnce, ReceiptsTruthful
<1> QED
  BY <1>1, <1>2, <1>3 DEF Inv

\* What the row operations make of a row is a row.
LEMMA RowFacts ==
    /\ Fresh \in Row /\ Fresh.status = "PENDING"
    /\ \A leased : \A r \in Row :
          leased = [r EXCEPT !.status = "LEASED", !.attempts = @ + 1,
                             !.expired = FALSE, !.result = NoResult]
          => leased \in Row /\ leased.status = "LEASED" /\ leased.attempts = r.attempts + 1
    /\ \A lost : \A r \in Row :
          lost = [r EXCEPT !.status = "QUARANTINED", !.result = NoResult]
          => lost \in Row /\ lost.status = "QUARANTINED" /\ lost.attempts = r.attempts
<1>1. Fresh \in Row /\ Fresh.status = "PENDING"
  BY DEF Fresh, Row
<1>2. ASSUME NEW r \in Row,
             NEW leased, leased = [r EXCEPT !.status = "LEASED", !.attempts = @ + 1,
                                            !.expired = FALSE, !.result = NoResult]
      PROVE  leased \in Row /\ leased.status = "LEASED" /\ leased.attempts = r.attempts + 1
  <2>1. r.attempts + 1 \in Nat
    BY DEF Row
  <2>2. leased \in Row
    BY <1>2, <2>1 DEF Row
  <2>3. leased.status = "LEASED" /\ leased.attempts = r.attempts + 1
    BY <1>2 DEF Row
  <2> QED
    BY <2>2, <2>3
<1>3. ASSUME NEW r \in Row,
             NEW lost, lost = [r EXCEPT !.status = "QUARANTINED", !.result = NoResult]
      PROVE  lost \in Row /\ lost.status = "QUARANTINED" /\ lost.attempts = r.attempts
  BY <1>3 DEF Row
<1> QED
  BY <1>1, <1>2, <1>3

\* Queueing a row under a new key (Outbox.notify, TelegramService.receive):
\* nobody works on it yet.
LEMMA QueueInv ==
    ASSUME Inv, NEW k \in Keys, NEW content \in Contents,
           records[k] = NoRow,
           Queue(k, content),
           inbox' \in [Updates -> Contents \cup {NoRow}],
           UNCHANGED <<receipts, sender, provider>>
    PROVE  Inv'
<1> USE DEF Queue
<1>1. Fresh \in Row /\ Fresh # NoRow
  BY RowFacts, OutboxConstants DEF OutboxConstants
<1>2. row'[k] = Fresh /\ \A j \in Keys : j # k => row'[j] = row[j]
  BY DEF Inv, TypeOK
<1>3. TypeOK'
  BY <1>1 DEF Inv, TypeOK
<1>4. \A s \in Senders : Busy(s) => sender[s].key # k
  BY DEF Inv, RowsRecorded, TokensFenced
<1>5. TokensFenced'
  BY <1>2, <1>4 DEF Inv, TokensFenced, Busy, Queued
<1>6. ClaimedUnsent' /\ AnswerTrue'
  BY <1>2, <1>4 DEF Inv, TokensFenced, ClaimedUnsent, AnswerTrue, CurrentToken, Busy
<1>7. PendingUnsent' /\ SentAtMostOnce'
  BY <1>2 DEF Inv, RowsRecorded, PendingUnsent, SentAtMostOnce, Queued
<1>8. ReceiptsTruthful'
  BY <1>1, <1>2, RowFacts, ZenonT(40) DEF Inv, ReceiptsTruthful, RowsRecorded, Queued
<1>9. RowsRecorded'
  BY <1>2, OutboxConstants DEF OutboxConstants, Inv, TypeOK, RowsRecorded, Queued
<1> QED
  BY <1>3, <1>5, <1>6, <1>7, <1>8, <1>9 DEF Inv
\* A claim of row k in state PENDING (Outbox.claim): the token is newer than
\* any other sender's, and the row was not sent.  Lost leases are quarantined
\* with it.
LEMMA ClaimInv ==
    ASSUME Inv, NEW s \in Senders, NEW k \in Keys, NEW seen \in SUBSET Keys,
           claim(s, k, seen)
    PROVE  Inv'
<1> USE DEF claim
<1>1. /\ Queued(k) /\ row[k] \in Row
      /\ row[k].status = "PENDING"
      /\ k \notin seen
  BY DEF Available, SeenLost, Lost, Queued, Inv, TypeOK
<1>2. \A j \in seen : Queued(j) /\ row[j] \in Row /\ row[j].status = "LEASED"
  BY DEF SeenLost, Lost, Queued, Inv, TypeOK
<1>3. /\ Lease(k) \in Row
      /\ Lease(k).status = "LEASED"
      /\ Lease(k).attempts = row[k].attempts + 1
  BY <1>1, RowFacts DEF Lease
<1>4. /\ row'[k] = Lease(k)
      /\ \A j \in Keys : j # k /\ j \notin seen => row'[j] = row[j]
      /\ DOMAIN row' = Keys
  BY <1>1 DEF Expire
<1>5. ASSUME NEW j \in seen
      PROVE  /\ row'[j] \in Row
             /\ row'[j].status = "QUARANTINED"
             /\ row'[j].attempts = row[j].attempts
  <2>1. row'[j] = [row[j] EXCEPT !.status = "QUARANTINED", !.result = NoResult]
    BY <1>1 DEF Expire
  <2>2. row[j] \in Row
    BY <1>2
  <2> QED
    BY ONLY <2>1, <2>2, RowFacts, ZenonT(40)
<1>6. row' \in [Keys -> Row \cup {NoRow}]
  <2>1. \A j \in Keys : row'[j] \in Row \cup {NoRow}
    BY <1>3, <1>4, <1>5 DEF Inv, TypeOK
  <2>2. row' = [j \in Keys |-> row'[j]]
    BY <1>4 DEF Expire
  <2> QED
    BY <2>1, <2>2
<1>7. TypeOK'
  BY <1>1, <1>6 DEF Inv, TypeOK, Row
<1>8. /\ sender'[s] = [phase |-> "claimed", key |-> k, token |-> row[k].attempts + 1,
                       outcome |-> NoResult]
      /\ \A r \in Senders : r # s => sender'[r] = sender[r]
  BY DEF Inv, TypeOK
<1>9. NoRow \notin Row
  BY OutboxConstants DEF OutboxConstants
<1>10. \A j \in Keys : row'[j] # NoRow <=> row[j] # NoRow
  BY <1>1, <1>2, <1>3, <1>4, <1>5, <1>9 DEF Queued
<1>11. \A j \in Keys : Queued(j) /\ j # k => row'[j].attempts = row[j].attempts
  BY <1>4, <1>5
<1>12. row'[k].attempts = row[k].attempts + 1 /\ row[k].attempts \in Nat
  BY <1>1, <1>3, <1>4 DEF Row
<1>13. \A r \in Senders : Busy(r) /\ sender[r].key = k => sender[r].phase # "claimed"
  BY <1>1 DEF Inv, ClaimedUnsent
<1>14. TokensFenced'
  <2>1. \A r \in Senders : Busy(r)' => /\ sender'[r].key \in Keys
                                       /\ row'[sender'[r].key] # NoRow
                                       /\ sender'[r].token <= row'[sender'[r].key].attempts
    <3> SUFFICES ASSUME NEW r \in Senders, Busy(r)'
                 PROVE  /\ sender'[r].key \in Keys
                        /\ row'[sender'[r].key] # NoRow
                        /\ sender'[r].token <= row'[sender'[r].key].attempts
      OBVIOUS
    <3>1. CASE r = s
      BY <1>1, <1>8, <1>10, <1>12, <3>1 DEF Queued
    <3>2. CASE r # s
      <4>1. /\ sender'[r] = sender[r] /\ sender[r].key \in Keys /\ Queued(sender[r].key)
            /\ sender[r].token <= row[sender[r].key].attempts
            /\ sender[r].token \in Nat
        BY <1>8, <3>2 DEF Inv, TypeOK, TokensFenced, Busy
      <4>2. CASE sender[r].key = k
        BY <1>10, <1>12, <4>1, <4>2 DEF Queued
      <4>3. CASE sender[r].key # k
        BY <1>10, <1>11, <4>1, <4>3 DEF Queued
      <4> QED
        BY <4>2, <4>3
    <3> QED
      BY <3>1, <3>2
  <2>2. \A r \in Senders : Busy(r) /\ sender[r].key = k => sender[r].token # row[k].attempts + 1
    BY <1>12 DEF Inv, TypeOK, TokensFenced
  <2>3. \A r, q \in Senders :
            /\ Busy(r)' /\ Busy(q)'
            /\ sender'[r].key = sender'[q].key
            /\ sender'[r].token = sender'[q].token
            => r = q
    BY <1>8, <2>2 DEF Inv, TokensFenced, Busy
  <2> QED
    BY <2>1, <2>3 DEF TokensFenced, Queued
<1>15. ClaimedUnsent'
  <2> SUFFICES ASSUME NEW r \in Senders, sender'[r].phase = "claimed"
               PROVE  /\ row'[sender'[r].key].attempts = sender'[r].token
                      /\ row'[sender'[r].key].status \in {"LEASED", "QUARANTINED"}
                      /\ provider[sender'[r].key] = 0
    BY DEF ClaimedUnsent, CurrentToken
  <2>1. CASE r = s
    BY <1>1, <1>3, <1>4, <1>8, <2>1 DEF Inv, PendingUnsent
  <2>2. CASE r # s
    <3>1. /\ sender'[r] = sender[r] /\ sender[r].key \in Keys
          /\ Queued(sender[r].key) /\ sender[r].key # k
      BY <1>8, <1>13, <2>2 DEF Inv, TokensFenced, Busy
    <3> QED
      BY <1>4, <1>5, <3>1 DEF Inv, ClaimedUnsent, CurrentToken
  <2> QED
    BY <2>1, <2>2
<1>16. AnswerTrue'
  <2> SUFFICES ASSUME NEW r \in Senders, sender'[r].phase = "sent",
                      row'[sender'[r].key].attempts = sender'[r].token
               PROVE  /\ sender'[r].outcome = "receipt" => provider[sender'[r].key] = 1
                      /\ sender'[r].outcome = "TRANSIENT" => provider[sender'[r].key] = 0
    BY DEF AnswerTrue, CurrentToken
  <2>1. r # s /\ sender'[r] = sender[r]
    BY <1>8
  <2>2. sender[r].key \in Keys /\ Queued(sender[r].key) /\ sender[r].token \in Nat
    BY <2>1 DEF Inv, TypeOK, TokensFenced, Busy
  <2>3. sender[r].key # k
    BY <1>12, <2>1, <2>2 DEF Inv, TokensFenced, Busy
  <2>4. row[sender[r].key].attempts = sender[r].token
    BY <1>11, <2>1, <2>2, <2>3
  <2> QED
    BY <2>1, <2>4 DEF Inv, AnswerTrue, CurrentToken
<1>17. PendingUnsent' /\ SentAtMostOnce'
  BY <1>3, <1>4, <1>5, <1>10 DEF Inv, PendingUnsent, SentAtMostOnce, Queued
<1>18. ReceiptsTruthful'
  BY <1>1, <1>2, <1>3, <1>4, <1>5, <1>10 DEF Inv, ReceiptsTruthful, Queued
<1>19. RowsRecorded'
  BY <1>10 DEF Inv, RowsRecorded, Queued
<1> QED
  BY <1>7, <1>14, <1>15, <1>16, <1>17, <1>18, <1>19 DEF Inv
\* A step that only edits rows, keeps their claims, and at most quarantines a
\* leased row: the sweep of a claim that finds nothing, and time passing.
LEMMA EditInv ==
    ASSUME Inv,
           DOMAIN row' = Keys,
           \A k \in Keys : ~Queued(k) => row'[k] = row[k],
           \A k \in Keys : Queued(k) =>
               /\ row'[k] \in Row
               /\ row'[k].attempts = row[k].attempts
               /\ \/ row'[k].status = row[k].status
                  \/ row[k].status = "LEASED" /\ row'[k].status = "QUARANTINED",
           row' = [k \in Keys |-> row'[k]],
           UNCHANGED <<records, inbox, receipts, sender, provider>>
    PROVE  Inv'
<1>1. \A k \in Keys : row'[k] # NoRow <=> row[k] # NoRow
  BY OutboxConstants DEF OutboxConstants, Queued
<1>2. row' \in [Keys -> Row \cup {NoRow}]
  BY <1>1 DEF Queued
<1>3. TypeOK'
  BY <1>2 DEF Inv, TypeOK
<1>4. RowsRecorded' /\ TokensFenced'
  BY <1>1 DEF Inv, RowsRecorded, TokensFenced, Queued, Busy
<1>5. ClaimedUnsent' /\ AnswerTrue'
  BY DEF Inv, TokensFenced, ClaimedUnsent, AnswerTrue, CurrentToken, Busy
<1>6. PendingUnsent' /\ SentAtMostOnce' /\ ReceiptsTruthful'
  BY <1>1 DEF Inv, PendingUnsent, SentAtMostOnce, ReceiptsTruthful, Queued
<1> QED
  BY <1>3, <1>4, <1>5, <1>6 DEF Inv

\* A claim that only quarantines lost leases (Outbox.claim without a row).
LEMMA ClaimNothingInv ==
    ASSUME Inv, NEW seen \in SUBSET Keys, ClaimNothing(seen)
    PROVE  Inv'
<1> USE DEF ClaimNothing
<1>1. \A k \in seen : Queued(k) /\ row[k] \in Row /\ row[k].status = "LEASED"
  BY DEF SeenLost, Lost, Queued, Inv, TypeOK
<1>2. \A k \in Keys : k \notin seen => row'[k] = row[k]
  BY DEF Expire
<1>3. ASSUME NEW k \in seen
      PROVE  row'[k] \in Row /\ row'[k].status = "QUARANTINED"
             /\ row'[k].attempts = row[k].attempts
  <2>1. row'[k] = [row[k] EXCEPT !.status = "QUARANTINED", !.result = NoResult]
    BY DEF Expire
  <2>2. row[k] \in Row
    BY <1>1
  <2> QED
    BY ONLY <2>1, <2>2, RowFacts
<1>4. DOMAIN row' = Keys /\ row' = [k \in Keys |-> row'[k]]
  BY DEF Expire
<1>5. \A k \in Keys : Queued(k) => row[k] \in Row
  BY DEF Inv, TypeOK, Queued
<1> QED
  BY <1>1, <1>2, <1>3, <1>4, <1>5, EditInv

\* A lease runs out or a retry delay passes: nothing the senders rely on moves.
LEMMA TimeInv ==
    ASSUME Inv, NEW k \in Keys, LeaseExpires(k) \/ CoolsDown(k)
    PROVE  Inv'
<1>1. \A j \in Keys : Queued(j) => row[j] \in Row
  BY DEF Inv, TypeOK, Queued
<1>2. Queued(k)
  BY DEF LeaseExpires, CoolsDown
<1>3. /\ row'[k] \in Row
      /\ row'[k].attempts = row[k].attempts
      /\ row'[k].status = row[k].status
  <2>1. row[k] \in Row
    BY <1>1, <1>2
  <2>2. CASE LeaseExpires(k)
    <3>1. row'[k] = [row[k] EXCEPT !.expired = TRUE]
      BY <2>2 DEF LeaseExpires, Inv, TypeOK
    <3> QED
      BY ONLY <2>1, <3>1 DEF Row
  <2>3. CASE CoolsDown(k)
    <3>1. row'[k] = [row[k] EXCEPT !.cooling = FALSE]
      BY <2>3 DEF CoolsDown, Inv, TypeOK
    <3> QED
      BY ONLY <2>1, <3>1 DEF Row
  <2> QED
    BY <2>2, <2>3
<1>4. \A j \in Keys : j # k => row'[j] = row[j]
  BY DEF LeaseExpires, CoolsDown, Inv, TypeOK
<1>5. DOMAIN row' = Keys /\ row' = [j \in Keys |-> row'[j]]
  BY DEF LeaseExpires, CoolsDown, Inv, TypeOK
<1>6. UNCHANGED <<records, inbox, receipts, sender, provider>>
  BY DEF LeaseExpires, CoolsDown
<1>7. \A j \in Keys : Queued(j) =>
          /\ row'[j] \in Row
          /\ row'[j].attempts = row[j].attempts
          /\ row'[j].status = row[j].status
  BY <1>1, <1>3, <1>4
<1>8. \A j \in Keys : ~Queued(j) => row'[j] = row[j]
  BY <1>2, <1>4
<1> QED
  BY <1>5, <1>6, <1>7, <1>8, EditInv

\* The provider is called (TelegramTransport.send): the caller owns the newest
\* claim of a row that was never sent, and is the only one who does.
LEMMA SendInv ==
    ASSUME Inv, NEW s \in Senders, NEW outcome \in Outcomes, send(s, outcome)
    PROVE  Inv'
<1> DEFINE k == sender[s].key
<1>1. PICK n \in Accepts(outcome) : provider' = [provider EXCEPT ![k] = @ + n]
  BY DEF send
<1>2. /\ n \in {0, 1}
      /\ outcome = "receipt" => n = 1
      /\ outcome = "TRANSIENT" => n = 0
  BY <1>1 DEF Accepts, Outcomes, Failures
<1>3. sender[s].phase = "claimed" /\ UNCHANGED <<records, inbox, row, receipts>>
  BY DEF send
<1>4. /\ k \in Keys /\ Queued(k) /\ CurrentToken(s)
      /\ row[k].status \in {"LEASED", "QUARANTINED"}
      /\ provider[k] = 0
  BY <1>3 DEF Inv, TokensFenced, ClaimedUnsent, Busy
<1>5. /\ provider'[k] = n
      /\ \A j \in Keys : j # k => provider'[j] = provider[j]
      /\ provider' \in [Keys -> Nat]
  BY <1>1, <1>2, <1>4 DEF Inv, TypeOK
<1>6. /\ sender'[s].phase = "sent" /\ sender'[s].outcome = outcome
      /\ sender'[s].key = k /\ sender'[s].token = sender[s].token
      /\ \A r \in Senders : r # s => sender'[r] = sender[r]
  BY DEF send, Inv, TypeOK
<1>7. sender' \in [Senders -> [phase: {"idle", "claimed", "sent"}, key: Keys \cup {NoRow},
                               token: Nat, outcome: Outcomes \cup {NoResult}]]
  <2> DEFINE T == [phase: {"idle", "claimed", "sent"}, key: Keys \cup {NoRow},
                   token: Nat, outcome: Outcomes \cup {NoResult}]
  <2>1. sender \in [Senders -> T]
    BY DEF Inv, TypeOK
  <2>2. sender' = [sender EXCEPT ![s] = [@ EXCEPT !.phase = "sent", !.outcome = outcome]]
    BY <2>1 DEF send
  <2>3. [sender[s] EXCEPT !.phase = "sent", !.outcome = outcome] \in T
    BY <2>1
  <2> QED
    BY ONLY <2>1, <2>2, <2>3
<1>8. TypeOK'
  BY <1>3, <1>5, <1>7 DEF Inv, TypeOK
<1>9. RowsRecorded' /\ TokensFenced'
  BY <1>3, <1>6 DEF Inv, RowsRecorded, TokensFenced, Queued, Busy
<1>10. ASSUME NEW r \in Senders, r # s, Busy(r), CurrentToken(r)
       PROVE  sender[r].key # k
  BY <1>3, <1>4, <1>10 DEF Inv, TokensFenced, CurrentToken, Busy
<1>11. ClaimedUnsent'
  BY <1>3, <1>5, <1>6, <1>10 DEF Inv, TokensFenced, ClaimedUnsent, CurrentToken, Busy
<1>12. AnswerTrue'
  <2> SUFFICES ASSUME NEW r \in Senders, sender'[r].phase = "sent",
                      row[sender'[r].key].attempts = sender'[r].token
               PROVE  /\ sender'[r].outcome = "receipt" => provider'[sender'[r].key] = 1
                      /\ sender'[r].outcome = "TRANSIENT" => provider'[sender'[r].key] = 0
    BY <1>3 DEF AnswerTrue, CurrentToken
  <2>1. CASE r = s
    BY <1>2, <1>5, <1>6, <2>1
  <2>2. CASE r # s
    <3>1. sender'[r] = sender[r] /\ sender[r].key \in Keys /\ sender[r].key # k
      BY <1>6, <1>10, <2>2 DEF Inv, TokensFenced, CurrentToken, Busy
    <3> QED
      BY <1>5, <3>1 DEF Inv, AnswerTrue, CurrentToken
  <2> QED
    BY <2>1, <2>2
<1>13. PendingUnsent' /\ SentAtMostOnce'
  BY <1>2, <1>3, <1>4, <1>5 DEF Inv, PendingUnsent, SentAtMostOnce, Queued
<1>14. ReceiptsTruthful'
  <2>1. k \notin receipts
    BY <1>4 DEF Inv, ReceiptsTruthful
  <2> QED
    BY <1>3, <1>5, <2>1 DEF Inv, TypeOK, ReceiptsTruthful, Queued
<1> QED
  BY <1>8, <1>9, <1>11, <1>12, <1>13, <1>14 DEF Inv

\* The answer is recorded (Outbox.finish): only under the newest claim, so it
\* says what the provider has, and a row goes back to PENDING only unsent.
LEMMA FinishInv ==
    ASSUME Inv, NEW s \in Senders, finish(s)
    PROVE  Inv'
<1> DEFINE k == sender[s].key
           outcome == sender[s].outcome
           status == FinishStatus(outcome, row[k].attempts)
<1>1. /\ sender[s].phase = "sent" /\ CurrentToken(s)
      /\ row[k].status = "LEASED"
      /\ row' = [row EXCEPT ![k].status = status, ![k].result = outcome,
                            ![k].cooling = status = "PENDING"]
      /\ receipts' = IF outcome = "receipt" THEN receipts \cup {k} ELSE receipts
      /\ UNCHANGED <<records, inbox, sender, provider>>
  BY DEF finish, MayFinish
<1>2. k \in Keys /\ Queued(k) /\ row[k] \in Row
  BY <1>1 DEF Inv, TokensFenced, Busy, TypeOK, Queued
<1>3. /\ status \in {"PENDING", "DELIVERED", "QUARANTINED"}
      /\ status = "DELIVERED" <=> outcome = "receipt"
      /\ status = "PENDING" => outcome = "TRANSIENT"
  BY DEF FinishStatus
<1>4. outcome \in Outcomes \cup {NoResult} /\ (status = "PENDING") \in BOOLEAN
  BY DEF Inv, TypeOK
<1>5. /\ row'[k] \in Row
      /\ row'[k].status = status
      /\ row'[k].attempts = row[k].attempts
  <2>1. row'[k] = [row[k] EXCEPT !.status = status, !.result = outcome,
                                 !.cooling = status = "PENDING"]
    BY <1>1, <1>2 DEF Inv, TypeOK
  <2> QED
    BY <1>2, <1>3, <1>4, <2>1 DEF Row
<1>6. /\ \A j \in Keys : j # k => row'[j] = row[j]
      /\ row' \in [Keys -> Row \cup {NoRow}]
  BY <1>1, <1>5 DEF Inv, TypeOK
<1>7. \A j \in Keys : row'[j] # NoRow <=> row[j] # NoRow
  BY <1>2, <1>5, <1>6, OutboxConstants DEF OutboxConstants, Queued
<1>8. TypeOK'
  BY <1>1, <1>2, <1>6 DEF Inv, TypeOK
<1>9. RowsRecorded' /\ TokensFenced'
  BY <1>1, <1>5, <1>6, <1>7, ZenonT(60) DEF Inv, RowsRecorded, TokensFenced, Queued, Busy
<1>10. \A r \in Senders : sender[r].phase = "claimed" => sender[r].key # k
  BY <1>1 DEF Inv, TokensFenced, ClaimedUnsent, CurrentToken, Busy
<1>11. ClaimedUnsent'
  BY <1>1, <1>6, <1>10 DEF Inv, TokensFenced, ClaimedUnsent, CurrentToken, Busy
<1>12. AnswerTrue'
  <2>1. \A r \in Senders : sender[r].phase = "sent" => sender[r].key \in Keys
    BY DEF Inv, TokensFenced, Busy
  <2>2. \A r \in Senders : sender[r].phase = "sent" /\ CurrentToken(r)' => CurrentToken(r)
    BY <1>1, <1>3, <1>5, <1>6, <2>1 DEF CurrentToken
  <2> QED
    BY <1>1, <2>2, Zenon DEF Inv, AnswerTrue
<1>13. PendingUnsent' /\ SentAtMostOnce'
  BY <1>1, <1>3, <1>5, <1>6, <1>7
  DEF Inv, AnswerTrue, PendingUnsent, SentAtMostOnce, Queued
<1>14. ReceiptsTruthful'
  BY <1>1, <1>2, <1>3, <1>5, <1>6, <1>7 DEF Inv, AnswerTrue, ReceiptsTruthful, Queued
<1> QED
  BY <1>8, <1>9, <1>11, <1>12, <1>13, <1>14 DEF Inv

\* deliver_once returns or its process dies.
LEMMA LeaveInv ==
    ASSUME Inv, NEW s \in Senders, Leave(s)
    PROVE  Inv'
<1>1. /\ sender'[s] = Idle
      /\ \A r \in Senders : r # s => sender'[r] = sender[r]
      /\ UNCHANGED <<records, inbox, row, receipts, provider>>
  BY DEF Leave, Inv, TypeOK
<1>2. TypeOK'
  BY DEF Leave, Idle, Inv, TypeOK
<1>3. sender'[s].phase = "idle"
  BY <1>1 DEF Idle
<1>4. RowsRecorded' /\ TokensFenced' /\ ClaimedUnsent' /\ AnswerTrue'
  BY <1>1, <1>3
  DEF Inv, RowsRecorded, TokensFenced, ClaimedUnsent, AnswerTrue, CurrentToken, Queued, Busy
<1>5. PendingUnsent' /\ SentAtMostOnce' /\ ReceiptsTruthful'
  BY <1>1 DEF Inv, PendingUnsent, SentAtMostOnce, ReceiptsTruthful, Queued
<1> QED
  BY <1>2, <1>4, <1>5 DEF Inv

\* Every step of the delivery system keeps the invariant.
LEMMA InvNext == Inv /\ [Next]_vars => Inv'
<1> SUFFICES ASSUME Inv, [Next]_vars PROVE Inv'
  OBVIOUS
<1>1. ASSUME NEW k \in Alerts, NEW content \in Contents, notify(k, content) PROVE Inv'
  <2>1. k \in Keys /\ inbox' \in [Updates -> Contents \cup {NoRow}]
    BY <1>1 DEF notify, Keys, Inv, TypeOK
  <2> QED
    BY <1>1, <2>1, QueueInv DEF notify
<1>2. ASSUME NEW u \in Updates, NEW digest \in Contents, NEW rendered \in Contents,
             receive(u, digest, rendered)
      PROVE  Inv'
  <2>1. u \in Keys /\ inbox' \in [Updates -> Contents \cup {NoRow}]
    BY <1>2 DEF receive, Keys, Inv, TypeOK
  <2>2. CASE records[u] = NoRow
    BY <1>2, <2>1, <2>2, QueueInv DEF receive
  <2>3. CASE records[u] # NoRow
    <3>1. UNCHANGED <<records, row, receipts, sender, provider>>
      BY <1>2, <2>3 DEF receive
    <3>2. TypeOK' /\ RowsRecorded' /\ TokensFenced' /\ ClaimedUnsent' /\ AnswerTrue'
      BY <2>1, <3>1 DEF Inv, TypeOK, RowsRecorded, TokensFenced, ClaimedUnsent, AnswerTrue,
                        CurrentToken, Queued, Busy
    <3>3. PendingUnsent' /\ SentAtMostOnce' /\ ReceiptsTruthful'
      BY <3>1 DEF Inv, PendingUnsent, SentAtMostOnce, ReceiptsTruthful, Queued
    <3> QED
      BY <3>2, <3>3 DEF Inv
  <2> QED
    BY <2>2, <2>3
<1>3. ASSUME NEW s \in Senders, NEW k \in Keys, NEW seen \in SUBSET Keys, claim(s, k, seen)
      PROVE  Inv'
  BY <1>3, ClaimInv
<1>4. ASSUME NEW seen \in SUBSET Keys, ClaimNothing(seen) PROVE Inv'
  BY <1>4, ClaimNothingInv
<1>5. ASSUME NEW s \in Senders, NEW outcome \in Outcomes, send(s, outcome) PROVE Inv'
  BY <1>5, SendInv
<1>6. ASSUME NEW s \in Senders, finish(s) \/ Leave(s) PROVE Inv'
  BY <1>6, FinishInv, LeaveInv
<1>7. ASSUME NEW k \in Keys, LeaseExpires(k) \/ CoolsDown(k) PROVE Inv'
  BY <1>7, TimeInv
<1>8. CASE UNCHANGED vars
  <2>1. TypeOK' /\ RowsRecorded' /\ TokensFenced' /\ ClaimedUnsent' /\ AnswerTrue'
    BY <1>8 DEF Inv, TypeOK, RowsRecorded, TokensFenced, ClaimedUnsent, AnswerTrue,
                CurrentToken, Queued, Busy, vars
  <2>2. PendingUnsent' /\ SentAtMostOnce' /\ ReceiptsTruthful'
    BY <1>8 DEF Inv, PendingUnsent, SentAtMostOnce, ReceiptsTruthful, Queued, vars
  <2> QED
    BY <2>1, <2>2 DEF Inv
<1> QED
  BY <1>1, <1>2, <1>3, <1>4, <1>5, <1>6, <1>7, <1>8 DEF Next

-------------------------------------------------------------------------------
(* The theorems.                                                           *)

\* The invariant holds in every reachable state, however many senders share
\* the queue and whatever crashes, expiries and answers they meet.
THEOREM Invariance == Spec => []Inv
BY InvInit, InvNext, PTL DEF Spec

\* The tables and the senders keep their shape.
THEOREM TypeCorrect == Spec => []TypeOK
<1>1. Inv => TypeOK
  BY DEF Inv
<1> QED
  BY <1>1, Invariance, PTL

\* deliver_once never makes Telegram accept a notification twice: the fencing
\* token of Outbox.claim and the quarantine of lost leases suffice.
THEOREM AtMostOnce == Spec => []SentAtMostOnce
<1>1. Inv => SentAtMostOnce
  BY DEF Inv
<1> QED
  BY <1>1, Invariance, PTL

\* notification_deliveries has a receipt exactly for the rows that are
\* DELIVERED, and Telegram has each of those messages once.
THEOREM ReceiptsAreTruthful == Spec => []ReceiptsTruthful
<1>1. Inv => ReceiptsTruthful
  BY DEF Inv
<1> QED
  BY <1>1, Invariance, PTL

\* No claim, sweep, late Outbox.finish or repeated notify moves a row that is
\* DELIVERED or QUARANTINED.
THEOREM DecidedForGood == Spec => OutcomeFinal
<1> DEFINE Final(k) == Queued(k) /\ row[k].status \in {"DELIVERED", "QUARANTINED"}
           Kept(k) == row'[k].status = row[k].status /\ row'[k].attempts = row[k].attempts
<1>1. Inv /\ [Next]_vars => [\A k \in Keys : Final(k) => Kept(k)]_row
  <2> SUFFICES ASSUME Inv, [Next]_vars, NEW k \in Keys, Final(k)
               PROVE  Kept(k)
    OBVIOUS
  <2>1. records[k] # NoRow
    BY DEF Inv, RowsRecorded
  <2>2. ASSUME NEW j \in Alerts, NEW content \in Contents, notify(j, content) PROVE Kept(k)
    BY <2>1, <2>2 DEF notify, Queue, Inv, TypeOK
  <2>3. ASSUME NEW u \in Updates, NEW digest \in Contents, NEW rendered \in Contents,
               receive(u, digest, rendered)
        PROVE  Kept(k)
    BY <2>1, <2>3 DEF receive, Queue, Inv, TypeOK
  <2>4. ASSUME NEW s \in Senders, NEW j \in Keys, NEW seen \in SUBSET Keys, claim(s, j, seen)
        PROVE  Kept(k)
    <3>1. k # j /\ k \notin seen
      BY <2>4 DEF claim, Available, SeenLost, Lost
    <3> QED
      BY <2>4, <3>1 DEF claim, Expire
  <2>5. ASSUME NEW seen \in SUBSET Keys, ClaimNothing(seen) PROVE Kept(k)
    <3>1. k \notin seen
      BY <2>5 DEF ClaimNothing, SeenLost, Lost
    <3> QED
      BY <2>5, <3>1 DEF ClaimNothing, Expire
  <2>6. ASSUME NEW s \in Senders, NEW outcome \in Outcomes, send(s, outcome) PROVE Kept(k)
    BY <2>6 DEF send
  <2>7. ASSUME NEW s \in Senders, finish(s) \/ Leave(s) PROVE Kept(k)
    BY <2>7 DEF finish, MayFinish, Leave, Inv, TypeOK
  <2>8. ASSUME NEW j \in Keys, LeaseExpires(j) \/ CoolsDown(j) PROVE Kept(k)
    BY <2>8 DEF LeaseExpires, CoolsDown, Inv, TypeOK, Row, Queued
  <2>9. CASE UNCHANGED vars
    BY <2>9 DEF vars
  <2> QED
    BY <2>2, <2>3, <2>4, <2>5, <2>6, <2>7, <2>8, <2>9 DEF Next
<1> QED
  BY <1>1, Invariance, PTL DEF Spec, OutcomeFinal
===============================================================================
