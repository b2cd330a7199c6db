-------------------------------- MODULE Outbox --------------------------------
(***************************************************************************)
(* Notification delivery: liki/outbox.py and the Telegram sender and       *)
(* webhook of liki/telegram.py.                                            *)
(*                                                                         *)
(* deliver_once claims a row in one transaction, calls the provider in     *)
(* none, and reports in a third; a process may stop between any two.  A    *)
(* lease that runs out is quarantined by the next claim, never re-sent.    *)
(* Transactions run under the advisory lock and are one action each.  All  *)
(* sender processes use one delivery credential, so the worker_id check    *)
(* never tells them apart; the fencing token does.  A token is fresh per   *)
(* claim; the attempt number of the claim stands for it.                   *)
(***************************************************************************)
EXTENDS Naturals, FiniteSets

CONSTANTS
    Alerts,         \* deduplication keys used by services that call notify
    Updates,        \* Telegram update ids; each is also a deduplication key
    Contents,       \* content hashes of notifications and of updates
    Senders,        \* processes that run deliver_once
    MaxAttempts,    \* 5 in the code
    NoRow, NoResult

Keys == Alerts \cup Updates

Failures == {"TRANSIENT", "PERMANENT", "UNKNOWN_DELIVERY"}
Outcomes == Failures \cup {"receipt"}

Row == [status: {"PENDING", "LEASED", "DELIVERED", "QUARANTINED"}, attempts: Nat,
        expired: BOOLEAN, cooling: BOOLEAN, result: Outcomes \cup {NoResult}]

\* NoRow is the absence of a row and of a hash, so it is neither.
ASSUME OutboxConstants ==
    /\ MaxAttempts \in Nat \ {0}
    /\ Alerts \cap Updates = {}
    /\ NoRow \notin Row \cup Contents

VARIABLES
    records,    \* notification_records: content hash per deduplication key
    inbox,      \* telegram_inbox: request hash per update id
    row,        \* the transactional_outbox row and delivery aggregate per key
    receipts,   \* keys in notification_deliveries
    sender,     \* what each deliver_once call is doing
    provider    \* how many copies of each message Telegram has accepted

vars == <<records, inbox, row, receipts, sender, provider>>

-------------------------------------------------------------------------------

Fresh == [status |-> "PENDING", attempts |-> 0, expired |-> FALSE, cooling |-> FALSE,
          result |-> NoResult]

Idle == [phase |-> "idle", key |-> NoRow, token |-> 0, outcome |-> NoResult]

Init ==
    /\ records = [k \in Keys |-> NoRow]
    /\ inbox = [u \in Updates |-> NoRow]
    /\ row = [k \in Keys |-> NoRow]
    /\ receipts = {}
    /\ sender = [s \in Senders |-> Idle]
    /\ provider = [k \in Keys |-> 0]

Queued(k) == row[k] # NoRow
Queue(k, content) ==
    /\ records' = [records EXCEPT ![k] = content]
    /\ row' = [row EXCEPT ![k] = Fresh]

\* Outbox.notify.  A key seen before queues nothing: the same content returns
\* the first notification, another content is IDEMPOTENCY_CONFLICT.
notify(k, content) ==
    /\ records[k] = NoRow
    /\ Queue(k, content)
    /\ UNCHANGED <<inbox, receipts, sender, provider>>

\* TelegramService.receive, for an update that passed the checks on sender,
\* age and form.  Telegram repeats updates; the answer rendered for the first
\* one stands (its content depends on the state of the moment).
receive(u, digest, rendered) ==
    /\ inbox[u] = NoRow
    /\ records[u] \in {NoRow, rendered}
    /\ inbox' = [inbox EXCEPT ![u] = digest]
    /\ IF records[u] = NoRow THEN Queue(u, rendered) ELSE UNCHANGED <<records, row>>
    /\ UNCHANGED <<receipts, sender, provider>>

-------------------------------------------------------------------------------
(* Outbox.claim.                                                           *)

Lost(k) == Queued(k) /\ row[k].status = "LEASED" /\ row[k].expired
Available == {k \in Keys : Queued(k) /\ row[k].status = "PENDING" /\ ~row[k].cooling}

\* The lost rows a claim sees: now() is the start of its transaction, so a
\* claim that waited for the lock may miss a lease that ran out meanwhile.
SeenLost(seen) == \A k \in seen : Lost(k)

\* A lost sender may have delivered: its row is quarantined.
Expire_Requeue(seen) ==             \* variant: a lost lease is sent again
    [k \in Keys |-> IF k \in seen THEN [row[k] EXCEPT !.status = "PENDING"] ELSE row[k]]
Expire_Nothing(seen) == row         \* variant: lost leases are left alone
Expire(seen) == [k \in Keys |->
                    IF k \in seen
                    THEN [row[k] EXCEPT !.status = "QUARANTINED", !.result = NoResult]
                    ELSE row[k]]

Lease(k) == [row[k] EXCEPT !.status = "LEASED", !.attempts = @ + 1, !.expired = FALSE,
                           !.result = NoResult]

claim(s, k, seen) ==
    /\ sender[s].phase = "idle"
    /\ k \in Available
    /\ SeenLost(seen)
    /\ row' = [Expire(seen) EXCEPT ![k] = Lease(k)]
    /\ sender' = [sender EXCEPT ![s] = [phase |-> "claimed", key |-> k,
                                        token |-> row[k].attempts + 1, outcome |-> NoResult]]
    /\ UNCHANGED <<records, inbox, receipts, provider>>

\* The claim finds no row that was available when it started; the rows it
\* quarantined are committed all the same.
ClaimNothing(seen) ==
    /\ seen # {}
    /\ SeenLost(seen)
    /\ row' = Expire(seen)
    /\ UNCHANGED <<records, inbox, receipts, sender, provider>>

-------------------------------------------------------------------------------
(* TelegramTransport.send.                                                 *)

\* A connection that was never made and 429 leave nothing behind, 4xx is a
\* refusal, and every other trouble may have delivered the message or not.  A
\* record deliver_once may not send is reported PERMANENT without a call.
Accepts(outcome) ==
    CASE outcome = "receipt" -> {1}
      [] outcome \in {"TRANSIENT", "PERMANENT"} -> {0}
      [] outcome = "UNKNOWN_DELIVERY" -> {0, 1}

\* No lock and no lease check: a slow sender sends after its lease ran out.
send(s, outcome) ==
    /\ sender[s].phase = "claimed"
    /\ \E n \in Accepts(outcome) :
          provider' = [provider EXCEPT ![sender[s].key] = @ + n]
    /\ sender' = [sender EXCEPT ![s].phase = "sent", ![s].outcome = outcome]
    /\ UNCHANGED <<records, inbox, row, receipts>>

-------------------------------------------------------------------------------
(* Outbox.finish.                                                          *)

CurrentToken(s) == row[sender[s].key].attempts = sender[s].token

\* The result may be recorded: the row is still leased under this token and
\* the lease is in force (wall clock, read under the lock).
MayFinish_InTime(s) == ~row[sender[s].key].expired     \* variant: no fencing
MayFinish(s) ==
    /\ CurrentToken(s)
    /\ row[sender[s].key].status = "LEASED"
    /\ ~row[sender[s].key].expired

FinishStatus_Optimistic(outcome, attempts) ==   \* variant: unknown counts as delivered
    IF outcome \in {"receipt", "UNKNOWN_DELIVERY"} THEN "DELIVERED"
    ELSE IF outcome = "TRANSIENT" /\ attempts < MaxAttempts THEN "PENDING" ELSE "QUARANTINED"
FinishStatus_Outcome(outcome, attempts) ==      \* variant: stores the failure class
    IF outcome = "receipt" THEN "DELIVERED" ELSE outcome
FinishStatus(outcome, attempts) ==
    IF outcome = "receipt" THEN "DELIVERED"
    ELSE IF outcome = "TRANSIENT" /\ attempts < MaxAttempts THEN "PENDING" ELSE "QUARANTINED"

\* The caller keeps the lease object and may report again.
finish(s) ==
    LET k == sender[s].key
        outcome == sender[s].outcome
        status == FinishStatus(outcome, row[k].attempts)
    IN
    /\ sender[s].phase = "sent"
    /\ MayFinish(s)
    /\ row' = [row EXCEPT ![k].status = status, ![k].result = outcome,
                          ![k].cooling = status = "PENDING"]
    /\ receipts' = IF outcome = "receipt" THEN receipts \cup {k} ELSE receipts
    /\ UNCHANGED <<records, inbox, sender, provider>>

\* deliver_once returns: after finish, with a repeated or stale report that
\* changes nothing, or because the process died.
Leave(s) ==
    /\ sender[s].phase # "idle"
    /\ sender' = [sender EXCEPT ![s] = Idle]
    /\ UNCHANGED <<records, inbox, row, receipts, provider>>

-------------------------------------------------------------------------------
(* Time.                                                                   *)

LeaseExpires(k) ==
    /\ Queued(k) /\ row[k].status = "LEASED" /\ ~row[k].expired
    /\ row' = [row EXCEPT ![k].expired = TRUE]
    /\ UNCHANGED <<records, inbox, receipts, sender, provider>>

\* available_at, pushed back by the retry delay, passes.
CoolsDown(k) ==
    /\ Queued(k) /\ row[k].cooling
    /\ row' = [row EXCEPT ![k].cooling = FALSE]
    /\ UNCHANGED <<records, inbox, receipts, sender, provider>>

-------------------------------------------------------------------------------

Next ==
    \/ \E k \in Alerts, content \in Contents : notify(k, content)
    \/ \E u \in Updates, digest, rendered \in Contents : receive(u, digest, rendered)
    \/ \E s \in Senders, k \in Keys, seen \in SUBSET Keys : claim(s, k, seen)
    \/ \E seen \in SUBSET Keys : ClaimNothing(seen)
    \/ \E s \in Senders, outcome \in Outcomes : send(s, outcome)
    \/ \E s \in Senders : finish(s) \/ Leave(s)
    \/ \E k \in Keys : LeaseExpires(k) \/ CoolsDown(k)

Spec == Init /\ [][Next]_vars

\* Some claim that began after the lease of k ran out.
Sweeps(k) ==
    \E seen \in SUBSET Keys :
        /\ k \in seen
        /\ ClaimNothing(seen) \/ \E s \in Senders, j \in Keys : claim(s, j, seen)

\* The delivery loop keeps calling deliver_once, every call returns or its
\* process is replaced, and time passes.  No outcome of a send is assumed.
FairSpec ==
    /\ Spec
    /\ \A k \in Keys : /\ WF_vars(LeaseExpires(k))
                       /\ WF_vars(CoolsDown(k))
    /\ \A s \in Senders : WF_vars(Leave(s))
    /\ WF_vars(\E s \in Senders, k \in Keys, seen \in SUBSET Keys : claim(s, k, seen))
    /\ \A k \in Keys : WF_vars(Sweeps(k))

-------------------------------------------------------------------------------
(* Properties.                                                             *)

\* Shape of the tables and of the senders.
TypeOK ==
    /\ records \in [Keys -> Contents \cup {NoRow}]
    /\ inbox \in [Updates -> Contents \cup {NoRow}]
    /\ row \in [Keys -> Row \cup {NoRow}]
    /\ receipts \subseteq Keys
    /\ sender \in [Senders -> [phase: {"idle", "claimed", "sent"}, key: Keys \cup {NoRow},
                               token: Nat, outcome: Outcomes \cup {NoResult}]]
    /\ provider \in [Keys -> Nat]

\* The owner gets each notification at most once, whatever senders crash,
\* stall past their lease, retry, or lose the provider's answer.
SentAtMostOnce == \A k \in Keys : provider[k] <= 1

\* A receipt is recorded only for a message Telegram has, once per row, and a
\* row is DELIVERED exactly when it has its receipt.
ReceiptsTruthful ==
    /\ \A k \in receipts : provider[k] = 1
    /\ \A k \in Keys : k \in receipts <=> Queued(k) /\ row[k].status = "DELIVERED"

\* Delivered and quarantined rows are never claimed or changed again, so a
\* late sender cannot overwrite what was decided without it.
OutcomeFinal ==
    [][\A k \in Keys :
          Queued(k) /\ row[k].status \in {"DELIVERED", "QUARANTINED"}
          => row'[k].status = row[k].status /\ row'[k].attempts = row[k].attempts]_row

\* No notification stays pending or leased for ever, even if no sender ever
\* reports.
NotificationsSettle ==
    \A k \in Keys : Queued(k) ~> (Queued(k) /\ row[k].status \in {"DELIVERED", "QUARANTINED"})

===============================================================================
