# LIKI: models, checks and proofs

LIKI is an office for evidence-governed quantitative research: services written
in Python on one PostgreSQL database. This directory holds TLA+ modules of its
concurrent core and of the services that decide promotion, the TLC
configurations that check them on small instances, and proofs for TLAPS that
hold for instances of any size.
`PROJECT.json` maps every definition to the lines it models and lists the runs,
the variants that each property must reject, the findings, the hazards and the
theorems.

    tlc -workers 2 -config MCEventStore.cfg MCEventStore
    tlapm EventStoreProofs.tla

## 1. The system

Everything durable goes through `Store.transaction` (READ COMMITTED, 15 s
`statement_timeout`, an exception rolls back). Writers serialise on one
transaction-scoped advisory lock, `pg_advisory_xact_lock(71403218)`. Three
consequences shape all the models:

* an operation that takes the lock first and reads afterwards is **atomic**: it
  is one action;
* what was read *before* the lock may be **stale** under it: such a read is an
  action of its own (`Begin`, `simulate_order`);
* SQL `now()` is the **start of the transaction**, before the wait for the lock,
  while `utcnow()` in Python is the wall clock. Where the code compares with
  `now()` or stores it, opening the transaction is an action of its own
  (`FinishStart`, `OpenFill`).

### Inventory

| Component | State | Operations | Talks to | Hard behaviour | What makes it correct |
|---|---|---|---|---|---|
| Event store, `store.py` | `event_log`, `aggregates`, outbox rows, `artifacts` | transaction, state, transition, put_artifact, audit | called by every service | stale reads, retries, lost answers, rollback between statements, audit during writes | no lost update, an operation applied once, chain and projection agree, rows commit together, the lock comes free |
| Scheduler, `scheduler.py` | campaigns, tasks, dependencies, runs, leases | campaign, enqueue, add_dependency, claim, heartbeat, finish, recover | workers; event store | worker death, late answers, expiry during a call, retries | one owner per running task, results final, retries and budgets bounded, no dependency cycle, tasks settle |
| Outbox and Telegram, `outbox.py`, `telegram.py` | notification records, outbox rows with lease and token, receipts, inbox | notify, claim, send, finish, receive | Telegram | crash between claim, send and finish; lost answers; repeated updates | sent at most once, receipts truthful and final, rows settle |
| Paper service, `paper_service.py`, `finance/execution.py`, `finance/contracts.py` | runs, orders, reservations, fills, positions, cash, stops, latches | start_run, reconcile, restart, submit, simulate_order, record_fill, mark_unknown, cancel, stop, emergency_stop, release | workers, operators; event store | fill simulated in one transaction and recorded in another; stops in between; timestamps out of lock order | reserved risk matches the order, pool limit, position equals fills, ended orders stay, no trading under a global latch |
| Ledger, `finance/accounting.py` | lots, realized PnL | apply fill, mark, funding | paper service, backtest | rounding, reversal of a position | agrees with the FIFO reference |
| Backtest and fill models, `finance/backtest.py`, `backtest_gate.py` | none (pure) | simulate, gate | evaluator | same-bar ordering, latency | no look-ahead |
| Inference broker, `inference_service.py`, `inference/` | requests, attempts with fence and lease, cost reservations, route circuits | create_or_get, claim_attempt, reserve_cost, finish_attempt, hibernate, revive, reconcile cost | model providers | late answers, silent attempts, retries on another route, a fallback with a lower clearance | one answer per request, every attempt's cost counted, ceiling respected, no attempt left open but those abandoned, evidence only to cleared routes |
| Evaluator, `evaluation.py`, `verification.py`, `early_gate_checks.py` | snapshots, gate decisions, candidate state | snapshot, gate, reenter | research, reliability | snapshot invalidated or promotions frozen between gates; the family screen changes between execution and decision | gates in order, on one snapshot, on fresh evidence and sound inputs |
| Research and sealed holdout, `research.py`, `research_runtime.py` | objects, lineage, trials, holdout queries | register, trial, remember, sealed_result | evaluator | exposure through relatives or another family | one exposure per family and lineage, budget respected |
| Governance, `governance_service.py`, `governance/` | proposals, reviews, lifecycle evidence, decisions, policies | propose, classify, review, decide, evaluate, activate_policy | owner via Telegram | evidence, notice and decision in any order over days; a policy change or an incident in between | a promotion stands only on evidence of its class, the owner's approval or day, and no veto |
| Reliability, `reliability_service.py` | incidents, SLIs, promotion freezes | declare, contain, resolve, close, reopen, lift freeze | gates, governance, model risk | reopening after the freeze was lifted | no promotion while an incident is open |
| Model risk, `model_risk_service.py` | model inventory | challenge, approve, drift, retire, exception | governance | drift between challenge and approval; two copies of the status | approval on evidence and by people that did not make the model |
| Portfolio, `portfolio_service.py` | evaluations, readiness packets | evaluate, record status | evaluator | stale inputs | status transitions in order |
| Data service, `data_service.py`, `data/` | datasets, instrument specifications | persist, lifecycle | evaluator | late and repeated data | point-in-time reads |
| Backup and recovery, `backup.py`, `recovery.py` | files | backup, restore, drill | operators | crash between two files | restore only what is complete and authentic |
| Statistics, `statistics/` | none | estimators | evaluator | floating point | not a matter for TLC or TLAPS |
| Operations, server, sandbox, management, web console | none of their own | read-only views, routing, process isolation | all | none that changes state | not modelled |

## 2. Modules

| Module | Models | Composition |
|---|---|---|
| `EventStore` | `Store`: transactions, transition, put_artifact, audit | |
| `AggregateHistory` | the promise: one history of atomic operations | implemented by `EventStore` (refinement mapping `History` there) |
| `Scheduler` | campaigns, tasks, leases | |
| `Outbox` | queue, sender processes, provider, webhook | composes `outbox.py` and `telegram.py` |
| `PaperService` | runs, orders, fills, stops | composes `paper_service.py` with the order lifecycle and pre-trade check of `finance/` |
| `ReservationSplit` | the decimal arithmetic of a partial fill | the amounts `PaperService` treats as exact |
| `Context` | context compilation, route eligibility and pricing (pure operators) | used by `Inference` |
| `Inference` | the broker's `run` in several processes over the PostgreSQL backend | extends `Context` |
| `Reliability` | incidents, service levels and the two promotion freezes | read by the three modules below |
| `Governance` | policies and proposals | extends `Reliability` |
| `GateReports` | what the verifier reports at the gates 0 and 2..5 (pure operators) | used by `Evaluation` |
| `Evaluation` | research objects, trials, holdout, snapshots, verifier, gates | extends `Reliability`, `GateReports` |
| `ModelRisk` | the model inventory | extends `Reliability` |
| `Promotion` | all that promotes under one set of freezes | composes the four above |
| `FiniteSums` | lemmas about sums over finite tables, and the two forms of induction by a smallest counterexample | used by the proofs below |
| `EventStoreProofs`, `OutboxProofs`, `SchedulerProofs`, `PaperServiceProofs`, `ReservationSplitProofs`, `InferenceProofs`, `PromotionProofs` | theorems about the module of that name | each extends its module |
| `MC*` | constants for TLC | |

Definitions whose comment says *variant* are altered copies of the definition
below them. No specification uses them; each shows that a property would notice
that mistake.

**EventStore.** `db` is the committed database, `tx[c].work` the uncommitted
copy of the lock holder. `Begin` reads and derives a request (the state of an
aggregate is the set of operation keys folded into it, so a lost update is a
missing key), `Append1`, `Replay` and `Refuse` are the outcomes of
`Store.transition` in the order of its checks, `Commit` delivers or loses the
answer, `Crash` and `Timeout` roll back, `Retry` repeats a request byte for
byte. `AuditLog` and `AuditProjection` are the two statements of `audit`.
`ContentHash` is a parameter; TLC uses an injective one, the proofs assume
nothing about it.

**Scheduler.** Time is three facts: a lease has expired, a failed task cools
down, a campaign's horizon has passed. `FinishStart` opens the transaction of
`finish` and fixes `now()`; the rest happens under the lock. Task contracts are
constants, so the orders in which they arrive are explored, not their contents.
`heartbeat` records a time and never moves the expiry, so it is no action.

**Outbox.** A sender is idle, has claimed, or has sent; it can leave at any
point. The provider may have accepted a message whose answer was lost. Message
texts are content hashes.

**PaperService.** Prices are 1 and fees 0, so an amount is a quantity; what is
kept is the order lifecycle, the split of a reservation into working, converted
and released, the position replayed from the fills, the running cash balance and
its `created_at`, and all stop scopes. Refused calls change nothing and are no
actions.

**ReservationSplit.** A decimal is a coefficient and a scale, rounded half-even
to `Precision` digits after every operation, as Python's `Decimal` does;
PostgreSQL adds exactly. Precision 3 stands for 28 in the runs: the rounding
happens in the same places; the proofs hold for every precision. The original
amount is itself a `Decimal` result, so it has at most `Precision` digits
(`AmountsFit`).

**Context and Inference.** An evidence item has a class, a rank, a size and its
sources; a context is the set of items inline and readable by tool. A broker
process is at a step of `run`: claim, reserve, call, note, hibernate. The lock is
held inside each backend call only, so two processes and the expiry of a lease
interleave between them. `run` is left early in three ways, each an action: the
process dies (`Crash`), its task is cancelled where it awaits (`Cancelled`), or a
backend call raises (`BackendFails`); `abandoned` records the attempt and the cause.
`sent` records what each provider was shown, `answers` the attempts whose artifact
a caller was given. A cost is an integer computed from the route's plan; `Unknown` usage is
filled from the route's reserve. `append_event` and `hibernate` keep the operation
keys they used, which is where the finding below comes from.

**Reliability, Governance, Evaluation, ModelRisk, Promotion.** Every operation
runs under the lock and is one action. The freeze triggers of migration 019 are
`Guarded` in governance, `Frozen` in the gate and `Write` in the model inventory.
Time is a day counter in governance (the owner's notice period is a day) and a
sample index for service levels; a cooldown is a flag that ends. Of
`complete_evidence_at` the model keeps whether the evidence was overtaken and
whether the owner was told of it. Reviews are summarised by what their class
counts: number, adversarial ones, padded, correlated, an open objection. The checks
of one lifecycle record ran on one day; those of different records need not have.
The author of a proposal pins any approval snapshot. At gate 1 a candidate is
compared with the others by artifact content (`Content`) and by semantic
configuration; the cooldown after a hard and after an ordinary failure is one flag,
which may end at any time, and campaigns, which parents and trials of a strategy
share, are left out. A snapshot id stands for its manifest, so what it pins (`Manifest`) is a constant
and a report is a function of it; only the family screen of gate 1 reads the
database as it is. Signatures and keys are left out: an execution record is
authentic. `Relevant` merges the two ways an incident can be relevant.

**GateReports.** Rows carry small integers as times, samples as amounts. The
seven cost components are one amount, the ids of a series are unique because it
is a function, and the bindings of the backtest plan are one fact each.
`SoundAt` is what a reader expects of a passed gate, stated without the reports.

## 3. Runs

| Run | Instance | Shows |
|---|---|---|
| `event_store` | 2 services of different roles, 1 auditor, 2 aggregates, 2 keys, 1 artifact, 2 transitions per transaction | consistency of log, projection, outbox and artifacts; no lost update; operations applied once; acknowledged requests durable; audit never fails; refinement of `AggregateHistory`; lock released |
| `scheduler` | 1 campaign, 4 tasks (a retry, two children that do not fit together, a dependency), 2 slots, 1 open finish call | lease ownership, final results, retry and budget bounds, no cycle, dependencies respected, settling |
| `scheduler_expiry` | the first 3 tasks | **violation**: a finish commits after its lease expired |
| `outbox` | 1 alert, 1 update, 2 contents (a repeated update may be answered differently), 2 senders, 2 attempts | at most once, truthful and final receipts, settling |
| `paper` | 1 run, 2 orders on one pool, 2 workers, 2 snapshot times, 2 fill transactions, a strategy stop, a global and a venue latch | reservations, pool limit, orders and positions against the fills, ended orders, global latch |
| `paper_cash` | the same orders without stops | **violation**: a cash balance forgets a fill |
| `paper_unknown` | pool limit large enough for both orders | **violation**: a run with an unknown order accepts the next one |
| `reservation_split` | amounts and quantities 1..12, all ways to cut an order | a filled order has converted all its risk, an unfilled one keeps some |
| `reservation_split_check` | one amount of 100 and an order of 30 lots | **violation**: a partial fill is refused by the database |
| `inference` | 2 processes, 3 routes in 2 correlation domains, 1 request, 4 contexts, 1 retry, 2 runs, ceiling 3 | costs add up and stay within the ceiling, the open attempts are those in hand and those abandoned, one answer, evidence only to cleared routes |
| `inference_retry` | the same with 1 process | **violation**: a route that fails twice alike makes the run raise instead of falling back or hibernating |
| `promotion` | 1 incident, 1 indicator, 1 proposal, 2 policy versions, 3 days, 3 strategies, 15 snapshots, 6 gates, 1 model | every promotion earned, every pass on fresh evidence and sound inputs, independent evidence, nothing promoted while something material is open |

Bounds, and why they are enough for what is asked. Two clients suffice for every
race on one lock; two keys and two aggregates allow a stale read, a key reused
on another aggregate, and a transaction of two writes. One open `finish` call
can still be overtaken by expiry, recovery and a new claim, which is the race
the lease is for. Two attempts reach both sides of the attempt limit. Two
workers and two snapshot times give a repeated fill, a fill overtaken by a
cancel, and a time that goes backwards. `MaxWrites`, `MaxCalls`, `MaxStarts` and
`MaxAttempts` are the named bounds (`MaxAttempts` is 5 in the code). Deadlock is
not checked in the scheduler, outbox, paper, inference and promotion runs: when
all tasks have settled, all rows are sent, the request is answered, every
candidate is at a terminal gate or a bound is used up, nothing need happen. The
event store never stops.

In `inference`, a request that is run twice by two processes has every race on its
attempts (`MaxRuns`); the ceiling of 3 admits two calls of which one may cost more
than reserved, and the one invoice amount, 2, is more than some calls were charged
and less than others, so that invoices correct both ways. In `promotion` the three
consumers of the freezes do not read each other's state, so a behaviour has one of
them (`OneConsumer` in `MCPromotion`), and incidents and indicators move where a
consumer is one step from a promotion (`Ripe`), which is where a freeze matters.
Strategy 1 goes through all six gates on a snapshot in order or with one defect at
one gate; strategy 2, with the same configuration, meets it at the family screen,
and strategy 3, with the same content, may be registered beside it. A proposal pins
the one snapshot that can be current: any other is stale for ever.
The required numbers of reviews (3, 5 and 7 by class) are scaled to 1, 1 and 2, and
those of adversarial reviews (0, 1, 2) to 0, 1 and 1; RED proposals stay within one
day, GREEN ones have three; AMBER, which asks for both the canary and the owner's
day, is not in the run, and the theorem `PromotionsAreEarned` covers it. `MaxDay`, `MaxReviews`, `MaxValidations`, `MaxGate` and
`MaxVersion` are the named bounds.

Symmetry is used for the workers of the `paper` and `inference` runs, which check
safety only.

### Fairness

* `EventStore!FairSpec`: an open transaction ends. Every statement is bounded by
  `statement_timeout` and the `with` block commits or rolls back. Crashes are
  allowed, never assumed.
* `Scheduler!FairSpec`: workers poll `claim`, the recovery loop runs, leases and
  cool-downs run out. Workers need not answer, and campaigns and tasks need not
  arrive.
* `Inference` and `Promotion` state no fairness: people and providers owe no step.
* `Outbox!FairSpec`: the delivery loop calls `deliver_once` again, a call
  returns or its process is replaced, time passes. No outcome of a send is
  assumed.

### Findings

1. `scheduler_expiry`: `finish` compares `expires_at` with `now()`, the start of
   its transaction. A call that waits for the lock beyond the expiry commits.
   The task still has one result, whatever is recovered and retried meanwhile
   (`SettledForGood`; theorem `OneResultPerTask`).
2. `paper_cash`: `record_fill` continues the balance of the entry with the
   latest `created_at`, again the start of the inserting transaction. Two calls
   that start in one order and take the lock in the other lose an entry. Only
   `balance_after` is damaged: the deltas always add up to the fills
   (`CashEntriesMatchFills`). The overlap is the only cause: without it every
   balance is right (`CashReconcilesUnraced`).
3. `paper_unknown`: `mark_unknown` leaves the run ACTIVE, so `submit` accepts
   risk-increasing orders before reconciliation.
4. `reservation_split_check`: when `filled / quantity` does not terminate, the
   two rounded parts need not add up and the CHECK of migration 007 rejects the
   fill. Where all shares of an order are finite decimals that fit the precision,
   no fill is refused (`FiniteSharesRecorded`).
5. `inference_retry`: `append_event` makes its operation key from the request, the
   event type and a hash of the payload. A retry that fails like the first call
   repeats the key in another state, the store raises `IDEMPOTENCY_CONFLICT`, and
   `run` ends with neither fallback nor hibernation. `hibernate` cannot be used
   twice for one reason for the same cause.

Met while modelling, without a run of their own:

* `outbox.py:1` promises at-least-once delivery; `claim` quarantines a row whose
  sender died before sending, so delivery is at most once (`SentAtMostOnce`).
* `pretrade_check` compares the position limit with the current position and
  this order only, so two working orders can fill beyond it (`execution.py:287`;
  SRS 18.29 asks for other working orders to be counted). What bounds the position
  is the portfolio limit of each pool its orders drew on (`PositionsBounded`).
* The split of a reservation is right for orders of up to 10^27 lots, which no code
  checks. Beyond that the share filled before the last lot may round to one: with
  precision 2, amount 2 and 39 of 40 lots filled, nothing is left working.
* `reduce_only` is decided when the order is submitted (`contracts.py:101`); a
  second reduce-only order, or a fill in between, can open the opposite position.
* A task that depends on a quarantined one waits for ever (`Stuck`).
* Leases that expired and were not recovered free their slot
  (`scheduler.py:134`); converted reservations are never freed when a position is
  closed (`paper_service.py:281`); an unknown order that fills under a latch is
  working again (`paper_service.py:495`).
* Three ways out of `run` leave an attempt open for good, with its reservation in
  `reserved_cost`. `CancelledError` at the provider call passes `except Exception`
  (`broker.py:313`, whose comment promises that defects "release the fenced
  reservation durably"). An exception of `reserve_cost` (`broker.py:254`) is outside
  the `try`; where it was raised after the commit, the cost stays. An exception of
  the `finish_attempt` in the handlers (`broker.py:381`) is caught by nobody. After
  its lease another attempt can be claimed, but the budget of the request stays
  smaller. `OpenAttemptsKnown` says that these and a death are all.
* The egress rank of a context counts evidence, not the memories in it.
* `GovernanceService.declare_incident` accepts any status and writes no freeze,
  and `reopen` does not raise a lifted one again; `NothingMaterialOpen` leaves
  both kinds of incident out and says so. An incident reopened while its freeze
  stands is not left out. `advance_incident` resolves without a
  corrective action. Late samples of a closed window never count.
* `rollback_policy`, which reduces risk, is refused while promotion is frozen.
* A PROMOTED proposal is not used up: it can activate a second draft, activation
  compares the policy version only and evaluates nothing again.
* Queuing a notice again moves `complete_evidence_at` past the delivery; recording
  identical lifecycle evidence again lets an old delivery count; a RED approval may
  precede the evidence. A failed check delays by when it was executed, not by when
  it was recorded: evidence told on day 1 and again on day 3 is promoted on day 4
  although a failure of day 2 was recorded on day 3. `propose` accepts any status,
  but PROMOTED without a classification authorises nothing.
* Drift recorded through governance sets only the status column, which `approve`
  does not read, and the next
  write of `ModelRiskService` overwrites it; `link_evidence` can make a record
  unreadable; `register_model` accepts any status.
* The reports of the gates 0..5 carry no metrics, so a numeric rule there blocks
  every candidate; the verifier executes no gate beyond 5.

## 4. Proofs

TLAPS proves all safety properties of the passing runs, for every value of the
constants: any number of clients, tasks, orders, attempts, proposals, strategies or
models, any hash function, any price plan, any rules of a gate, any precision. It
also proves how far three of the findings reach, and four properties that no run
checks.

| Module | Theorem | Statement |
|---|---|---|
| `EventStoreProofs` | `TypeCorrect`, `AuditNeverFails`, `AtMostOneEvent` | `[]TypeOK`, `[]AuditVerifies`, `[]AppliedOnce` |
| | `LogOnlyGrows` | the action property `LogAppendOnly` |
| | `NoUpdateIsLost`, `AcknowledgedIsDurable`, `OneTransaction` | `[]NoLostUpdate`, `[]AckedDurable`, `[]CommittedTogether` |
| | `Refinement` | `ImplementsHistory`: the store implements `AggregateHistory` |
| `OutboxProofs` | `TypeCorrect`, `AtMostOnce`, `ReceiptsAreTruthful` | `[]TypeOK`, `[]SentAtMostOnce`, `[]ReceiptsTruthful` |
| | `DecidedForGood` | the action property `OutcomeFinal` |
| `SchedulerProofs` | `TypeCorrect`, `OneLeasePerRunningTask`, `BoundedRetries` | `[]TypeOK`, `[]LeaseOwnsTask`, `[]RetriesBounded` |
| | `DependenciesFirst`, `NoDependencyCycle`, `BudgetsConserved` | `[]DependenciesRespected`, `[]DependencyDAG`, `[]BudgetConserved` |
| | `SettledStays` | the action property `SettledForGood` |
| | `OneResultPerTask` | `[]OneResult`: a task is completed exactly when one of its runs is, and never two |
| `PaperServiceProofs` | `TypeCorrect`, `ReservationsMatchOrders`, `PoolsWithinLimit` | `[]TypeOK`, `[]ReservationMatchesOrder`, `[]PoolLimit` |
| | `BooksStayInAgreement`, `LatchStopsRuns` | `[]BooksAgree`, `[]NoActiveRunUnderGlobalLatch` |
| | `EndedOrdersNeverChange` | the action property `EndedOrdersStay` |
| | `CashEntriesMatchFills` | `[]CashMatchesFills`: cash entries against the fills |
| | `CashReconcilesUnraced` | `[]CashReconciles` under `[]OneAtATime` |
| | `PositionsBounded` | `[]PositionWithinPools`: a position against the limits of its pools |
| `ReservationSplitProofs` | `SplitConverts` | `[]ConvertedWhenFilled`, if `FewLots` |
| | `FiniteSharesRecorded` | `[]PartialFillRecorded`, if `FiniteShares` |
| `InferenceProofs` | `TypeCorrect`, `SpendIsAccounted`, `SpendIsCapped` | `[]TypeOK`, `[]CostsAddUp`, `[]CeilingHolds` |
| | `LeaksAreKnown`, `AnswersAgree`, `EvidenceIsCleared` | `[]OpenAttemptsKnown`, `[]OneAnswer`, `[]EvidenceStaysCleared` |
| | `AnswersAreFinal` | the action property `AnswerForGood` |
| `PromotionProofs` | `TypeCorrect`, `PromotionsAreEarned`, `PassesAreEarned`, `EvidenceIsIndependent` | `[]TypeOK`, `[]PromotionsEarned`, `[]PassesEarned`, `[]IndependentEvidence` |
| | `PromotionBlocked` | the action property `MaterialIncidentsBlock` |

Each module has an inductive invariant, mostly named `Inv` and proved as
`Invariance` (`Spec => []Inv`), on which its other theorems rest. Few of the
properties are inductive. What the invariants add, and why:

**Event store.** `AuditVerifies` speaks of a verdict given after two reads. `Inv`
adds `Shape` (the lock holder is exactly the client whose transaction is locked),
`TablesSound` (the committed tables *and* the holder's working copy are sound, and
the copy extends the committed log) and `AuditsIsolated` (an audit between its
statements holds the shared lock, and the log it read is still the committed one).
The main lemma, `AppliedSound`, shows that appending keeps tables sound when the
key is new: the chain needs only that the new event names its predecessor's hash,
the version that the projection was right before. Nothing is assumed of the hash.
`ContentsInvariance` is a second invariant, about what the rows say: a request
derived from a stale read either has a version that will be refused or is derived
from the very state it is applied to (`Derived`), and the working copy is complete
in the same sense as the committed one. *Refinement:* the abstract history is the
operation keys and aggregates of the committed log, its rows the projection
(`History`); a commit appends the operations the transaction wrote, each new and
folded into the latest state of its aggregate (`CommitPerforms`), and every other
step leaves log and projection alone and is a stutter (`SameTables`).

**Outbox.** `SentAtMostOnce` does not say why a row that is PENDING again was never
delivered, nor why two senders never hold a message at the same time. `Inv` adds
that tokens are unique and never ahead of the row (`TokensFenced`), that a sender
that has still to send owns the newest claim of a row for which nothing was sent
(`ClaimedUnsent`), that the answer under the newest claim is what the provider did
(`AnswerTrue`), that what waits was not sent (`PendingUnsent`) and that a queued
row has its record (`RowsRecorded`).

**Scheduler.** `RunsCounted` ties the number of runs to the status of a task, which
makes the retry bound inductive across failures and expiries; `RowsReferToRows`
says that dependencies and parents exist, so a new task closes no cycle, and that
only finitely many tasks exist, so that budgets have sums and the ranking of
`claim` has a first. `OneResult` is inductive beside `Inv`: a run completes only in
the step that completes its task, which was running until then and so had no
completed run; afterwards `SettledForGood` keeps it from running again.

**Paper service.** Pool, position and filled quantity are sums. `Callers` says what
a fill that was simulated in one transaction and waits in another refers to;
`Ledger` that the stored position is the replay of the stored fills. A second
invariant, `Booked`, is about the books: every cash entry is that of a stored fill
(`Traceable`), so a fill under a new key adds a new entry to its run and changes
the three sums by the same amount. The running balance needs more. A caller that
waits for the lock must have started after every entry of its run (`StartedLast`);
that is what two overlapping transactions break, and what `OneAtATime` restores.
`OneAtATime` is a hypothesis on the behaviour: callers that record the fills of a
run one after the other satisfy it. The position of a run is at most what its
orders filled on either side, which is at most what they hold or have converted in
their pool (`FilledWithinRisk`); `submit` takes the pool from its caller, so the
orders of a book may draw on several, and `PoolLimit` bounds each
(`PositionWithinPools`; `SumOfParts` splits the sum by pool).

**Reservation split.** A part is `original * (filled / quantity)`, rounded twice.
Half-even rounding never passes a value that is itself a decimal of the precision
(`QuotientRounds`, `RoundedIs`) and keeps such a value (`RoundedExact`), so the
share of a filled order is 1 and its part the whole amount (`ShareOne`,
`AmountWhole`). A lot that is missing takes at least 1/quantity off the share.
With at most 10^(Precision-1) lots (`FewLots`) that is no less than 10 units of the
last digit below 1, so the rounded share stays below 1 (`ShareBelowOne`), the
rounded part below the amount (`AmountBelow`) and the rest above zero (`RestIs`).
`FewLots` cannot be dropped (see the list above) and holds in the code for orders
of up to 10^27 lots. `FiniteShares`, the other hypothesis, is what finding 4 lacks:
the size of every order divides a power of ten whose product with the amount fits
the precision; then share, part and rest are exact and the CHECK holds. The powers
of ten are a recursive function, whose equation is proved rather than assumed
(`Pow10Is`).

**Inference broker.** `Processes`: whoever waits for its budget or an answer holds
an open attempt that nobody else holds, and while it waits for an answer the attempt
is booked with its reservation. `Held`, `Left` and `Known`: an open attempt is held
or was abandoned, an abandoned one is open and held by nobody, and one that was
abandoned in a call keeps the reservation; every action either ends the attempt it
works on, keeps it in hand or records why it left it. `Booked`: an open attempt counts with its
reservation, and no attempt costs less than the least it was booked with.
`Contexts`: the context is settled before the first run, every route of a run is
safe for it, and what a tool can read is within the rank of the context. `Answers`:
the completed attempt exists, and no artifact was handed out before there was one.
For `AnswerForGood` the invariant is joined by `StatusTellsAnswer`: the request is
in an accepted status exactly when it has a completed attempt, which is what every
later claim, finish, hibernation and revival tests first.

**Promotion.** The conjunction of one invariant per service. Reliability: the
freeze of a material incident exists, and stands until it is resolved
(`FreezesStand`, without the two kinds the code does not freeze) and breaches freeze (`BreachesFreeze`).
Governance: the dates of a proposal are in order (`Dated`), which is what makes a
day of notice a day. Evaluation: parents are registered before their children and
only registered strategies see the holdout (`Lineage`), a report is what the
verifier computes from the snapshot (`Executed`), a candidate's gate follows from
its decisions and who passed the family screen is registered and has its trial on
record (`Decided`).
`PassIsSound` shows from the checks of gate reports alone that a gate which passes
is `SoundAt`, which is stated without them. Model risk: what built a model stays
development evidence, and the status column is the status or WATCH. `Inv` keeps the
services apart, so a step of one proves its own part and leaves the rest unchanged.

**Sums, folds and ancestors.** The tools of this prover cannot use an induction
theorem with an operator parameter. The proofs take a smallest counterexample
instead: a non-empty family of subsets of a finite set has a minimal member
(`SmallestSet` in `FiniteSums`), a set of numbers has a first (`FirstPosition`).
That gives `SumAdd`, `SumRemove`, `SumChange`, `SumMonotone`, `SumOfFewer` and
`SumNegate` for sums over tables, the equation of `Pow10`, and what the fold over a
gate's rules returns (`RulingsExist`, `RulingsAgree`). Ancestors in a lineage are
the least set closed under parents, so no induction over chains is needed.

Assumptions are the named ASSUMEs of the modules, which TLC evaluates on the
instances. Most give constants their types. Those that say more: the reserved
values are no members of the sets beside them (`NoClient`, `NoRow`, `NoOrder`,
`NoParent`, `None`); prices and usages are not negative (`InferenceConstants`);
evidence ids identify an item and its rank across inputs (`EvidenceIdentified`:
the callers' duty, since the broker is handed each context separately); there are
developers, and the evidence of a model at registration is not empty
(`ModelRiskAssumption`); a manifest has been parsed, so that its tables have the
fields the verifier reads (`Parsed`); the classes of `Drafts` and the standing
rules are those of the code; a reserved amount has at most `Precision` digits
(`AmountsFit`). `OneAtATime`, `FewLots` and `FiniteShares` are no ASSUMEs: they are
hypotheses of the theorems that need them and of no other, and the instances of the
passing runs satisfy `FewLots`.

Two properties were wrong as first stated and were corrected because a step could
not be proved, with TLC showing the behaviour on a slightly larger instance.
`CeilingHolds` counted the overrun of a call against its reservation, which an
invoice below the reservation followed by one above it exceeds; it now counts
against the least that was booked since admission. `Earned` excluded failures
since the owner was *first* told; the code excludes those since the owner was
*last* told (see the list above), and this is what is stated and proved.

Only model-checked: liveness (`LockIsReleased`, `TasksSettle`,
`NotificationsSettle`), because the prover handles neither fairness nor ENABLED; and
what the violation runs show, since their properties are false as they stand.
`OneResult`, `CashMatchesFills`, `PositionWithinPools` and `AnswerForGood` are defined beside their proofs and not in the runs.

## 5. Plan

Modelled in this order: what every other part rests on (event store), the three
services whose processes race, the inference broker, and the services that
promote with the freezes that bind them. What could follow:

1. the finance algorithms beside `ReservationSplit`: the ledger against its FIFO
   reference, fill models, order book;
2. portfolio status and data admission; backup with a crash between two files;
3. the gates 6..13, once a verifier executes them.

Theorems worth proving next: how many lots the split tolerates exactly, since
`FewLots` is sufficient and not shown to be necessary; and the refinement of one abstract order book by the paper service, as
`AggregateHistory` is refined by the store.

## 6. Not modelled

Statistics and the numerics of the optimiser and the backtest engine (floating
point and decimals); the ledger's cost basis, portfolio, data and backup
services (each operation is one transition of the event store, or files); HTTP
routing, the web console, the sandbox's process isolation and read-only views (no
state of their own); credentials and `migrate` (run once, under a lock of its
own); database roles and row-level security (they refuse statements, they do not
change what an accepted one does); row locks other than the advisory lock, so
that a wait of `put_artifact` for another transaction's row is a stutter. Of the
modelled services: the broker's SQLite backend, provider adapters and
credentials; `remember`, `retrieve` and the research runtime; `link_recurrence`,
`schedule_monthly`, `schedule_emergency`, `persist_replay`,
`record_system_trial`, `grant_exception` and `aggregate_dependencies`, whose
records no modelled operation reads.
