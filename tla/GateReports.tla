------------------------------ MODULE GateReports ------------------------------
(* What the deterministic verifier reports at the gates 0 and 2..5, as operators *)
(* on the inputs an evaluation snapshot pins (src/liki/verification.py,          *)
(* early_gate_checks.py, backtest_gate.py).  A report says whether every         *)
(* required check is true, whether the candidate is hard invalid, and whether    *)
(* something material is unknown.  Times and amounts are small integers; the     *)
(* seven cost components of a sample are one amount.                             *)
EXTENDS Integers, Sequences, FiniteSets, FiniteSetsExt

\* The types with which the pinned artifacts are parsed, as far as times and
\* numbers of samples are compared.
Parsed(manifest) ==
    /\ \A x \in manifest.data.features : {x.source, x.decision} \subseteq Int
    /\ \A x \in manifest.data.labels : {x.decision, x.end, x.available} \subseteq Int
    /\ \A x \in manifest.data.universe : {x.decision, x.available} \subseteq Int
    /\ {manifest.basis.minimum, manifest.proxy.minimum} \subseteq Int
    /\ IsFiniteSet(DOMAIN manifest.proxy.samples)
    /\ manifest.replay.specKnown \in Int /\ manifest.replay.tape \in Seq([time: Int, feeKnown: Int])

Report(checks, hard, unknown) == [checks |-> checks, hard |-> hard, unknown |-> unknown]

\* The plan (or the policy) is missing, ambiguous, invalid, pinned to something
\* else or not older than the snapshot: nothing is checked.
NoPlan == Report(FALSE, FALSE, TRUE)

-------------------------------------------------------------------------------
(* Gate 0: the research contract in the candidate's artifact. *)

\* A bound is the set of its value, empty when it is not declared.
ContractValid(c) ==
    /\ c.lower \cup c.upper # {} /\ \A l \in c.lower, u \in c.upper : l <= u
    /\ ~c.blank

ContractReport(c) ==
    LET checks == /\ ContractValid(c)
                  /\ c.metricPinned       \* measurable_objective
                  /\ c.dataPinned         \* data_evaluator_defined
                  /\ c.lineage            \* lineage_present; the mode is a literal
    IN  Report(checks, ~checks, FALSE)

-------------------------------------------------------------------------------
(* Gate 2: dataset manifests and the rows of the three timing artifacts.  A      *)
(* missing artifact has no rows.                                                 *)

FeatureRowValid(r) == r.source <= r.decision
LabelRowValid(r) == r.decision < r.end /\ r.end <= r.available
UniverseRowValid(r) == r.from <= r.decision /\ r.decision < r.to /\ r.available <= r.decision

RowsValid(d) ==
    /\ \A r \in d.features : FeatureRowValid(r)
    /\ \A r \in d.labels : LabelRowValid(r)
    /\ \A r \in d.universe : UniverseRowValid(r)

DataReport(d) ==
    LET read == {m \in d.manifests : m.registered /\ m.valid}
        unknown == \/ ~d.pinned \/ read # d.manifests \/ ~RowsValid(d)
                   \/ {} \in {d.features, d.labels, d.universe}
        hard == \/ \E m \in d.manifests : m.registered /\ ~m.valid
                \/ \E m \in read : m.quality \in {"FAIL", "QUARANTINED"}
                \/ ~RowsValid(d)
        checks == /\ ~unknown
                  /\ \A m \in read : m.asOf >= m.end /\ m.quality = "PASS" /\ m.complete
    IN  IF d.plan THEN Report(checks, hard, unknown) ELSE NoPlan

-------------------------------------------------------------------------------
(* Gate 3: why the strategy should work and the smallest test that could refute it. *)

\* A mechanism needs its payer, an empirical basis an observed pattern.
BasisValid(b) == IF b.basis = "MECHANISM" THEN b.explained ELSE b.pattern # "none"

FeasibilityReport(b) ==
    LET grounded == b.basis = "EMPIRICAL" => b.pattern = "bound"
        unknown == ~grounded \/ ~b.pinned
    IN  IF b.plan /\ BasisValid(b) THEN Report(b.sameOutcome /\ ~unknown, FALSE, unknown) ELSE NoPlan

-------------------------------------------------------------------------------
(* Gate 4: cheap economics.  samples, benchmarks and capacity are functions on    *)
(* sample ids; bound: of the plan's currency, benchmark and the pinned datasets.  *)

ProxyPlanValid(p) == p.minimum >= 1 /\ p.costs[1] <= p.costs[2] /\ p.limit > 0

EvidenceValid(p) ==
    /\ {} \notin {DOMAIN p.samples, DOMAIN p.benchmarks, DOMAIN p.capacity}
    /\ \A i \in DOMAIN p.capacity : /\ 0 <= p.capacity[i].planned /\ 0 <= p.capacity[i].executable
                                     /\ p.capacity[i].executable <= p.capacity[i].requested

AfterCost(sample) == sample.gross - sample.cost

Total(p) == MapThenSumSet(LAMBDA i : AfterCost(p.samples[i]), DOMAIN p.samples)

EconomicsReport(p) ==
    LET ids == DOMAIN p.samples
        bound == \A i \in ids : p.samples[i].bound
        costBounded == \A i \in ids : p.costs[1] <= p.samples[i].cost /\ p.samples[i].cost <= p.costs[2]
        capacity == /\ DOMAIN p.capacity = ids
                    /\ \A i \in ids : /\ p.capacity[i].bound
                                      /\ p.capacity[i].planned <= p.capacity[i].executable
                                      /\ p.capacity[i].planned <= p.limit
        matching == DOMAIN p.benchmarks = ids /\ \A i \in ids : p.benchmarks[i].bound
        excess == MapThenSumSet(LAMBDA i : AfterCost(p.samples[i]) - p.benchmarks[i].pnl, ids)
        passes == /\ matching
                  /\ Total(p) >= p.lower * Cardinality(ids) /\ excess >= p.excessLower * Cardinality(ids)
        unknown == ~bound \/ ~matching
        checks == /\ Cardinality(ids) >= p.minimum /\ ~unknown
                  /\ costBounded /\ capacity /\ passes
    IN  Report(checks, ~costBounded \/ ~capacity \/ (matching /\ ~passes), unknown)

ProxyReport(p) ==
    IF ~p.plan \/ ~ProxyPlanValid(p) \/ ~p.policy \/ ~p.evidence THEN NoPlan
    ELSE IF ~EvidenceValid(p) THEN Report(FALSE, TRUE, TRUE)
    ELSE EconomicsReport(p)

\* The cheap proxy may not ask for fewer samples than the test declared at gate 3.
HonorMinimum_Ignored(report, p, b) == report   \* variant: gate 3 is not read

HonorMinimum(report, p, b) ==
    IF p.plan /\ ProxyPlanValid(p) /\ b.plan /\ BasisValid(b) /\ p.minimum >= b.minimum THEN report ELSE [report EXCEPT !.checks = FALSE, !.unknown = TRUE]

-------------------------------------------------------------------------------
(* Gate 5: the replay of a quote tape under a pinned protocol.                   *)

\* QuoteReplayData: quotes in order, the specification known before the first one.
TapeValid(r) ==
    /\ Len(r.tape) >= 2 /\ r.specKnown <= r.tape[1].time
    /\ \A k \in 1..(Len(r.tape) - 1) : r.tape[k].time < r.tape[k + 1].time

\* Every declared scenario, a half-open interval, has observations.
ScenariosObserved(r) ==
    \A w \in r.scenarios : \E k \in DOMAIN r.tape : w[1] <= r.tape[k].time /\ r.tape[k].time < w[2]

\* replay refuses a gap in the tape and a fee that was not known when it applied.
Replayable(r) ==
    /\ r.supported                         \* spot, native increments
    /\ \A k \in DOMAIN r.tape : r.tape[k].feeKnown <= r.tape[k].time
    /\ \A k \in 1..(Len(r.tape) - 1) : r.tape[k + 1].time - r.tape[k].time <= r.maxGap

\* check_backtest never fails a candidate: it passes it or it blocks it.
BacktestReport(r) ==
    LET replayed == /\ r.plan              \* one plan, bound to candidate, snapshot, code and models
                    /\ r.provenance        \* one registered, complete, unrepaired dataset
                    /\ r.raw               \* its raw payload, older than the snapshot, hash checked
                    /\ r.normalized        \* the manifest describes that payload
                    /\ TapeValid(r) /\ Replayable(r) /\ ScenariosObserved(r)
    IN  Report(replayed, FALSE, ~replayed)

-------------------------------------------------------------------------------
\* The report at gate g # 1 on what a snapshot pins.
GateReport(manifest, g) ==
    CASE g = 0 -> ContractReport(manifest.contract)
      [] g = 2 -> DataReport(manifest.data)
      [] g = 3 -> FeasibilityReport(manifest.basis)
      [] g = 4 -> HonorMinimum(ProxyReport(manifest.proxy), manifest.proxy, manifest.basis)
      [] g = 5 -> BacktestReport(manifest.replay)

\* What a passed gate tells of the inputs, whatever reports and refusals led there:
\* no row looks ahead, as many samples as the test of gate 3 asked for earn their
\* cost, and nothing in the replay was used before it was known.
SoundAt(manifest, g) ==
    LET d == manifest.data
        p == manifest.proxy
        r == manifest.replay
    IN  CASE g = 2 -> /\ \A x \in d.features : ~(x.source > x.decision)
                      /\ \A x \in d.labels : ~(x.available <= x.decision)
                      /\ \A x \in d.universe : ~(x.available > x.decision)
          [] g = 4 -> /\ Cardinality(DOMAIN p.samples) >= manifest.basis.minimum
                      /\ Total(p) >= p.lower * Cardinality(DOMAIN p.samples)
                      /\ \A i \in DOMAIN p.samples : p.capacity[i].planned <= p.limit
          [] g = 5 -> \A k \in DOMAIN r.tape : r.tape[k].feeKnown <= r.tape[k].time /\ r.specKnown <= r.tape[k].time
          [] OTHER -> TRUE
===============================================================================
