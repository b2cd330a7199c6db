------------------------------ MODULE MCPromotion ------------------------------
(* Promotion for TLC.  The three consumers of the freezes do not read each       *)
(* other's state, so one of them moves in a behaviour (OneConsumer); incidents   *)
(* and indicators move where a freeze bites: once a consumer is one step from a  *)
(* promotion (Ripe).                                                             *)
EXTENDS Promotion

MCReview(adversarial, padded, correlated, objection) ==
    [adversarial |-> adversarial, padded |-> padded, correlated |-> correlated, objection |-> objection]
MCReviewKinds == {MCReview(1, FALSE, TRUE, FALSE), MCReview(0, TRUE, FALSE, TRUE)}
MCDrafts == {[class |-> "GREEN", realMoney |-> FALSE, status |-> "PROPOSED"],
             [class |-> "RED", realMoney |-> FALSE, status |-> "PROPOSED"],
             [class |-> "GREEN", realMoney |-> TRUE, status |-> "PROMOTED"]}
MCFloor == <<"GREEN", "RED">>
MCLifecyclePackages == {{"tests"}, {"tests", "shadow"}, Phases}
MCRequiredReviews == [c \in Class |-> IF c = "RED" THEN 2 ELSE 1]
MCRequiredAdversarial == [c \in Class |-> IF c = "GREEN" THEN 0 ELSE 1]

\* What the snapshots pin: one candidate in order, and one defect each.
MCGood ==
    [candidate |-> 1,
     contract |-> [lower |-> {1}, upper |-> {}, blank |-> FALSE, metricPinned |-> TRUE, dataPinned |-> TRUE, lineage |-> TRUE],
     screen |-> "plan",
     data |-> [plan |-> TRUE, pinned |-> TRUE,
               manifests |-> {[registered |-> TRUE, valid |-> TRUE, quality |-> "PASS", asOf |-> 2, end |-> 2, complete |-> TRUE]},
               features |-> {[source |-> 1, decision |-> 1]},
               labels |-> {[decision |-> 1, end |-> 2, available |-> 2]},
               universe |-> {[from |-> 0, to |-> 2, available |-> 1, decision |-> 1]}],
     basis |-> [plan |-> TRUE, basis |-> "MECHANISM", explained |-> TRUE, pattern |-> "unbound", pinned |-> TRUE, sameOutcome |-> TRUE, minimum |-> 2],
     proxy |-> [plan |-> TRUE, policy |-> TRUE, evidence |-> TRUE, minimum |-> 2, costs |-> <<0, 2>>, limit |-> 3,
                lower |-> 1, excessLower |-> 0,
                samples |-> [i \in 1..2 |-> [bound |-> TRUE, gross |-> 2 * i, cost |-> i]],
                benchmarks |-> [i \in 1..2 |-> [bound |-> TRUE, pnl |-> 1]],
                capacity |-> [i \in 1..2 |-> [bound |-> TRUE, planned |-> 2, executable |-> 2, requested |-> 3]]],
     replay |-> [plan |-> TRUE, provenance |-> TRUE, raw |-> TRUE, normalized |-> TRUE, supported |-> TRUE, specKnown |-> 0,
                 maxGap |-> 2, tape |-> <<[time |-> 1, feeKnown |-> 0], [time |-> 3, feeKnown |-> 3]>>, scenarios |-> {<<1, 2>>}],
     rules |-> [g \in 0..5 |-> <<>>]]
MCManifest ==
    [good |-> MCGood, again |-> MCGood, second |-> [MCGood EXCEPT !.candidate = 2],
     second0 |-> [MCGood EXCEPT !.candidate = 2, !.contract.upper = {0}],
     unplanned |-> [MCGood EXCEPT !.screen = "none"],
     elsewhere |-> [MCGood EXCEPT !.screen = "other datasets"],
     leak |-> [MCGood EXCEPT !.data.labels = {[decision |-> 1, end |-> 2, available |-> 1]}],
     stale |-> [MCGood EXCEPT !.data.manifests = {[CHOOSE m \in @ : TRUE EXCEPT !.quality = "WARN"]}],
     ruled |-> [MCGood EXCEPT !.rules[3] = <<"undefined">>],
     unseen |-> [MCGood EXCEPT !.basis.basis = "EMPIRICAL"],
     lowered |-> [MCGood EXCEPT !.proxy.minimum = 1, !.proxy.samples = [i \in {2} |-> @[i]],
                                !.proxy.benchmarks = [i \in {2} |-> @[i]], !.proxy.capacity = [i \in {2} |-> @[i]]],
     losing |-> [MCGood EXCEPT !.proxy.samples[2].gross = 1],
     crowded |-> [MCGood EXCEPT !.proxy.capacity[1].executable = 1],
     gapped |-> [MCGood EXCEPT !.replay.maxGap = 1],
     hindsight |-> [MCGood EXCEPT !.replay.tape[1].feeKnown = 2]]
MCSnapshots == DOMAIN MCManifest

MCPlan == [s \in Strategies |-> [family |-> IF s = 3 THEN "f2" ELSE "f1", config |-> "c1"]]
MCContent == [s \in Strategies |-> IF s = 3 THEN 1 ELSE s]
MCEntries == {[status |-> "DEVELOPMENT", material |-> TRUE, dev |-> {"e1"}],
              [status |-> "APPROVED", material |-> FALSE, dev |-> {"e1"}]}

Quiet == relVars = <<[i \in Incidents |-> NoIncident],
                     [defined |-> FALSE, samples |-> [t \in Times |-> "none"],
                      windows |-> [t \in Times |-> "NONE"], remediated |-> {}, frozen |-> FALSE]>>
NoGovernance ==
    policies = [v \in Versions |-> "NONE"] /\ now = 1 /\ \A p \in Proposals : proposals[p] = NoProposal
NoResearch == Registered = {}
NoModels == \A m \in Models : models[m] = NoModel

Ripe ==
    \/ \E p \in Proposals : \/ proposals[p].status = "PROMOTED"
                            \/ proposals[p].class = "GREEN" /\ _requirements_met(proposals[p])
                                                            /\ OwnerHadHisDay(proposals[p])
                            \/ proposals[p].class = "RED" /\ _requirements_met(proposals[p])
                                                          /\ proposals[p].decision = "APPROVE"
    \/ /\ \E e \in executions : /\ e.version = candidates[e.strategy].version /\ e.report.checks
                               /\ e.gate \in {0, MaxGate} /\ e.snapshot = "good"
       /\ Registered = {1}
    \/ \E m \in Models : models[m].challenged # {} /\ models[m].links \subseteq Evidence \X {"VALIDATION"}

\* Policy 1 is first, policy 2 arrives with a promotion; any pinned snapshot but the
\* one that can be current is stale for ever.  A proposal collects only
\* what its class looks at: GREEN passing tests and the owner's notice, RED a
\* canary, a second review, a synthesis and the approval, on one day, real money nothing.
GovernanceBound ==
    /\ policies[1] # "DRAFT"
    /\ policies[2] # "NONE" => /\ policies[1] # "NONE"
                               /\ \E p \in Proposals : proposals[p].status \in {"PROMOTED", "STALE_APPROVAL", "CLASSIFIED"}
    /\ \A p \in Proposals : proposals[p].status # "NONE" => proposals[p].snapshot = [policy |-> 1, known |-> {}]
    /\ \A p \in Proposals :
        CASE proposals[p].realMoney -> proposals[p].lifecycle = NoLifecycle
          [] proposals[p].declared = "RED" -> ~proposals[p].queued /\ now = 1
          [] OTHER -> /\ proposals[p].synthesis = "none" /\ proposals[p].decision # "APPROVE"
                      /\ proposals[p].reviews.n < 2 /\ proposals[p].lifecycle.phases \in {{}, {"tests"}}

Second == {"second", "second0"}

\* Parents are older.  Either the holdout is queried and no gate is tried, or the
\* strategies 1 and 2 of one configuration are at the gates: 1 alone beyond gate 1,
\* with the defects that show there and, after a decision, a second snapshot; 3, of
\* the content of 1, may be registered beside it.
ResearchBound ==
    /\ \A s \in Registered : \A p \in objects[s] : p < s
    /\ \/ /\ snapshots = {}
          /\ \A t \in trials : t.retry => t.strategy = 1
       \/ /\ holdout.queries = 0 /\ ({2, 3} \cap Registered # {} => 1 \in Registered)
          /\ 3 \in Registered => /\ 2 \notin Registered /\ objects[3] = {} /\ snapshots \subseteq {"good"}
                                 /\ candidates[1].gate <= 1 /\ invalidated = {}
          /\ \A t \in trials : ~t.retry /\ t.family = "f1"
          /\ \A n \in snapshots : objects[Manifest[n].candidate] # None
          /\ Cardinality(snapshots \cap Second) <= 1
          /\ Cardinality(snapshots \ (Second \cup {"again"})) <= 1
          /\ ("again" \in snapshots \/ invalidated # {}) => decisions[1] # <<>>
          /\ candidates[2].version <= 2 /\ invalidated \subseteq {"good"}
          /\ 2 \in Registered => /\ candidates[1].gate <= 1 /\ candidates[1].version <= 4
                                 /\ snapshots \subseteq Second \cup {"good"} /\ invalidated = {}

Bound ==
    /\ GovernanceBound /\ ResearchBound
    /\ Quiet \/ Ripe
    /\ sli.defined => \A i \in Incidents : incidents[i] = NoIncident

\* Next, with one of the consumers in a behaviour.
OneConsumer ==
    \/ Ripe /\ ReliabilityNext /\ UNCHANGED <<govVars, evalVars, models>>
    \/ NoResearch /\ NoModels /\ GovernanceNext /\ UNCHANGED <<evalVars, models>>
    \/ NoGovernance /\ NoModels /\ EvaluationNext /\ UNCHANGED <<govVars, models>>
    \/ NoGovernance /\ NoResearch /\ ModelRiskNext /\ UNCHANGED <<govVars, evalVars>>

MCSpec == Init /\ [][OneConsumer]_vars
===============================================================================
