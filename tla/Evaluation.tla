------------------------------- MODULE Evaluation -------------------------------
(* Research objects, trials, the sealed holdout and the evaluation gates         *)
(* (src/liki/research.py, evaluation.py, verification.py and the G1 screen of    *)
(* early_gate_checks.py; the other reports are in GateReports).  All operations  *)
(* hold one advisory lock, so each is one step.  Researchers and evaluators are  *)
(* different roles, so that nobody judges their own candidate is left to them.   *)
EXTENDS Reliability, GateReports, SequencesExt

CONSTANTS Strategies,   \* research objects that are strategy versions
          Plan,         \* Plan[s]: [family, config] of the pre-registered G1 plan
          Content,      \* Content[s]: content of the artifact of s
          Families,     \* trial families
          Configs,      \* semantic configurations of trials
          Allowed,      \* allowed_family_ids of the holdout
          Budget,       \* query_budget of the holdout
          Snapshots,    \* evaluation snapshot ids
          Manifest,     \* Manifest[n]: the candidate of snapshot n, what it pins for the gates, its metric rules
          MaxGate,      \* bound: the last gate; this build's verifier reaches gate 5
          MaxVersion,   \* bound: state version of a candidate
          None

\* How a metric stands to the bounds of a MetricRule.
Standing == {"in", "near", "out", "undefined"}

ASSUME EvaluationAssumption ==
    /\ Plan \in [Strategies -> [family: Families, config: Configs]] /\ Allowed \subseteq Families
    /\ Budget \in Nat /\ MaxGate \in 0..5 /\ MaxVersion \in Nat /\ None \notin Strategies /\ None \notin Snapshots
    /\ \A n \in Snapshots : /\ Manifest[n].candidate \in Strategies /\ Manifest[n].rules \in [0..5 -> Seq(Standing)]
                            /\ Parsed(Manifest[n])

VARIABLES objects,       \* research_objects with their lineage_edges: strategy -> parents, or None
          trials,        \* trial_events
          holdout,       \* holdout_query_events and the counter of holdout_policies
          contaminated,  \* descendants in memory_contamination_edges with tag saw_sealed_category
          snapshots,     \* evaluation_snapshots
          invalidated,   \* snapshot_invalidations
          candidates,    \* aggregate "candidate" of each strategy
          executions,    \* verifier_executions
          decisions,     \* gate_decisions, by strategy
          cooling        \* strategies whose failure is younger than the cooldown

researchVars == <<objects, trials, holdout, contaminated>>
gateVars == <<snapshots, invalidated, candidates, executions, decisions, cooling>>
evalVars == <<researchVars, gateVars>>

Trial == [strategy: Strategies, family: Families, config: Configs, retry: BOOLEAN]
Exposure == [strategy: Strategies, family: Families]
Terminal == {"FAILED", "BLOCKED", "BORDERLINE_FRONTIER"}

NoCandidate == [version |-> 0, snapshot |-> None, gate |-> -1, status |-> "IDEA"]

EvaluationTypeOK ==
    /\ objects \in [Strategies -> (SUBSET Strategies) \cup {None}]
    /\ trials \subseteq Trial
    /\ holdout.exposed \subseteq Exposure /\ holdout.queries \in 0..Budget
    /\ contaminated \subseteq Strategies
    /\ snapshots \subseteq Snapshots /\ invalidated \subseteq snapshots
    /\ candidates \in [Strategies -> [version: 0..MaxVersion, snapshot: Snapshots \cup {None},
                                      gate: -1..MaxGate, status: Terminal \cup {"IDEA", "PASSED"}]]
    /\ \A e \in executions : /\ e.strategy \in Strategies /\ e.snapshot \in Snapshots
                             /\ e.gate \in 0..MaxGate /\ e.version \in 0..MaxVersion
    /\ \A s \in Strategies : Len(decisions[s]) <= MaxVersion
    /\ cooling \subseteq Strategies

EvaluationInit ==
    /\ objects = [s \in Strategies |-> None]
    /\ trials = {} /\ contaminated = {}
    /\ holdout = [queries |-> 0, exposed |-> {}]
    /\ snapshots = {} /\ invalidated = {}
    /\ candidates = [s \in Strategies |-> NoCandidate]
    /\ executions = {} /\ cooling = {}
    /\ decisions = [s \in Strategies |-> <<>>]

-------------------------------------------------------------------------------
(* Lineage *)

Registered == {s \in Strategies : objects[s] # None}

\* s and everything it descends from, the fixpoint of the recursive queries over
\* lineage_edges: the least set with s that holds the parents of its members.
HoldsParents(S) == \A x \in S \cap Registered : objects[x] \subseteq S

Ancestry(s) ==
    {x \in Strategies : \A S \in SUBSET Strategies : s \in S /\ HoldsParents(S) => x \in S}

Descendants(s) == {d \in Registered : s \in Ancestry(d)}

\* A new object inherits the contamination of its parents.
register(s, parents) ==
    /\ objects[s] = None /\ parents \subseteq Registered
    /\ objects' = [objects EXCEPT ![s] = parents]
    /\ contaminated' = contaminated \cup (IF parents \cap contaminated # {} THEN {s} ELSE {})
    /\ UNCHANGED <<trials, holdout, gateVars, relVars>>

\* An infrastructure retry repeats a recorded trial exactly.
trial(t) ==
    /\ objects[t.strategy] # None /\ t \notin trials
    /\ t.retry => [t EXCEPT !.retry = FALSE] \in trials
    /\ trials' = trials \cup {t}
    /\ UNCHANGED <<objects, holdout, contaminated, gateVars, relVars>>

-------------------------------------------------------------------------------
(* The sealed holdout *)

ExposedRelative_Parents(s) ==   \* variant: parents only
    \E x \in holdout.exposed : ({s} \cup objects[s]) \cap ({x.strategy} \cup objects[x.strategy]) # {}

\* An exposed strategy shares an ancestor with s.
ExposedRelative(s) == \E x \in holdout.exposed : Ancestry(s) \cap Ancestry(x.strategy) # {}

sealed_result(s, family) ==
    /\ \A x \in holdout.exposed : x.strategy # s     \* a second query returns the first answer
    /\ objects[s] # None /\ family \in Allowed /\ holdout.queries < Budget
    /\ \E t \in trials : t.strategy = s /\ t.family = family /\ ~t.retry
    /\ \A x \in holdout.exposed : x.family # family
    /\ ~ExposedRelative(s)
    /\ holdout' = [queries |-> holdout.queries + 1,
                   exposed |-> holdout.exposed \cup {[strategy |-> s, family |-> family]}]
    /\ contaminated' = contaminated \cup Descendants(s)
    /\ UNCHANGED <<objects, trials, gateVars, relVars>>

-------------------------------------------------------------------------------
(* Snapshots *)

snapshot(n) ==
    /\ n \notin snapshots
    /\ snapshots' = snapshots \cup {n}
    /\ UNCHANGED <<researchVars, invalidated, candidates, executions, decisions, cooling, relVars>>

\* Rows of snapshot_invalidations are written by operators.
Invalidate(n) ==
    /\ n \in snapshots \ invalidated
    /\ invalidated' = invalidated \cup {n}
    /\ UNCHANGED <<researchVars, snapshots, candidates, executions, decisions, cooling, relVars>>

\* The snapshot stands, and s is the registered object of its candidate artifact.
Pinned(n, s) == n \in snapshots \ invalidated /\ s = Manifest[n].candidate /\ objects[s] # None

\* Only a blocked dependency re-enters, from the start and on another snapshot.
reenter(s, n) ==
    /\ candidates[s].status = "BLOCKED" /\ Pinned(n, s) /\ candidates[s].snapshot # n
    /\ candidates[s].version < MaxVersion
    /\ candidates' = [candidates EXCEPT ![s] = [version |-> @.version + 1, snapshot |-> n,
                                                gate |-> -1, status |-> "IDEA"]]
    /\ UNCHANGED <<researchVars, snapshots, invalidated, executions, decisions, cooling, relVars>>

-------------------------------------------------------------------------------
(* The verifier *)

\* _gate_one: the family screen, read from the database as it is now.
Screen(s) ==
    LET plan == Plan[s]
        twins == {x \in Registered \ {s} : Content[x] = Content[s]}
        equivalent == {t \in trials : t.config = plan.config /\ t.strategy # s /\ ~t.retry}
        family == {t \in trials : t.strategy \in Ancestry(s) \/ (t.family = plan.family /\ t.strategy # s)}
        failed == {x \in {t.strategy : t \in family \cup equivalent} \cup twins : candidates[x].status = "FAILED"}
        hard == {x \in failed : Last(decisions[x]).report.hard}
    IN  [notDuplicate |-> twins = {} /\ equivalent = {},
         declared |-> \E t \in trials : t = [strategy |-> s, family |-> plan.family, config |-> plan.config,
                                             retry |-> FALSE],
         cooled |-> failed \cap cooling = {}, noKnownInvalidity |-> hard = {},
         counts |-> <<Cardinality(family), Cardinality(equivalent), Cardinality(failed), twins # {}>>]

Clear(screen) == screen.notDuplicate /\ screen.declared /\ screen.cooled /\ screen.noKnownInvalidity

\* The plan of gate 1 may be missing, or name other datasets than the snapshot.
ScreenReport(screen, plan) ==
    LET other == plan = "other datasets"
    IN  IF plan = "none" THEN NoPlan
        ELSE Report(Clear(screen) /\ ~other, ~screen.noKnownInvalidity,
                    \/ ~screen.notDuplicate /\ screen.noKnownInvalidity
                    \/ ~screen.declared \/ other)

Undecided(s, n, g) ==
    /\ candidates[s].version > 0 => candidates[s].snapshot = n
    /\ g = candidates[s].gate + 1 /\ candidates[s].status \notin Terminal

\* The report is signed together with the candidate's state version.
execute(s, n, g) ==
    /\ Pinned(n, s) /\ Undecided(s, n, g)
    /\ executions' = executions \cup
           {[strategy |-> s, snapshot |-> n, gate |-> g, version |-> candidates[s].version,
             report |-> IF g = 1 THEN ScreenReport(Screen(s), Manifest[n].screen) ELSE GateReport(Manifest[n], g),
             screen |-> IF g = 1 THEN Screen(s) ELSE None]}
    /\ UNCHANGED <<researchVars, snapshots, invalidated, candidates, decisions, cooling, relVars>>

\* verify_execution: the evidence was executed for exactly this request, and the
\* family screen still says the same.
Verified_Unscreened(e, s, n, g) ==   \* variant: the screen is not read again
    e.strategy = s /\ e.snapshot = n /\ e.gate = g /\ e.version = candidates[s].version

Verified(e, s, n, g) ==
    /\ e.strategy = s /\ e.snapshot = n /\ e.gate = g /\ e.version = candidates[s].version
    /\ g = 1 /\ Manifest[n].screen # "none" => e.screen = Screen(s)

-------------------------------------------------------------------------------
(* The gates *)

\* One numeric rule after the other: how the metric stands to the rule's bounds.
ApplyRule(decision, standing) ==
    IF decision = "FAIL" THEN "FAIL"
    ELSE IF standing = "undefined" THEN "BLOCKED"
    ELSE IF decision = "PASS" /\ standing = "out" THEN "FAIL"
    ELSE IF decision = "PASS" /\ standing = "near" THEN "BORDERLINE"
    ELSE decision

\* bound: the request's metrics are those of the report.  The reports of the gates
\* 0..5 carry no metric, so a rule there finds its metric undefined.
Decision(report, rules, bound) ==
    LET checked == IF report.hard THEN "FAIL"
                   ELSE IF report.unknown \/ ~report.checks THEN "BLOCKED" ELSE "PASS"
        start == IF checked # "FAIL" /\ ~bound THEN "BLOCKED" ELSE checked
    IN  FoldLeft(ApplyRule, start, rules)

\* freeze_gate_promotion repeats promotion_blockers for a PASS.
gate(s, n, g, e, bound) ==
    LET decision == Decision(e.report, Manifest[n].rules[g], bound)
        cand == candidates[s]
    IN  /\ Pinned(n, s) /\ ~Frozen
        /\ cand.version < MaxVersion
        /\ Undecided(s, n, g)
        /\ Verified(e, s, n, g)
        /\ candidates' = [candidates EXCEPT ![s] =
               [version |-> cand.version + 1, snapshot |-> n, gate |-> g,
                status |-> CASE decision = "PASS" -> "PASSED"
                             [] decision = "FAIL" -> "FAILED"
                             [] decision = "BLOCKED" -> "BLOCKED"
                             [] OTHER -> "BORDERLINE_FRONTIER"]]
        /\ decisions' = [decisions EXCEPT ![s] = Append(@,
               [gate |-> g, snapshot |-> n, version |-> cand.version, decision |-> decision,
                executedAt |-> e.version, report |-> e.report, clear |-> g = 1 => Clear(Screen(s))])]
        /\ cooling' = IF decision = "FAIL" THEN cooling \cup {s} ELSE cooling
        /\ UNCHANGED <<researchVars, snapshots, invalidated, executions, relVars>>

CooldownPasses(s) ==
    /\ s \in cooling
    /\ cooling' = cooling \ {s}
    /\ UNCHANGED <<researchVars, snapshots, invalidated, candidates, executions, decisions, relVars>>

EvaluationNext ==
    \/ \E s \in Strategies :
        \/ \E parents \in SUBSET Strategies : register(s, parents)
        \/ \E family \in Families : sealed_result(s, family)
        \/ CooldownPasses(s)
        \/ \E n \in Snapshots :
            \/ reenter(s, n)
            \/ \E g \in 0..MaxGate :
                \/ execute(s, n, g)
                \/ \E e \in executions, bound \in BOOLEAN : gate(s, n, g, e, bound)
    \/ \E t \in Trial : trial(t)
    \/ \E n \in Snapshots : snapshot(n) \/ Invalidate(n)

-------------------------------------------------------------------------------
(* A candidate that passed gate g passed the gates 0..g one after the other, on   *)
(* the snapshot it stands on, each on evidence executed in the very state it was  *)
(* decided in; no relative had failed and no equivalent experiment was on record  *)
(* when it passed the family screen; the inputs its snapshot pins are sound; and  *)
(* of two candidates with one semantic configuration or one content only one      *)
(* passes the screen, however their registrations, trials and gates interleave.   *)
PassedScreen(s) == candidates[s].gate >= 1 /\ (candidates[s].gate = 1 => candidates[s].status = "PASSED")

\* Decision d lets a candidate on snapshot n, in its state version v, pass gate k.
PassesAt(d, k, n, v) ==
    /\ d.gate = k /\ d.decision = "PASS" /\ d.snapshot = n /\ d.version = v /\ d.executedAt = d.version
    /\ d.clear /\ SoundAt(Manifest[d.snapshot], k)

\* The last decisions are passes of the gates 0..cand.gate, one after the other.
GatesPassed(cand, history) ==
    \A k \in 0..cand.gate : PassesAt(history[Len(history) - cand.gate + k], k, cand.snapshot,
                                     cand.version - cand.gate - 1 + k)

\* PassesEarned: Evaluator.gate, reenter and verify_execution over any interleaving.
PassesEarned ==
    /\ \A s \in Strategies : candidates[s].status = "PASSED" => GatesPassed(candidates[s], decisions[s])
    /\ \A s, t \in Strategies :
        s # t /\ (Plan[s].config = Plan[t].config \/ Content[s] = Content[t])
            => ~(PassedScreen(s) /\ PassedScreen(t))

(* Strategies shown to the sealed holdout have different families and no common   *)
(* ancestor, there are no more of them than the budget, and whatever descends     *)
(* from one is marked, whether it was registered before the query or after.       *)
SealedOnce ==
    /\ \A x, y \in holdout.exposed :
        x # y => x.family # y.family /\ Ancestry(x.strategy) \cap Ancestry(y.strategy) = {}
    /\ Cardinality(holdout.exposed) = holdout.queries
    /\ \A x \in holdout.exposed : Descendants(x.strategy) \subseteq contaminated
===============================================================================
