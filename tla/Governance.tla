------------------------------- MODULE Governance -------------------------------
(* Policies and governance proposals (src/liki/governance_service.py,            *)
(* governance/domain.py, governance/policy.py).  Every operation holds one       *)
(* advisory lock and its caller names the proposal's current state version, so   *)
(* each is one step.  Provenance checks of artifacts are inputs that are right.  *)
(* Time is counted in days: an owner has one day to veto after the delivery.     *)
EXTENDS Reliability

CONSTANTS Proposals,          \* proposal ids
          Relevant,           \* the incidents that touch the proposals' modules
          Versions,           \* versions of the one policy the proposals are about
          Floor,              \* Floor[v]: the class floor_for gives them under version v
          RequiredReviews,    \* reviews per class: GREEN=3, AMBER=5, RED=7 in the code
          RequiredAdversarial,\* adversarial audits per class: 0, 1 and 2 in the code
          ReviewKinds,        \* the reviews tried, see ReviewRecord
          Drafts,             \* what the author declares: [class, realMoney, status]
          LifecyclePackages,  \* the lifecycle packages tried, by the phases with checks
          Syntheses,          \* the syntheses tried: by the "own" author, "separate", "disclosed"
          ChangeSets,         \* the change sets tried: "none", one that "fits", an "other" one
          MaxDay,             \* bound: the last day
          MaxReviews          \* bound: reviews per proposal

VARIABLES policies,    \* policy_versions: version -> status
          proposals,   \* governance_proposals with their reviews and events
          now          \* the day

govVars == <<policies, proposals, now>>

Class == {"GREEN", "AMBER", "RED"}
Rank(class) == CASE class = "GREEN" -> 0 [] class = "AMBER" -> 1 [] OTHER -> 2
Higher(c, d) == IF Rank(c) >= Rank(d) THEN c ELSE d

\* 0 stands for a time or a version that is not there.
Day == 0..MaxDay

\* What _check_unique_independence and _requirements_met look at in the reviews.
ReviewRecord == [n: 0..MaxReviews, adversarial: 0..MaxReviews,
                 padded: BOOLEAN, correlated: BOOLEAN, objection: BOOLEAN]
NoReviews == [n |-> 0, adversarial |-> 0, padded |-> FALSE, correlated |-> FALSE, objection |-> FALSE]

\* LifecycleEvidence: the phases with checks, whether a check failed and when the
\* checks ran, all on one day.  Its snapshot_hash is the record itself.
Phases == {"replay", "tests", "shadow", "canary"}
Lifecycle == [phases: SUBSET Phases, fail: BOOLEAN, at: Day]
NoLifecycle == [phases |-> {}, fail |-> FALSE, at |-> 0]

\* OwnerDelivery; "since" is history: the first delivery in a row of this evidence.
NoDelivery == [at |-> 0, lifecycle |-> NoLifecycle, since |-> 0]

ProposalStatus == {"PROPOSED", "CLASSIFIED", "REVIEWING", "REPLAYED", "TESTED", "SHADOW", "CANARY", "READY",
                   "PROMOTED", "FROZEN", "STALE_APPROVAL", "VETOED", "REJECTED"}

ASSUME GovernanceAssumption ==
    /\ Relevant \subseteq Incidents /\ Versions \subseteq Nat \ {0} /\ MaxDay \in Nat \ {0}
    /\ Floor \in [Versions -> Class]
    /\ {RequiredReviews, RequiredAdversarial} \subseteq [Class -> Nat]
    /\ ReviewKinds \subseteq [adversarial: {0, 1}, padded: BOOLEAN, correlated: BOOLEAN, objection: BOOLEAN]
    /\ Drafts \subseteq [class: Class, realMoney: BOOLEAN, status: ProposalStatus]
    /\ LifecyclePackages \subseteq (SUBSET Phases) \ {{}} /\ Syntheses \subseteq {"own", "separate", "disclosed"}
    /\ MaxReviews \in Nat

NoProposal ==
    [status |-> "NONE", declared |-> "GREEN", realMoney |-> FALSE,
     snapshot |-> [policy |-> 0, known |-> {}], class |-> "none", classVersion |-> 0,
     reviews |-> NoReviews, synthesis |-> "none", lifecycle |-> NoLifecycle, failedAt |-> 0,
     queued |-> FALSE, received |-> 0, overtaken |-> FALSE,
     delivery |-> NoDelivery, told |-> FALSE, decision |-> "none"]

GovernanceTypeOK ==
    /\ policies \in [Versions -> {"NONE", "DRAFT", "EFFECTIVE", "RETIRED"}]
    /\ now \in 1..MaxDay
    /\ proposals \in [Proposals ->
           [status: ProposalStatus \cup {"NONE"}, declared: Class, realMoney: BOOLEAN,
            snapshot: [policy: Versions \cup {0}, known: SUBSET Incidents],
            class: Class \cup {"none"}, classVersion: Versions \cup {0}, reviews: ReviewRecord,
            synthesis: {"none", "own", "separate", "disclosed"}, lifecycle: Lifecycle, failedAt: Day,
            queued: BOOLEAN, received: Day, overtaken: BOOLEAN,
            delivery: [at: Day, lifecycle: Lifecycle, since: Day], told: BOOLEAN, decision: {"none", "APPROVE", "VETO"}]]

GovernanceInit ==
    /\ policies = [v \in Versions |-> "NONE"]
    /\ proposals = [p \in Proposals |-> NoProposal]
    /\ now = 1

EffectiveVersions == {v \in Versions : policies[v] = "EFFECTIVE"}
Effective == IF EffectiveVersions = {} THEN 0 ELSE CHOOSE v \in EffectiveVersions : TRUE

\* The trigger freeze_governance_promotion looks at the row being written.
Guarded(row) == row.status = "PROMOTED" => ~Frozen

\* One operation on a proposal writes its row.
Update(p, row) ==
    /\ proposals[p].status # "NONE"
    /\ Guarded(row)
    /\ proposals' = [proposals EXCEPT ![p] = row]
    /\ UNCHANGED <<policies, now, relVars>>

-------------------------------------------------------------------------------
(* Policies *)

\* Only the first version becomes effective without a proposal.
register_policy(v, effective) ==
    /\ policies[v] = "NONE"
    /\ effective => EffectiveVersions = {} /\ ~Frozen
    /\ policies' = [policies EXCEPT ![v] = IF effective THEN "EFFECTIVE" ELSE "DRAFT"]
    /\ UNCHANGED <<proposals, now, relVars>>

\* Retire what is effective, make v effective.
Replace(v) == policies' = [w \in Versions |-> CASE w = v -> "EFFECTIVE"
                                                [] policies[w] = "EFFECTIVE" -> "RETIRED"
                                                [] OTHER -> policies[w]]

\* The previously effective policy is the authority: the proposal was classified
\* under it.  The promotion is not evaluated again.
activate_policy(v, p) ==
    /\ Effective # 0 /\ policies[v] = "DRAFT"
    /\ proposals[p].status = "PROMOTED" /\ proposals[p].class # "none"
    /\ proposals[p].classVersion = Effective
    /\ ~Frozen
    /\ Replace(v)
    /\ UNCHANGED <<proposals, now, relVars>>

rollback_policy(v) ==
    /\ Effective # 0 /\ policies[v] = "RETIRED"
    /\ ~Frozen
    /\ Replace(v)
    /\ UNCHANGED <<proposals, now, relVars>>

-------------------------------------------------------------------------------
(* The proposal and the evidence about it *)

\* Unresolved incidents that touch the proposal.
OpenRelevant == {i \in Relevant : incidents[i].status \in Unresolved}

_current_snapshot == [policy |-> Effective, known |-> OpenRelevant]

\* The author pins any snapshot; it is compared with the current one at evaluation.
propose(p, draft, pinned) ==
    /\ proposals[p].status = "NONE"
    /\ Guarded(draft)
    /\ proposals' = [proposals EXCEPT ![p] =
                        [NoProposal EXCEPT !.status = draft.status, !.declared = draft.class,
                                           !.realMoney = draft.realMoney, !.snapshot = pinned]]
    /\ UNCHANGED <<policies, now, relVars>>

\* A classifier may only escalate the floor of the protected controls.
classify_proposal(proposal, v) ==
    Higher(proposal.declared, IF proposal.realMoney THEN "RED" ELSE Floor[v])

classify(p) ==
    /\ Effective # 0
    /\ Update(p, [proposals[p] EXCEPT !.class = classify_proposal(proposals[p], Effective),
                                      !.classVersion = Effective, !.status = "CLASSIFIED"])

record_review(p, kind) ==
    LET r == proposals[p].reviews
    IN  /\ r.n < MaxReviews
        /\ Update(p, [proposals[p] EXCEPT !.status = "REVIEWING",
                !.reviews = [n |-> r.n + 1, adversarial |-> r.adversarial + kind.adversarial,
                             padded |-> r.padded \/ (kind.padded /\ r.n > 0),
                             correlated |-> r.correlated \/ (kind.correlated /\ r.n > 0),
                             objection |-> r.objection \/ kind.objection]])

\* After a failure that postdates the owner's delivery, only evidence that is
\* newer than the failure is taken.
_requires_fresh_revalidation(proposal, lifecycle) ==
    /\ proposal.delivery # NoDelivery
    /\ proposal.failedAt >= proposal.delivery.at
    /\ lifecycle.at <= proposal.failedAt

\* variant: the name of the last phase is taken for the status
LifecycleStatus_Phase(lifecycle) ==
    IF lifecycle.fail THEN "FROZEN"
    ELSE IF "canary" \in lifecycle.phases THEN "CANARY"
    ELSE IF "shadow" \in lifecycle.phases THEN "SHADOW"
    ELSE IF "tests" \in lifecycle.phases THEN "TESTS" ELSE "REPLAY"

LifecycleStatus(lifecycle) ==
    IF lifecycle.fail THEN "FROZEN"
    ELSE IF "canary" \in lifecycle.phases THEN "CANARY"
    ELSE IF "shadow" \in lifecycle.phases THEN "SHADOW"
    ELSE IF "tests" \in lifecycle.phases THEN "TESTED" ELSE "REPLAYED"

\* A new lifecycle event: the notices sent for the one before no longer count.
Recorded(proposal, lifecycle) ==
    [proposal EXCEPT !.status = LifecycleStatus(lifecycle), !.lifecycle = lifecycle,
                     !.failedAt = IF lifecycle.fail /\ lifecycle.at > @ THEN lifecycle.at ELSE @,
                     !.queued = FALSE, !.received = 0, !.overtaken = FALSE]

\* variant: old evidence is taken after a failure
record_lifecycle_Undated(p, lifecycle) == Update(p, Recorded(proposals[p], lifecycle))

record_lifecycle(p, lifecycle) ==
    /\ ~lifecycle.fail => ~_requires_fresh_revalidation(proposals[p], lifecycle)
    /\ Update(p, Recorded(proposals[p], lifecycle))

record_synthesis(p, kind) ==
    Update(p, [proposals[p] EXCEPT !.synthesis = kind, !.status = "CANARY"])

-------------------------------------------------------------------------------
(* The owner *)

\* Checks pass: what the owner's notice and its delivery both ask for.
ChecksPass(proposal) == "tests" \in proposal.lifecycle.phases /\ ~proposal.lifecycle.fail

\* A second notice for one lifecycle event is the first one, but the evidence
\* counts as complete only now (complete_evidence_at): a receipt or a recorded
\* delivery of before is overtaken.
queue_owner_notification(p) ==
    /\ ChecksPass(proposals[p])
    /\ Update(p, [proposals[p] EXCEPT !.queued = TRUE, !.overtaken = proposals[p].received # 0, !.told = FALSE])

\* The outbox delivers the notice (Outbox.tla).
NoticeReceived(p) ==
    /\ proposals[p].queued /\ proposals[p].received = 0
    /\ proposals' = [proposals EXCEPT ![p].received = now]
    /\ UNCHANGED <<policies, now, relVars>>

record_owner_delivery(p) ==
    LET proposal == proposals[p]
    IN  /\ ChecksPass(proposal)
        /\ proposal.queued /\ proposal.received # 0 /\ ~proposal.overtaken
        /\ Update(p, [proposal EXCEPT !.told = TRUE,
                !.delivery = [at |-> proposal.received, lifecycle |-> proposal.lifecycle,
                              since |-> IF @.lifecycle = proposal.lifecycle THEN @.since ELSE proposal.received]])

\* One decision, for good.
decide(p, decision) ==
    /\ proposals[p].decision = "none"
    /\ Update(p, [proposals[p] EXCEPT !.decision = decision,
                                      !.status = IF decision = "VETO" THEN "VETOED" ELSE @])

-------------------------------------------------------------------------------
(* Promotion *)

_requirements_met(proposal) ==
    LET r == proposal.reviews
    IN  /\ r.n >= RequiredReviews[proposal.class]
        /\ r.correlated => proposal.synthesis = "disclosed"
        /\ ChecksPass(proposal)
        /\ proposal.class \in {"AMBER", "RED"} => /\ proposal.synthesis \in {"separate", "disclosed"}
                                                  /\ proposal.lifecycle.phases = Phases
        /\ r.adversarial >= RequiredAdversarial[proposal.class]
        /\ ~r.objection

\* The owner was told of exactly this evidence and had a day to veto.
OwnerHadHisDay(proposal) ==
    /\ proposal.delivery # NoDelivery
    /\ proposal.told
    /\ proposal.delivery.lifecycle = proposal.lifecycle
    /\ proposal.lifecycle.at <= proposal.delivery.at
    /\ now >= proposal.delivery.at + 1

\* changeSet: "none", or a recorded change set that does or does not fit.
evaluate_promotion(proposal, changeSet) ==
    IF proposal.status = "VETOED" \/ proposal.decision = "VETO" THEN "VETOED"
    ELSE IF proposal.realMoney THEN "REJECTED"
    ELSE IF OpenRelevant # {} THEN "FROZEN"
    ELSE IF proposal.snapshot # _current_snapshot \/ changeSet = "other" THEN "STALE_APPROVAL"
    ELSE IF proposal.reviews.padded THEN "REJECTED"
    ELSE IF /\ proposal.delivery # NoDelivery /\ proposal.lifecycle.fail
            /\ proposal.lifecycle.at >= proposal.delivery.at THEN "FROZEN"
    ELSE IF ~_requirements_met(proposal) THEN "REVIEWING"
    ELSE IF IF proposal.class = "RED" THEN proposal.decision = "APPROVE" ELSE OwnerHadHisDay(proposal)
         THEN "PROMOTED" ELSE "READY"

evaluate(p, changeSet) ==
    /\ proposals[p].class # "none" /\ Effective # 0
    /\ Update(p, [proposals[p] EXCEPT !.status = evaluate_promotion(proposals[p], changeSet)])

DayPasses ==
    /\ now < MaxDay
    /\ now' = now + 1
    /\ UNCHANGED <<policies, proposals, relVars>>

GovernanceNext ==
    \/ \E v \in Versions :
        \/ \E effective \in BOOLEAN : register_policy(v, effective)
        \/ \E p \in Proposals : activate_policy(v, p)
        \/ rollback_policy(v)
    \/ \E p \in Proposals :
        \/ \E draft \in Drafts, policy \in Versions \cup {0}, known \in SUBSET Relevant :
               propose(p, draft, [policy |-> policy, known |-> known])
        \/ classify(p) \/ queue_owner_notification(p) \/ NoticeReceived(p) \/ record_owner_delivery(p)
        \/ \E kind \in ReviewKinds : record_review(p, kind)
        \/ \E phases \in LifecyclePackages, fail \in BOOLEAN, at \in 1..now :
               record_lifecycle(p, [phases |-> phases, fail |-> fail, at |-> at])
        \/ \E kind \in Syntheses : record_synthesis(p, kind)
        \/ \E decision \in {"APPROVE", "VETO"} : decide(p, decision)
        \/ \E changeSet \in ChangeSets : evaluate(p, changeSet)
    \/ DayPasses

-------------------------------------------------------------------------------
(* A classified proposal stands PROMOTED only on what it was promoted for: no    *)
(* veto at any time, no real money, the reviews and checks of its class with     *)
(* nothing left open; and the owner's approval, or a day since the owner was     *)
(* first told of exactly this evidence and no failing check executed after the   *)
(* owner was last told.  Every operation that could take one of these away takes *)
(* PROMOTED away too.                                                            *)
Earned(proposal) ==
    /\ proposal.decision # "VETO" /\ ~proposal.realMoney /\ ~proposal.reviews.padded
    /\ _requirements_met(proposal)
    /\ \/ proposal.class = "RED" /\ proposal.decision = "APPROVE"
       \/ /\ proposal.class # "RED"
          /\ proposal.delivery.lifecycle = proposal.lifecycle
          /\ now >= proposal.delivery.since + 1
          /\ proposal.failedAt <= proposal.delivery.at

\* PromotionsEarned: every PROMOTED proposal is earned (GovernanceService.evaluate
\* and the recordings around it), and at most one policy version is effective.
PromotionsEarned ==
    /\ \A p \in Proposals : proposals[p].status = "PROMOTED" /\ proposals[p].class # "none"
                                => Earned(proposals[p])
    /\ Cardinality(EffectiveVersions) <= 1
===============================================================================
