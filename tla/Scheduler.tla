------------------------------- MODULE Scheduler -------------------------------
(***************************************************************************)
(* The task scheduler (liki/scheduler.py): campaigns and their budgets,    *)
(* tasks with parents and dependencies, runs, and the leases that decide   *)
(* whose result counts.                                                    *)
(*                                                                         *)
(* Every operation but heartbeat runs under the advisory lock, so its body *)
(* is one action.  Time is abstracted to what is compared with it: whether *)
(* a lease has expired, whether a failed task is still cooling down, and   *)
(* whether a campaign's horizon has passed.  finish() and recover() compare*)
(* with SQL now(), the START of their transaction, which may lie well      *)
(* before the moment they get the lock; claim() reads the wall clock after *)
(* it has the lock.                                                        *)
(***************************************************************************)
EXTENDS Integers, Sequences, FiniteSets, FiniteSetsExt

CONSTANTS
    Campaigns, Tasks,
    UsdBudget,          \* [Campaigns -> Nat], Campaign.usd_budget
    TaskSpec,           \* the Task contract submitted under each task id
    ClassLimits,        \* POLICY["class_limits"]
    ExplorationFloor,   \* POLICY["exploration_floor"] as <<numerator, denominator>>
    NoParent,
    MaxCalls            \* bound: finish() transactions open at the same time

Lanes == {"EXPLOIT", "ALTERNATIVE", "NOVELTY", "FALSIFICATION", "REPLICATION",
          "DATA_QA", "EXECUTION_QA", "SYSTEM_QA", "GOVERNANCE"}

ASSUME SchedulerConstants ==
    /\ UsdBudget \in [Campaigns -> Nat]
    /\ \A t \in Tasks :
          /\ TaskSpec[t].campaign \in Campaigns
          /\ TaskSpec[t].parent \in Tasks \cup {NoParent}
          /\ TaskSpec[t].budget_usd \in Nat
          /\ TaskSpec[t].max_retries \in Nat
          /\ TaskSpec[t].score \in Nat
          /\ TaskSpec[t].dependencies \subseteq Tasks
          /\ TaskSpec[t].independent_if_parent_fails \in BOOLEAN
    /\ \A k \in DOMAIN ClassLimits : ClassLimits[k] \in Nat
    /\ NoParent \notin Tasks
    /\ MaxCalls \in Nat \ {0}

VARIABLES
    campaigns,  \* declared, horizon passed, allocated_usd
    tasks,      \* rows of table tasks
    deps,       \* rows of task_dependencies: <<task_id, depends_on>>
    runs,       \* active_task_runs joined with their resource_leases
    calls       \* the finish() transactions workers have open

vars == <<campaigns, tasks, deps, runs, calls>>

-------------------------------------------------------------------------------
(* Rows.                                                                   *)

Dead == {"failed", "killed", "QUARANTINED"}
Settled == {"completed", "QUARANTINED"}

Exists(t) == tasks[t].status # "absent"

RunsOf(t) == {i \in DOMAIN runs : runs[i].task = t}

\* A lease counts for its class while it is neither released nor expired.
HeldLeases(k) == {i \in DOMAIN runs : /\ ~runs[i].released
                                      /\ ~runs[i].lease_expired
                                      /\ TaskSpec[runs[i].task].task_class = k}

Init ==
    /\ campaigns = [c \in Campaigns |-> [declared |-> FALSE, past |-> FALSE, allocated |-> 0]]
    /\ tasks = [t \in Tasks |-> [status |-> "absent", cooling |-> FALSE,
                                 child_allocated |-> 0, created |-> 0]]
    /\ deps = {}
    /\ runs = <<>>
    /\ calls = {}

-------------------------------------------------------------------------------
(* campaign and enqueue.                                                   *)

\* A second declaration replays the first; horizon_at must lie ahead.
campaign(c) ==
    /\ ~campaigns[c].declared
    /\ ~campaigns[c].past
    /\ campaigns' = [campaigns EXCEPT ![c].declared = TRUE]
    /\ UNCHANGED <<tasks, deps, runs, calls>>

\* The checks enqueue makes before it opens a transaction.
Admissible(s) ==
    /\ s.task_class \in DOMAIN ClassLimits
    /\ s.lane_class \in Lanes
    /\ s.voi_lower_bound > 0 \/ s.lane_class \in {"DATA_QA", "EXECUTION_QA", "SYSTEM_QA"}

\* A semantic duplicate in the campaign is answered with the existing task.
Duplicate(t) ==
    \E u \in Tasks : /\ Exists(u)
                     /\ TaskSpec[u].campaign = TaskSpec[t].campaign
                     /\ TaskSpec[u].semantic_hash = TaskSpec[t].semantic_hash

ParentAccepts_Alone(t) ==       \* variant: compares the child, not the sum
    LET s == TaskSpec[t] IN
    /\ Exists(s.parent)
    /\ TaskSpec[s.parent].campaign = s.campaign
    /\ tasks[s.parent].status \notin Dead
    /\ s.budget_usd <= TaskSpec[s.parent].budget_usd

ParentAccepts(t) ==
    LET s == TaskSpec[t] IN
    /\ Exists(s.parent)
    /\ TaskSpec[s.parent].campaign = s.campaign
    /\ tasks[s.parent].status \notin Dead
    /\ tasks[s.parent].child_allocated + s.budget_usd <= TaskSpec[s.parent].budget_usd

CampaignAccepts(t) ==
    LET s == TaskSpec[t] IN
    campaigns[s.campaign].allocated + s.budget_usd <= UsdBudget[s.campaign]

\* A child draws on its parent's budget, a root task on the campaign's.  A
\* dependency that is missing rolls the whole enqueue back.
enqueue(t) ==
    LET s == TaskSpec[t] IN
    /\ Admissible(s)
    /\ ~Exists(t)
    /\ ~Duplicate(t)
    /\ campaigns[s.campaign].declared /\ ~campaigns[s.campaign].past
    /\ IF s.parent = NoParent THEN CampaignAccepts(t) ELSE ParentAccepts(t)
    /\ \A d \in s.dependencies : d # t /\ Exists(d) /\ TaskSpec[d].campaign = s.campaign
    /\ campaigns' = IF s.parent = NoParent
                    THEN [campaigns EXCEPT ![s.campaign].allocated = @ + s.budget_usd]
                    ELSE campaigns
    /\ LET row == [status |-> "queued", cooling |-> FALSE, child_allocated |-> 0,
                   created |-> Cardinality({u \in Tasks : Exists(u)}) + 1]
       IN  tasks' = IF s.parent = NoParent
                    THEN [tasks EXCEPT ![t] = row]
                    ELSE [tasks EXCEPT ![t] = row,
                                       ![s.parent].child_allocated = @ + s.budget_usd]
    /\ deps' = deps \cup ({t} \X s.dependencies)
    /\ UNCHANGED <<runs, calls>>

-------------------------------------------------------------------------------
(* add_dependency.                                                         *)

\* The recursive query: everything d waits for, d itself included, is the
\* least set that holds d and is closed under depends_on.
Closed(S) == \A e \in deps : e[1] \in S => e[2] \in S
Awaits_Itself(d, t) == d = t    \* variant: edges already there are not followed
Awaits(d, t) == \A S \in SUBSET Tasks : (d \in S /\ Closed(S)) => t \in S

\* An edge that exists already has an operation key of its own: the repeated
\* call is refused by the event store.
add_dependency(t, d) ==
    /\ tasks[t].status = "queued"
    /\ Exists(d)
    /\ TaskSpec[t].campaign = TaskSpec[d].campaign
    /\ ~Awaits(d, t)
    /\ deps' = deps \cup {<<t, d>>}
    /\ UNCHANGED <<campaigns, tasks, runs, calls>>

-------------------------------------------------------------------------------
(* claim.                                                                  *)

DependenciesDone_Settled(t) ==  \* variant: a task given up counts as done
    \A e \in deps : e[1] = t => tasks[e[2]].status \in Settled
DependenciesDone(t) == \A e \in deps : e[1] = t => tasks[e[2]].status = "completed"

Candidates(k) ==
    {t \in Tasks :
        LET s == TaskSpec[t] IN
        /\ tasks[t].status \in {"queued", "hibernating"}
        /\ ~tasks[t].cooling
        /\ ~campaigns[s.campaign].past
        /\ s.task_class = k
        /\ DependenciesDone(t)
        /\ \/ s.parent = NoParent
           \/ s.independent_if_parent_fails
           \/ tasks[s.parent].status \notin Dead}

\* How many runs each lane has had; the table keeps finished runs.
LaneCount(lane) == Cardinality({i \in DOMAIN runs : TaskSpec[runs[i].task].lane_class = lane})

NoveltyDue ==
    LaneCount("NOVELTY") * ExplorationFloor[2] < ExplorationFloor[1] * (Len(runs) + 1)

InLane(C, lane) == {t \in C : TaskSpec[t].lane_class = lane}

\* Novelty while it is below its floor, then the first replication, come
\* before the ranking.
Protected(C) ==
    LET novel == IF NoveltyDue THEN InLane(C, "NOVELTY") ELSE {}
    IN  IF novel = {} /\ LaneCount("REPLICATION") = 0 THEN InLane(C, "REPLICATION") ELSE novel

\* Information per unit of budget first, then the older task.
Outranks(t, u) ==
    \/ TaskSpec[t].score > TaskSpec[u].score
    \/ TaskSpec[t].score = TaskSpec[u].score /\ tasks[t].created <= tasks[u].created

Selected(C) ==
    LET pool == IF Protected(C) # {} THEN Protected(C) ELSE C
    IN  CHOOSE t \in pool : \A u \in pool : Outranks(t, u)

\* Only the scheduler role claims.  retry_count is the number of earlier runs.
claim(k) ==
    /\ k \in DOMAIN ClassLimits
    /\ Cardinality(HeldLeases(k)) < ClassLimits[k]
    /\ Candidates(k) # {}
    /\ LET t == Selected(Candidates(k)) IN
       /\ tasks' = [tasks EXCEPT ![t].status = "running"]
       /\ runs' = Append(runs, [task |-> t, status |-> "running",
                                retry_count |-> Cardinality(RunsOf(t)),
                                lease_expired |-> FALSE, released |-> FALSE])
    /\ UNCHANGED <<campaigns, deps, calls>>

-------------------------------------------------------------------------------
(* finish.                                                                 *)

\* The worker that claimed run i, and so knows its fencing token, opens the
\* transaction; now() is fixed from here on.  A call for a lease that is
\* already released can only be refused and is left out.
FinishStart(i, result) ==
    /\ Cardinality(calls) < MaxCalls
    /\ ~runs[i].released
    /\ calls' = calls \cup {[run |-> i, result |-> result,
                              expired_at_start |-> runs[i].lease_expired]}
    /\ UNCHANGED <<campaigns, tasks, deps, runs>>

\* The row finish() selects: the lease of this run, not released, and not
\* expired at now().
OwnsLease_Reusable(q) == ~q.expired_at_start     \* variant: released is not looked at
OwnsLease(q) == ~runs[q.run].released /\ ~q.expired_at_start

Exhausted_OneMore(i) == runs[i].retry_count > TaskSpec[runs[i].task].max_retries   \* variant
Exhausted(i) == runs[i].retry_count >= TaskSpec[runs[i].task].max_retries

FinishStatus_NoRetry(q) == IF q.result = "artifact" THEN "completed" ELSE "failed"  \* variant
FinishStatus(q) ==
    IF q.result = "artifact" THEN "completed"
    ELSE IF Exhausted(q.run) THEN "QUARANTINED" ELSE "hibernating"

\* available_at moves with every finish; it is looked at for a hibernating
\* task only.
finish(q) ==
    /\ OwnsLease(q)
    /\ LET t == runs[q.run].task IN
       /\ tasks' = [tasks EXCEPT ![t].status = FinishStatus(q), ![t].cooling = FinishStatus(q) = "hibernating"]
       /\ runs' = [runs EXCEPT
             ![q.run].status = IF q.result = "artifact" THEN "completed" ELSE "failed",
             ![q.run].released = TRUE]
    /\ calls' = calls \ {q}
    /\ UNCHANGED <<campaigns, deps>>

\* STALE_LEASE, EXPECTED_ARTIFACT_MISSING, ARTIFACT_SCHEMA_MISMATCH, or the
\* worker dies before its commit.
FinishAborted(q) ==
    /\ calls' = calls \ {q}
    /\ UNCHANGED <<campaigns, tasks, deps, runs>>

-------------------------------------------------------------------------------
(* recover and the passing of time.                                        *)

ExpiredLeases == {i \in DOMAIN runs : ~runs[i].released /\ runs[i].lease_expired}

RecoveredStatus_Unchanged(i) == tasks[runs[i].task].status     \* variant: lease only
RecoveredStatus(i) == IF Exhausted(i) THEN "QUARANTINED" ELSE "queued"

\* seen: the leases that had expired when this transaction started.  All of
\* them are processed in the one transaction.
recover(seen) ==
    /\ seen # {}
    /\ seen \subseteq ExpiredLeases
    /\ tasks' = [t \in Tasks |->
          IF \E i \in seen : runs[i].task = t
          THEN LET i == CHOOSE j \in seen : runs[j].task = t
               IN  [tasks[t] EXCEPT !.status = RecoveredStatus(i)]
          ELSE tasks[t]]
    /\ runs' = [i \in DOMAIN runs |->
          IF i \in seen THEN [runs[i] EXCEPT !.status = "expired", !.released = TRUE]
          ELSE runs[i]]
    /\ UNCHANGED <<campaigns, deps, calls>>

\* expires_at passes.  heartbeat() records a time but never moves expires_at.
LeaseExpires(i) ==
    /\ ~runs[i].released
    /\ ~runs[i].lease_expired
    /\ runs' = [runs EXCEPT ![i].lease_expired = TRUE]
    /\ UNCHANGED <<campaigns, tasks, deps, calls>>

\* available_at passes.
CoolsDown(t) ==
    /\ tasks[t].cooling
    /\ tasks' = [tasks EXCEPT ![t].cooling = FALSE]
    /\ UNCHANGED <<campaigns, deps, runs, calls>>

HorizonPasses(c) ==
    /\ ~campaigns[c].past
    /\ campaigns' = [campaigns EXCEPT ![c].past = TRUE]
    /\ UNCHANGED <<tasks, deps, runs, calls>>

-------------------------------------------------------------------------------

Results == {"artifact", "failure"}

Next ==
    \/ \E c \in Campaigns : campaign(c) \/ HorizonPasses(c)
    \/ \E t \in Tasks : enqueue(t) \/ CoolsDown(t)
    \/ \E t, d \in Tasks : add_dependency(t, d)
    \/ \E k \in DOMAIN ClassLimits : claim(k)
    \/ \E i \in DOMAIN runs, result \in Results : FinishStart(i, result)
    \/ \E q \in calls : finish(q) \/ FinishAborted(q)
    \/ \E seen \in SUBSET ExpiredLeases : recover(seen)
    \/ \E i \in DOMAIN runs : LeaseExpires(i)

Spec == Init /\ [][Next]_vars

\* Workers keep polling claim, the recovery loop keeps running, time passes.
\* Nothing is assumed of the workers' own results.
FairSpec ==
    /\ Spec
    /\ \A k \in DOMAIN ClassLimits : WF_vars(claim(k))
    /\ WF_vars(recover(ExpiredLeases))
    /\ WF_vars(\E i \in DOMAIN runs : LeaseExpires(i))
    /\ WF_vars(\E t \in Tasks : CoolsDown(t))

-------------------------------------------------------------------------------
(* Properties.                                                             *)

\* Shape of the tables.
TypeOK ==
    /\ campaigns \in [Campaigns -> [declared: BOOLEAN, past: BOOLEAN, allocated: Nat]]
    /\ tasks \in [Tasks -> [status: {"absent", "queued", "running", "hibernating",
                                     "completed", "QUARANTINED"},
                            cooling: BOOLEAN, child_allocated: Nat, created: Nat]]
    /\ deps \subseteq Tasks \X Tasks
    /\ runs \in Seq([task: Tasks, retry_count: Nat,
                     status: {"running", "completed", "failed", "expired"},
                     lease_expired: BOOLEAN, released: BOOLEAN])
    /\ calls \subseteq [run: DOMAIN runs, result: Results, expired_at_start: BOOLEAN]

\* A task is running exactly when one run holds its lease, and that run is its
\* newest: a worker that lost its lease can no longer own the task, whatever
\* claims, expiries and late answers came in between.
LeaseOwnsTask ==
    /\ \A t \in Tasks : tasks[t].status = "running" <=> \E i \in RunsOf(t) : ~runs[i].released
    /\ \A i \in DOMAIN runs :
          ~runs[i].released => /\ runs[i].status = "running"
                               /\ \A j \in RunsOf(runs[i].task) : j <= i

\* The result of a task is final and comes from one run: once a task is
\* completed or quarantined no late finish(), recover() or claim() moves it.
SettledForGood ==
    [][\A t \in Tasks : tasks[t].status \in Settled => tasks'[t].status = tasks[t].status]_tasks

\* A task is tried at most max_retries + 1 times, and its runs are numbered
\* without a gap, however the earlier runs ended.
RetriesBounded ==
    \A i \in DOMAIN runs :
        /\ runs[i].retry_count = Cardinality({j \in RunsOf(runs[i].task) : j < i})
        /\ runs[i].retry_count <= TaskSpec[runs[i].task].max_retries

Spent(S) == MapThenSumSet(LAMBDA t : TaskSpec[t].budget_usd, S)

\* Budgets are conserved down the tree: what campaigns and parents record as
\* allocated is the sum of their tasks' budgets and within their own.
BudgetConserved ==
    /\ \A c \in Campaigns :
          /\ campaigns[c].allocated = Spent({t \in Tasks : /\ Exists(t)
                                                           /\ TaskSpec[t].parent = NoParent
                                                           /\ TaskSpec[t].campaign = c})
          /\ campaigns[c].allocated <= UsdBudget[c]
    /\ \A p \in Tasks :
          /\ tasks[p].child_allocated = Spent({t \in Tasks : Exists(t) /\ TaskSpec[t].parent = p})
          /\ tasks[p].child_allocated <= TaskSpec[p].budget_usd

\* No set of tasks waits on itself: the edges of enqueue and add_dependency
\* together never close a cycle.
DependencyDAG ==
    \A S \in SUBSET Tasks :
        S # {} => \E t \in S : \A d \in S : <<t, d>> \notin deps

\* A task runs only while everything it depends on is completed, also when
\* dependencies are added between its attempts.
DependenciesRespected ==
    \A e \in deps : tasks[e[1]].status = "running" => tasks[e[2]].status = "completed"

\* A run may never commit its result once its lease has expired
\* (docs/LIKI_SRS.md 33.15).
NoCommitAfterExpiry ==
    [][\A i \in DOMAIN runs :
          /\ runs[i].status = "running"
          /\ runs'[i].status \in {"completed", "failed"}
          => ~runs[i].lease_expired]_runs

\* A task nobody will run any more: its campaign is over, or something it
\* waits for was given up, or it or something it waits for lost its parent.
\* Dependencies stay within the campaign.
Stuck(t) ==
    \/ campaigns[TaskSpec[t].campaign].past
    \/ \E d \in Tasks :
          LET s == TaskSpec[d] IN
          /\ \/ d # t /\ tasks[d].status \in Dead
             \/ /\ s.parent # NoParent
                /\ ~s.independent_if_parent_fails
                /\ tasks[s.parent].status \in Dead
          /\ Awaits(t, d)

\* Every task that is not stuck is eventually completed or quarantined, even
\* when its workers die without a word: however long tasks keep coming, there
\* is a later moment at which none is outstanding.
TasksSettle ==
    []<>(\A t \in Tasks : Exists(t) => tasks[t].status \in Settled \/ Stuck(t))
===============================================================================
