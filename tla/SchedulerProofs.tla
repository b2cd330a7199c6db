---------------------------- MODULE SchedulerProofs ----------------------------
(***************************************************************************)
(* Proofs about Scheduler, for any tasks, campaigns, class limits and any  *)
(* number of finish() transactions open at once.                           *)
(*                                                                         *)
(* The invariant adds to the properties what their proofs need: how many   *)
(* runs a task has had is known from its status (RunsCounted), edges and   *)
(* parents refer to tasks that exist (RowsReferToRows), and only finitely  *)
(* many tasks exist, so that claim's ranking has a first and budgets a sum.*)
(***************************************************************************)
EXTENDS Scheduler, FiniteSums

RunRow == [task: Tasks, retry_count: Nat,
           status: {"running", "completed", "failed", "expired"},
           lease_expired: BOOLEAN, released: BOOLEAN]

TaskRow == [status: {"absent", "queued", "running", "hibernating", "completed", "QUARANTINED"},
            cooling: BOOLEAN, child_allocated: Nat, created: Nat]

CampaignRow == [declared: BOOLEAN, past: BOOLEAN, allocated: Nat]

\* A task that waits has attempts left; the run of a running task is its last.
RunsCounted ==
    \A t \in Tasks :
        /\ tasks[t].status = "absent" => RunsOf(t) = {}
        /\ tasks[t].status \in {"queued", "hibernating"} =>
              Cardinality(RunsOf(t)) <= TaskSpec[t].max_retries
        /\ \A i \in RunsOf(t) :
              ~runs[i].released => Cardinality(RunsOf(t)) = runs[i].retry_count + 1

\* The runs before run i of the same task.
Earlier(i) == {j \in RunsOf(runs[i].task) : j < i}

Known == {t \in Tasks : Exists(t)}

\* Dependencies and parents are tasks that exist, and those are finitely many.
RowsReferToRows ==
    /\ \A e \in deps : Exists(e[1]) /\ Exists(e[2])
    /\ \A t \in Tasks : Exists(t) /\ TaskSpec[t].parent # NoParent => Exists(TaskSpec[t].parent)
    /\ IsFiniteSet(Known)

Roots(c) == {t \in Tasks : Exists(t) /\ TaskSpec[t].parent = NoParent /\ TaskSpec[t].campaign = c}
Children(p) == {t \in Tasks : Exists(t) /\ TaskSpec[t].parent = p}

Inv == /\ TypeOK /\ LeaseOwnsTask /\ RunsCounted /\ RetriesBounded
       /\ RowsReferToRows /\ DependenciesRespected /\ DependencyDAG /\ BudgetConserved

-------------------------------------------------------------------------------
(* Lemmas about the operators.                                             *)

\* TypeOK in terms of the rows of the tables.
LEMMA TypeRows ==
    TypeOK <=> /\ campaigns \in [Campaigns -> CampaignRow]
               /\ tasks \in [Tasks -> TaskRow]
               /\ deps \subseteq Tasks \X Tasks
               /\ runs \in Seq(RunRow)
               /\ calls \subseteq [run: DOMAIN runs, result: Results, expired_at_start: BOOLEAN]
BY DEF TypeOK, CampaignRow, TaskRow, RunRow

\* The runs of the scheduler are numbered from 1.
LEMMA RunsTable ==
    ASSUME TypeOK
    PROVE  /\ Len(runs) \in Nat
           /\ DOMAIN runs = 1..Len(runs)
           /\ runs \in [1..Len(runs) -> RunRow]
           /\ \A t \in Tasks : RunsOf(t) \subseteq 1..Len(runs) /\ IsFiniteSet(RunsOf(t))
<1>1. runs \in Seq(RunRow)
  BY TypeRows
<1>2. Len(runs) \in Nat /\ DOMAIN runs = 1..Len(runs) /\ runs \in [1..Len(runs) -> RunRow]
  BY <1>1
<1>3. ASSUME NEW t \in Tasks PROVE RunsOf(t) \subseteq 1..Len(runs) /\ IsFiniteSet(RunsOf(t))
  <2>1. RunsOf(t) \subseteq 1..Len(runs)
    BY <1>2 DEF RunsOf
  <2>2. IsFiniteSet(1..Len(runs))
    BY <1>2, FS_Interval
  <2> QED
    BY <2>1, <2>2, FS_Subset
<1> QED
  BY <1>2, <1>3

\* A table with n rows of runs is a sequence.
LEMMA SeqOfRuns ==
    ASSUME NEW n \in Nat, NEW f \in [1..n -> RunRow]
    PROVE  f \in Seq(RunRow) /\ Len(f) = n /\ DOMAIN f = 1..n
OBVIOUS

\* enqueue's budgets: what a set of tasks draws is a sum of their budgets, so
\* one more task draws its own budget more.
LEMMA SpentAdd ==
    ASSUME NEW S \in SUBSET Tasks, IsFiniteSet(S), NEW t \in Tasks, t \notin S
    PROVE  Spent(S \cup {t}) = Spent(S) + TaskSpec[t].budget_usd
<1> DEFINE f == [u \in Tasks |-> TaskSpec[u].budget_usd]
           Def(g, T) == g = [s \in SUBSET T |-> IF s = {} THEN 0
                                ELSE TaskSpec[Pick(s)].budget_usd + g[s \ {Pick(s)}]]
<1>1. ASSUME NEW T \in SUBSET Tasks, IsFiniteSet(T)
      PROVE  Spent(T) = SumOver(f, T)
  <2>1. ASSUME NEW g PROVE Sums(f, g, T) <=> Def(g, T)
    <3>1. \A s \in SUBSET T : s # {} => f[Pick(s)] = TaskSpec[Pick(s)].budget_usd
      BY DEF Pick
    <3> QED
      BY <3>1 DEF Sums
  <2> DEFINE h == CHOOSE g : Def(g, T)
  <2>2. Spent(T) = h[T]
    BY DEF Spent, MapThenSumSet, MapThenFoldSet, Pick
  <2>3. Sums(f, h, T)
    <3>1. \E g : Def(g, T)
      BY <1>1, <2>1, SumsExist
    <3> QED
      BY <2>1, <3>1
  <2>4. PICK g : Sums(f, g, T) /\ SumOver(f, T) = g[T]
    BY <1>1, SumIs
  <2>5. h[T] = g[T]
    BY <1>1, <2>3, <2>4, SumsAgree
  <2> QED
    BY <2>2, <2>4, <2>5
<1>2. Summable(f, S \cup {t})
  BY SchedulerConstants DEF SchedulerConstants, Summable
<1>3. SumOver(f, S \cup {t}) = SumOver(f, S) + f[t]
  BY <1>2, SumAdd
<1>4. IsFiniteSet(S \cup {t})
  BY FS_AddElement
<1> HIDE DEF Def
<1> QED
  BY <1>1, <1>3, <1>4

\* Before any task is enqueued nothing is drawn.
LEMMA SpentEmpty == Spent({}) = 0
<1> DEFINE Def(g) == g = [s \in SUBSET {} |-> IF s = {} THEN 0
                             ELSE TaskSpec[Pick(s)].budget_usd + g[s \ {Pick(s)}]]
           h == CHOOSE g : Def(g)
<1>1. Spent({}) = h[{}]
  BY DEF Spent, MapThenSumSet, MapThenFoldSet, Pick
<1>2. Def([s \in SUBSET {} |-> 0])
  OBVIOUS
<1>3. Def(h)
  BY <1>2
<1> HIDE DEF h
<1>4. h[{}] = 0
  BY <1>3
<1> QED
  BY <1>1, <1>4

\* claim selects one of its candidates: the ranking of finitely many tasks has
\* a first.
LEMMA SelectedIsCandidate ==
    ASSUME TypeOK, NEW C \in SUBSET Tasks, IsFiniteSet(C), C # {}
    PROVE  Selected(C) \in C
<1> DEFINE pool == IF Protected(C) # {} THEN Protected(C) ELSE C
<1>1. pool \subseteq C /\ pool # {}
  BY DEF Protected, InLane
<1>2. IsFiniteSet(pool)
  BY <1>1, FS_Subset
<1>3. \A t, u \in Tasks : Outranks(t, u) \/ Outranks(u, t)
  BY SchedulerConstants DEF SchedulerConstants, Outranks, TypeOK
<1>4. \A t, u, v \in Tasks : Outranks(t, u) /\ Outranks(u, v) => Outranks(t, v)
  BY SchedulerConstants DEF SchedulerConstants, Outranks, TypeOK
<1> DEFINE Best(P, t) == \A u \in P : Outranks(t, u)
           W == {P \in SUBSET pool : P # {} /\ ~ \E t \in P : Best(P, t)}
<1> HIDE DEF pool
<1>5. W = {}
  <2> SUFFICES ASSUME W # {} PROVE FALSE
    OBVIOUS
  <2>1. PICK P \in W : \A U \in W : U \subseteq P => U = P
    <3>1. W \subseteq SUBSET pool
      OBVIOUS
    <3> HIDE DEF W
    <3> QED
      BY <1>2, <3>1, SmallestSet
  <2>2. P \subseteq Tasks /\ P # {} /\ ~ \E t \in P : Best(P, t)
    BY <1>1, <2>1
  <2>3. PICK x \in P : TRUE
    BY <2>2
  <2>4. CASE P \ {x} = {}
    <3>1. Best(P, x)
      BY <1>3, <2>2, <2>4
    <3> QED
      BY <2>2, <3>1
  <2>5. CASE P \ {x} # {}
    <3>1. P \ {x} \notin W /\ P \ {x} \in SUBSET pool
      BY <2>1, <2>3
    <3>2. PICK t \in P \ {x} : Best(P \ {x}, t)
      BY <2>5, <3>1
    <3>3. CASE Outranks(t, x)
      <4>1. Best(P, t)
        BY <3>2, <3>3
      <4> QED
        BY <2>2, <3>2, <4>1
    <3>4. CASE Outranks(x, t)
      <4>1. Best(P, x)
        BY <1>3, <1>4, <2>2, <3>2, <3>4
      <4> QED
        BY <2>2, <4>1
    <3> QED
      BY <1>3, <2>2, <3>2, <3>3, <3>4
  <2> QED
    BY <2>4, <2>5
<1>6. \E t \in pool : \A u \in pool : Outranks(t, u)
  BY <1>1, <1>5
<1>7. Selected(C) = CHOOSE t \in pool : \A u \in pool : Outranks(t, u)
  BY DEF Selected, pool
<1> QED
  BY <1>1, <1>6, <1>7
-------------------------------------------------------------------------------
(* The invariant holds initially and every action keeps it.                *)

\* Nothing is declared, enqueued or running.
LEMMA InvInit == Init => Inv
<1> SUFFICES ASSUME Init PROVE Inv
  OBVIOUS
<1>1. TypeOK
  BY DEF Init, TypeOK
<1>2. \A t \in Tasks : tasks[t].status = "absent" /\ tasks[t].child_allocated = 0 /\ ~Exists(t)
  BY DEF Init, Exists
<1>3. DOMAIN runs = {} /\ \A t \in Tasks : RunsOf(t) = {}
  BY DEF Init, RunsOf
<1>4. LeaseOwnsTask /\ RunsCounted /\ RetriesBounded
  BY <1>2, <1>3 DEF LeaseOwnsTask, RunsCounted, RetriesBounded
<1>5. Known = {} /\ (\A c \in Campaigns : Roots(c) = {}) /\ \A p \in Tasks : Children(p) = {}
  BY <1>2 DEF Known, Roots, Children
<1>6. RowsReferToRows /\ DependenciesRespected /\ DependencyDAG
  BY <1>2, <1>5, FS_EmptySet DEF Init, RowsReferToRows, DependenciesRespected, DependencyDAG
<1>7. BudgetConserved
  <2>1. \A c \in Campaigns : campaigns[c].allocated = 0 /\ 0 <= UsdBudget[c]
    BY SchedulerConstants DEF SchedulerConstants, Init
  <2>2. \A p \in Tasks : 0 <= TaskSpec[p].budget_usd
    BY SchedulerConstants DEF SchedulerConstants
  <2> QED
    BY <1>2, <1>5, <2>1, <2>2, SpentEmpty DEF BudgetConserved, Roots, Children
<1> QED
  BY <1>1, <1>4, <1>6, <1>7 DEF Inv

\* A step that keeps what the properties look at: declaring a campaign, a
\* horizon, lease or delay that passes, a finish() that opens or is refused.
LEMMA QuietInv ==
    ASSUME Inv, TypeOK',
           \A c \in Campaigns : campaigns'[c].allocated = campaigns[c].allocated,
           \A t \in Tasks : /\ tasks'[t].status = tasks[t].status
                            /\ tasks'[t].child_allocated = tasks[t].child_allocated,
           DOMAIN runs' = DOMAIN runs,
           \A i \in DOMAIN runs : /\ runs'[i].task = runs[i].task
                                  /\ runs'[i].status = runs[i].status
                                  /\ runs'[i].retry_count = runs[i].retry_count
                                  /\ runs'[i].released = runs[i].released,
           deps' = deps
    PROVE  Inv'
<1>1. \A t \in Tasks : (RunsOf(t)' = RunsOf(t)) /\ (Exists(t)' <=> Exists(t))
  BY DEF RunsOf, Exists
<1>2. \A t \in Tasks : \A i \in RunsOf(t) : i \in DOMAIN runs
  BY DEF RunsOf
<1>3. \A i \in DOMAIN runs : runs[i].task \in Tasks
  BY RunsTable DEF Inv, RunRow
<1>4. LeaseOwnsTask' /\ RunsCounted'
  BY <1>1, <1>2, <1>3 DEF Inv, LeaseOwnsTask, RunsCounted
<1>5. RetriesBounded'
  <2>1. ASSUME NEW i \in DOMAIN runs
        PROVE  Earlier(i)' = Earlier(i)
    BY DEF Earlier, RunsOf
  <2> QED
    BY <2>1 DEF Inv, RetriesBounded, Earlier
<1>6. Known' = Known /\ (\A c : Roots(c)' = Roots(c)) /\ \A p : Children(p)' = Children(p)
  BY <1>1 DEF Known, Roots, Children
<1>7. RowsReferToRows'
  <2>1. deps \subseteq Tasks \X Tasks
    BY DEF Inv, TypeOK
  <2>2. \A t \in Tasks : TaskSpec[t].parent # NoParent => TaskSpec[t].parent \in Tasks
    BY SchedulerConstants DEF SchedulerConstants
  <2> QED
    BY <1>1, <1>6, <2>1, <2>2 DEF Inv, RowsReferToRows
<1>8. DependenciesRespected' /\ DependencyDAG'
  <2>1. \A e \in deps : e[1] \in Tasks /\ e[2] \in Tasks
    BY DEF Inv, TypeOK
  <2>2. DependenciesRespected'
    BY <2>1 DEF Inv, DependenciesRespected
  <2>3. DependencyDAG'
    BY DEF Inv, DependencyDAG
  <2> QED
    BY <2>2, <2>3
<1>9. BudgetConserved'
  BY <1>6, ZenonT(40) DEF Inv, BudgetConserved, Roots, Children
<1> QED
  BY <1>4, <1>5, <1>7, <1>8, <1>9 DEF Inv
\* enqueue: the new task has no runs, nobody depends on it or has it for a
\* parent yet, and its budget is drawn from one place.
LEMMA EnqueueInv ==
    ASSUME Inv, NEW t \in Tasks, enqueue(t)
    PROVE  Inv'
<1> DEFINE s == TaskSpec[t]
           p == s.parent
           row == [status |-> "queued", cooling |-> FALSE, child_allocated |-> 0,
                   created |-> Cardinality(Known) + 1]
<1>1. /\ s.campaign \in Campaigns
      /\ p \in Tasks \cup {NoParent}
      /\ s.budget_usd \in Nat
      /\ s.dependencies \subseteq Tasks
      /\ s.max_retries \in Nat
      /\ NoParent \notin Tasks
  BY SchedulerConstants DEF SchedulerConstants
<1>2. ~Exists(t) /\ UNCHANGED <<runs, calls>>
  BY DEF enqueue
<1>3. p # NoParent => /\ p \in Tasks /\ Exists(p) /\ p # t
                      /\ tasks[p].child_allocated + s.budget_usd <= TaskSpec[p].budget_usd
  BY <1>1, <1>2 DEF enqueue, ParentAccepts
<1>4. \A d \in s.dependencies : d # t /\ Exists(d)
  BY DEF enqueue
<1>5. deps' = deps \cup ({t} \X s.dependencies)
  BY DEF enqueue
<1>6. tasks' = IF p = NoParent
               THEN [tasks EXCEPT ![t] = row]
               ELSE [tasks EXCEPT ![t] = row, ![p].child_allocated = @ + s.budget_usd]
  BY DEF enqueue, Known
<1>7. campaigns' = IF p = NoParent
                   THEN [campaigns EXCEPT ![s.campaign].allocated = @ + s.budget_usd]
                   ELSE campaigns
  BY DEF enqueue
<1>8. row \in TaskRow
  <2>1. Cardinality(Known) \in Nat
    BY FS_CardinalityType DEF Inv, RowsReferToRows
  <2> QED
    BY <2>1 DEF TaskRow
<1>9. tasks \in [Tasks -> TaskRow] /\ campaigns \in [Campaigns -> CampaignRow]
  BY TypeRows DEF Inv
<1> HIDE DEF row
<1>10. tasks' \in [Tasks -> TaskRow]
  <2>1. CASE p = NoParent
    BY <1>6, <1>8, <1>9, <2>1
  <2>2. CASE p # NoParent
    <3>1. tasks[p].child_allocated + s.budget_usd \in Nat
      BY <1>1, <1>3, <1>9, <2>2 DEF TaskRow
    <3>2. [tasks[p] EXCEPT !.child_allocated = @ + s.budget_usd] \in TaskRow
      BY <1>3, <1>9, <2>2, <3>1 DEF TaskRow
    <3>3. tasks' = [tasks EXCEPT ![t] = row,
                                 ![p] = [tasks[p] EXCEPT !.child_allocated = @ + s.budget_usd]]
      BY <1>3, <1>6, <1>9, <2>2
    <3> QED
      BY <1>8, <1>9, <3>2, <3>3
  <2> QED
    BY <2>1, <2>2
<1>11. /\ tasks'[t].status = "queued" /\ tasks'[t].child_allocated = 0
       /\ \A u \in Tasks : u # t => tasks'[u].status = tasks[u].status
       /\ \A u \in Tasks : u # t /\ u # p => tasks'[u].child_allocated = tasks[u].child_allocated
       /\ p # NoParent => tasks'[p].child_allocated = tasks[p].child_allocated + s.budget_usd
  BY <1>3, <1>6, <1>9 DEF row, TaskRow
<1>12. campaigns' \in [Campaigns -> CampaignRow]
  <2>1. campaigns[s.campaign].allocated + s.budget_usd \in Nat
    BY <1>1, <1>9 DEF CampaignRow
  <2> QED
    BY <1>1, <1>7, <1>9, <2>1 DEF CampaignRow
<1>13. TypeOK'
  <2>1. deps' \subseteq Tasks \X Tasks
    BY <1>1, <1>5 DEF Inv, TypeOK
  <2> QED
    BY <1>2, <1>10, <1>12, <2>1, TypeRows DEF Inv, TypeOK, CampaignRow, TaskRow, RunRow
<1>14. (\A u \in Tasks : RunsOf(u)' = RunsOf(u)) /\ RunsOf(t) = {}
  BY <1>2 DEF RunsOf, Inv, RunsCounted, Exists
<1>15. \A u \in Tasks : u # t => (Exists(u)' <=> Exists(u))
  BY <1>11 DEF Exists
<1>16. Exists(t)'
  BY <1>11 DEF Exists
<1>17. \A i \in DOMAIN runs : runs[i].task \in Tasks /\ runs[i].task # t
  BY <1>14, RunsTable DEF Inv, RunRow, RunsOf
<1>18. LeaseOwnsTask'
  BY <1>2, <1>11, <1>14, <1>17 DEF Inv, LeaseOwnsTask
<1>19. RunsCounted'
  <2>1. RunsOf(t)' = {} /\ Cardinality(RunsOf(t)') <= s.max_retries
    BY <1>1, <1>14, FS_EmptySet
  <2>2. ASSUME NEW u \in Tasks, u # t
        PROVE  /\ tasks'[u].status = "absent" => RunsOf(u)' = {}
               /\ tasks'[u].status \in {"queued", "hibernating"} =>
                     Cardinality(RunsOf(u)') <= TaskSpec[u].max_retries
               /\ \A i \in RunsOf(u)' :
                     ~runs'[i].released => Cardinality(RunsOf(u)') = runs'[i].retry_count + 1
    BY <1>2, <1>11, <1>14, <2>2 DEF Inv, RunsCounted
  <2> QED
    BY <1>11, <2>1, <2>2 DEF RunsCounted
<1>20. RetriesBounded'
  <2>1. \A i \in DOMAIN runs : Earlier(i)' = Earlier(i)
    BY <1>2 DEF Earlier, RunsOf
  <2> QED
    BY <1>2, <2>1 DEF Inv, RetriesBounded, Earlier
<1>21. RowsReferToRows'
  <2>1. Known' = Known \cup {t}
    BY <1>15, <1>16 DEF Known
  <2>2. IsFiniteSet(Known')
    BY <2>1, FS_AddElement DEF Inv, RowsReferToRows
  <2>3. \A e \in deps : e[1] \in Tasks /\ e[2] \in Tasks
    BY DEF Inv, TypeOK
  <2>4. \A e \in deps' : Exists(e[1])' /\ Exists(e[2])'
    BY <1>1, <1>4, <1>5, <1>15, <1>16, <2>3 DEF Inv, RowsReferToRows
  <2>5. ASSUME NEW u \in Tasks, Exists(u)', TaskSpec[u].parent # NoParent
        PROVE  Exists(TaskSpec[u].parent)'
    <3>1. TaskSpec[u].parent \in Tasks
      BY <2>5, SchedulerConstants DEF SchedulerConstants
    <3> QED
      BY <1>3, <1>15, <1>16, <2>5, <3>1 DEF Inv, RowsReferToRows
  <2> QED
    BY <2>2, <2>4, <2>5 DEF RowsReferToRows
<1>22. \A e \in deps : e[1] \in Tasks /\ e[2] \in Tasks /\ e[1] # t /\ e[2] # t
  BY <1>2 DEF Inv, TypeOK, RowsReferToRows
<1>23. DependenciesRespected'
  BY <1>5, <1>11, <1>22 DEF Inv, DependenciesRespected
<1>24. DependencyDAG'
  <2> SUFFICES ASSUME NEW S \in SUBSET Tasks, S # {}
               PROVE  \E u \in S : \A d \in S : <<u, d>> \notin deps'
    BY DEF DependencyDAG
  <2>1. CASE S \ {t} = {}
    <3>1. S = {t}
      BY <2>1
    <3>2. <<t, t>> \notin deps
      BY <1>22
    <3>3. <<t, t>> \notin deps'
      BY <1>4, <1>5, <3>2
    <3> QED
      BY <3>1, <3>3
  <2>2. CASE S \ {t} # {}
    <3>1. PICK u \in S \ {t} : \A d \in S \ {t} : <<u, d>> \notin deps
      BY <2>2 DEF Inv, DependencyDAG
    <3>2. <<u, t>> \notin deps
      BY <1>22
    <3>3. \A d \in S : <<u, d>> \notin deps
      BY <3>1, <3>2
    <3>4. \A d \in S : <<u, d>> \notin {t} \X s.dependencies
      BY <3>1
    <3> QED
      BY <1>5, <3>1, <3>3, <3>4
  <2> QED
    BY <2>1, <2>2
<1>25. BudgetConserved'
  <2>1. \A c \in Campaigns : IsFiniteSet(Roots(c)) /\ t \notin Roots(c) /\ Roots(c) \in SUBSET Tasks
    <3>1. \A c \in Campaigns : Roots(c) \in SUBSET Known
      BY DEF Roots, Known
    <3> QED
      BY <1>2, <3>1, FS_Subset DEF Inv, RowsReferToRows, Roots
  <2>2. \A q \in Tasks : IsFiniteSet(Children(q)) /\ t \notin Children(q) /\ Children(q) \in SUBSET Tasks
    <3>1. \A q \in Tasks : Children(q) \in SUBSET Known
      BY DEF Children, Known
    <3> QED
      BY <1>2, <3>1, FS_Subset DEF Inv, RowsReferToRows, Children
  <2>3. ASSUME NEW c \in Campaigns
        PROVE  /\ campaigns'[c].allocated = Spent(Roots(c)')
               /\ campaigns'[c].allocated <= UsdBudget[c]
    <3>1. campaigns[c].allocated = Spent(Roots(c)) /\ campaigns[c].allocated <= UsdBudget[c]
      BY DEF Inv, BudgetConserved, Roots
    <3>2. CASE p = NoParent /\ c = s.campaign
      <4>1. Roots(c)' = Roots(c) \cup {t}
        BY <1>15, <1>16, <3>2 DEF Roots
      <4>2. campaigns'[c].allocated = campaigns[c].allocated + s.budget_usd
        BY <1>7, <1>9, <3>2 DEF CampaignRow
      <4>3. campaigns[c].allocated + s.budget_usd <= UsdBudget[c]
        BY <3>2 DEF enqueue, CampaignAccepts
      <4> QED
        BY <2>1, <3>1, <4>1, <4>2, <4>3, SpentAdd
    <3>3. CASE ~(p = NoParent /\ c = s.campaign)
      <4>1. Roots(c)' = Roots(c)
        BY <1>2, <1>15, <1>16, <3>3 DEF Roots
      <4>2. campaigns'[c].allocated = campaigns[c].allocated
        BY <1>1, <1>7, <1>9, <3>3 DEF CampaignRow
      <4> QED
        BY <3>1, <4>1, <4>2
    <3> QED
      BY <3>2, <3>3
  <2>4. ASSUME NEW q \in Tasks
        PROVE  /\ tasks'[q].child_allocated = Spent(Children(q)')
               /\ tasks'[q].child_allocated <= TaskSpec[q].budget_usd
    <3>1. /\ tasks[q].child_allocated = Spent(Children(q))
          /\ tasks[q].child_allocated <= TaskSpec[q].budget_usd
      BY DEF Inv, BudgetConserved, Children
    <3>2. CASE q = p
      <4>1. Children(q)' = Children(q) \cup {t}
        BY <1>15, <1>16, <3>2 DEF Children
      <4>2. p # NoParent
        BY <1>1, <3>2
      <4> QED
        BY <1>3, <1>11, <2>2, <3>1, <3>2, <4>1, <4>2, SpentAdd
    <3>3. CASE q # p /\ q # t
      <4>1. Children(q)' = Children(q)
        BY <1>2, <1>15, <1>16, <3>3 DEF Children
      <4> QED
        BY <1>11, <3>1, <3>3, <4>1
    <3>4. CASE q = t
      <4>1. \A u \in Tasks : Exists(u) => TaskSpec[u].parent # t
        BY <1>1, <1>2 DEF Inv, RowsReferToRows
      <4>2. Children(q)' = {}
        BY <1>2, <1>3, <1>15, <1>1, <3>4, <4>1 DEF Children
      <4>3. TaskSpec[q].budget_usd \in Nat
        BY <1>1, <3>4
      <4> QED
        BY <1>11, <3>4, <4>2, <4>3, SpentEmpty
    <3> QED
      BY <3>2, <3>3, <3>4
  <2> QED
    BY <2>3, <2>4 DEF BudgetConserved, Roots, Children
<1> QED
  BY <1>13, <1>18, <1>19, <1>20, <1>21, <1>23, <1>24, <1>25 DEF Inv
\* add_dependency: an edge from t to d is added only if d does not wait for t,
\* that is, some set closed under depends_on holds d and not t.  Whatever waits
\* within that set is not touched by the edge.
LEMMA AddDependencyInv ==
    ASSUME Inv, NEW t \in Tasks, NEW d \in Tasks, add_dependency(t, d)
    PROVE  Inv'
<1>1. /\ tasks[t].status = "queued" /\ Exists(d)
      /\ deps' = deps \cup {<<t, d>>}
      /\ UNCHANGED <<campaigns, tasks, runs, calls>>
  BY DEF add_dependency
<1>2. PICK C \in SUBSET Tasks : d \in C /\ Closed(C) /\ t \notin C
  BY DEF add_dependency, Awaits
<1>3. TypeOK'
  BY <1>1, SMTT(30) DEF Inv, TypeOK
<1>4. (\A u : RunsOf(u)' = RunsOf(u)) /\ \A u : Exists(u)' <=> Exists(u)
  BY <1>1 DEF RunsOf, Exists
<1>5. LeaseOwnsTask' /\ RunsCounted'
  BY <1>1, <1>4 DEF Inv, LeaseOwnsTask, RunsCounted
<1>6. RetriesBounded'
  BY <1>1, <1>4 DEF Inv, RetriesBounded
<1>7. Known' = Known /\ (\A c : Roots(c)' = Roots(c)) /\ \A p : Children(p)' = Children(p)
  BY <1>4 DEF Known, Roots, Children
<1>8. RowsReferToRows'
  <2>1. Exists(t)
    BY <1>1 DEF Exists
  <2> QED
    BY <1>1, <1>4, <1>7, <2>1 DEF Inv, RowsReferToRows
<1>9. DependenciesRespected'
  BY <1>1 DEF Inv, DependenciesRespected
<1>10. DependencyDAG'
  <2> SUFFICES ASSUME NEW S \in SUBSET Tasks, S # {}
               PROVE  \E u \in S : \A e \in S : <<u, e>> \notin deps'
    BY DEF DependencyDAG
  <2>1. CASE S \cap C = {}
    <3>1. PICK u \in S : \A e \in S : <<u, e>> \notin deps
      BY DEF Inv, DependencyDAG
    <3>2. d \notin S
      BY <1>2, <2>1
    <3> QED
      BY <1>1, <3>1, <3>2
  <2>2. CASE S \cap C # {}
    <3>1. PICK u \in S \cap C : \A e \in S \cap C : <<u, e>> \notin deps
      BY <2>2 DEF Inv, DependencyDAG
    <3>2. \A e : <<u, e>> \in deps => e \in C
      BY <1>2, <3>1 DEF Closed
    <3>3. u # t
      BY <1>2, <3>1
    <3> QED
      BY <1>1, <3>1, <3>2, <3>3
  <2> QED
    BY <2>1, <2>2
<1>11. BudgetConserved'
  BY <1>1, <1>7, ZenonT(40) DEF Inv, BudgetConserved, Roots, Children
<1> QED
  BY <1>3, <1>5, <1>6, <1>8, <1>9, <1>10, <1>11 DEF Inv

\* claim: the selected task has no unreleased run, its new run is its newest,
\* and its dependencies are completed.
LEMMA ClaimInv ==
    ASSUME Inv, NEW k, claim(k)
    PROVE  Inv'
<1>1. PICK t : /\ t = Selected(Candidates(k))
               /\ tasks' = [tasks EXCEPT ![t].status = "running"]
               /\ runs' = Append(runs, [task |-> t, status |-> "running",
                                        retry_count |-> Cardinality(RunsOf(t)),
                                        lease_expired |-> FALSE, released |-> FALSE])
  BY DEF claim
<1>2. Candidates(k) # {} /\ UNCHANGED <<campaigns, deps, calls>>
  BY DEF claim
<1>3. t \in Tasks /\ tasks[t].status \in {"queued", "hibernating"} /\ DependenciesDone(t)
  <2>1. Candidates(k) \subseteq Known
    BY DEF Candidates, Known, Exists
  <2>2. IsFiniteSet(Candidates(k)) /\ Candidates(k) \in SUBSET Tasks
    BY <2>1, FS_Subset DEF Inv, RowsReferToRows, Candidates
  <2>3. t \in Candidates(k)
    BY <1>1, <1>2, <2>2, SelectedIsCandidate DEF Inv
  <2> QED
    BY <2>3 DEF Candidates
<1>4. PICK n \in Nat : /\ n = Len(runs) /\ DOMAIN runs = 1..n /\ runs \in Seq(RunRow)
                       /\ runs \in [1..n -> RunRow]
                       /\ \A u \in Tasks : RunsOf(u) \subseteq 1..n /\ IsFiniteSet(RunsOf(u))
  BY RunsTable, TypeRows, Zenon DEF Inv
<1>5. PICK run \in RunRow : /\ runs' = Append(runs, run)
                            /\ run.task = t /\ run.status = "running" /\ ~run.released
                            /\ run.retry_count = Cardinality(RunsOf(t))
  <2>1. Cardinality(RunsOf(t)) \in Nat
    BY <1>3, <1>4, FS_CardinalityType
  <2>2. [task |-> t, status |-> "running", retry_count |-> Cardinality(RunsOf(t)),
         lease_expired |-> FALSE, released |-> FALSE] \in RunRow
    BY <1>3, <2>1 DEF RunRow
  <2> QED
    BY <1>1, <2>2
<1>6. /\ runs' \in Seq(RunRow)
      /\ DOMAIN runs' = 1..(n + 1)
      /\ runs'[n + 1] = run
      /\ \A i \in 1..n : runs'[i] = runs[i]
  BY ONLY <1>4, <1>5
<1>7. /\ tasks' \in [Tasks -> TaskRow]
      /\ tasks'[t].status = "running"
      /\ \A u \in Tasks : u # t => tasks'[u] = tasks[u]
      /\ \A u \in Tasks : tasks'[u].child_allocated = tasks[u].child_allocated
  BY <1>1, <1>3, TypeRows DEF Inv, TaskRow
<1>8. TypeOK'
  <2>1. calls' \subseteq [run: DOMAIN runs', result: Results, expired_at_start: BOOLEAN]
    BY <1>2, <1>4, <1>6 DEF Inv, TypeOK
  <2> QED
    BY <1>2, <1>6, <1>7, <2>1 DEF Inv, TypeOK, TaskRow, RunRow
<1>9. /\ RunsOf(t)' = RunsOf(t) \cup {n + 1}
      /\ \A u \in Tasks : u # t => RunsOf(u)' = RunsOf(u)
  BY <1>4, <1>5, <1>6 DEF RunsOf
<1>10. \A i \in RunsOf(t) : runs[i].released
  BY <1>3 DEF Inv, LeaseOwnsTask
<1>11. \A i \in 1..n : runs[i].task \in Tasks
  BY <1>4 DEF RunRow
<1>12. LeaseOwnsTask'
  <2>1. ASSUME NEW u \in Tasks
        PROVE  tasks'[u].status = "running" <=> \E i \in RunsOf(u)' : ~runs'[i].released
    <3>1. CASE u = t
      BY <1>5, <1>6, <1>7, <1>9, <3>1
    <3>2. CASE u # t
      BY <1>4, <1>6, <1>7, <1>9, <3>2 DEF Inv, LeaseOwnsTask
    <3> QED
      BY <3>1, <3>2
  <2>2. ASSUME NEW i \in 1..(n + 1), ~runs'[i].released,
               NEW j \in 1..(n + 1), runs'[j].task = runs'[i].task
        PROVE  runs'[i].status = "running" /\ j <= i
    <3>1. CASE i = n + 1
      BY <1>5, <1>6, <2>2, <3>1
    <3>2. CASE i # n + 1
      <4>1. i \in 1..n /\ runs'[i] = runs[i] /\ ~runs[i].released
        BY <1>6, <2>2, <3>2
      <4>2. runs[i].task # t
        BY <1>4, <1>10, <4>1 DEF RunsOf
      <4>3. j \in 1..n /\ runs'[j] = runs[j]
        BY <1>5, <1>6, <2>2, <4>1, <4>2
      <4> QED
        BY <1>4, <2>2, <4>1, <4>3 DEF Inv, LeaseOwnsTask, RunsOf
    <3> QED
      BY <3>1, <3>2
  <2> QED
    BY <1>6, <2>1, <2>2 DEF LeaseOwnsTask, RunsOf
<1>13. Cardinality(RunsOf(t)') = Cardinality(RunsOf(t)) + 1
  <2>1. n + 1 \notin RunsOf(t)
    BY <1>3, <1>4
  <2> QED
    BY <1>3, <1>4, <1>9, <2>1, FS_AddElement
<1>14. RunsCounted'
  <2>1. ASSUME NEW u \in Tasks
        PROVE  /\ tasks'[u].status = "absent" => RunsOf(u)' = {}
               /\ tasks'[u].status \in {"queued", "hibernating"} =>
                     Cardinality(RunsOf(u)') <= TaskSpec[u].max_retries
               /\ \A i \in RunsOf(u)' :
                     ~runs'[i].released => Cardinality(RunsOf(u)') = runs'[i].retry_count + 1
    <3>1. CASE u = t
      <4>1. \A i \in RunsOf(t) : runs'[i].released
        BY <1>3, <1>4, <1>6, <1>10
      <4>2. \A i \in RunsOf(t)' :
                ~runs'[i].released => Cardinality(RunsOf(t)') = runs'[i].retry_count + 1
        BY <1>5, <1>6, <1>9, <1>13, <4>1
      <4> QED
        BY <1>7, <3>1, <4>2
    <3>2. CASE u # t
      BY <1>4, <1>6, <1>7, <1>9, <3>2 DEF Inv, RunsCounted
    <3> QED
      BY <3>1, <3>2
  <2> QED
    BY <2>1 DEF RunsCounted
<1>15. RetriesBounded'
  <2>1. ASSUME NEW i \in 1..(n + 1)
        PROVE  /\ runs'[i].retry_count = Cardinality(Earlier(i)')
               /\ runs'[i].retry_count <= TaskSpec[runs'[i].task].max_retries
    <3>1. CASE i = n + 1
      <4>1. Earlier(i)' = RunsOf(t)
        BY <1>3, <1>4, <1>5, <1>6, <3>1 DEF Earlier, RunsOf
      <4> QED
        BY <1>3, <1>5, <1>6, <3>1, <4>1 DEF Inv, RunsCounted
    <3>2. CASE i # n + 1
      <4>1. i \in 1..n /\ runs'[i] = runs[i]
        BY <1>6, <3>2
      <4>2. Earlier(i)' = Earlier(i)
        BY <1>4, <1>6, <4>1 DEF Earlier, RunsOf
      <4> QED
        BY <1>4, <4>1, <4>2 DEF Inv, RetriesBounded, Earlier
    <3> QED
      BY <3>1, <3>2
  <2> QED
    BY <1>6, <2>1 DEF RetriesBounded, Earlier
<1>16. \A u \in Tasks : Exists(u)' <=> Exists(u)
  BY <1>3, <1>7 DEF Exists
<1>17. Known' = Known /\ (\A c : Roots(c)' = Roots(c)) /\ \A p : Children(p)' = Children(p)
  BY <1>16 DEF Known, Roots, Children
<1>18. \A e \in deps : e[1] \in Tasks /\ e[2] \in Tasks
  BY DEF Inv, TypeOK
<1>19. RowsReferToRows'
  <2>1. \A u \in Tasks : TaskSpec[u].parent # NoParent => TaskSpec[u].parent \in Tasks
    BY SchedulerConstants DEF SchedulerConstants
  <2> QED
    BY <1>2, <1>16, <1>17, <1>18, <2>1 DEF Inv, RowsReferToRows
<1>20. DependenciesRespected'
  <2> SUFFICES ASSUME NEW e \in deps, tasks'[e[1]].status = "running"
               PROVE  tasks'[e[2]].status = "completed"
    BY <1>2 DEF DependenciesRespected
  <2>1. tasks[e[2]].status = "completed"
    BY <1>3, <1>7, <1>18 DEF DependenciesDone, Inv, DependenciesRespected
  <2> QED
    BY <1>3, <1>7, <1>18, <2>1
<1>21. DependencyDAG'
  BY <1>2 DEF Inv, DependencyDAG
<1>22. BudgetConserved'
  BY <1>2, <1>7, <1>17, ZenonT(40) DEF Inv, BudgetConserved, Roots, Children
<1> QED
  BY <1>8, <1>12, <1>14, <1>15, <1>19, <1>20, <1>21, <1>22 DEF Inv
\* Some leases are released, by finish() for its own run or by recover() for
\* the ones that ran out: each was the one lease of a running task, whose
\* status is decided with it.
LEMMA ReleaseInv ==
    ASSUME Inv, TypeOK', NEW R \in SUBSET DOMAIN runs,
           \A i \in R : ~runs[i].released,
           DOMAIN runs' = DOMAIN runs,
           \A i \in DOMAIN runs : /\ runs'[i].task = runs[i].task
                                  /\ runs'[i].retry_count = runs[i].retry_count,
           \A i \in DOMAIN runs : i \notin R => runs'[i] = runs[i],
           \A i \in R : runs'[i].released,
           \A t \in Tasks : tasks'[t].child_allocated = tasks[t].child_allocated,
           \A t \in Tasks : (\A i \in R : runs[i].task # t) => tasks'[t].status = tasks[t].status,
           \A i \in R : \/ tasks'[runs[i].task].status \in Settled
                       \/ /\ tasks'[runs[i].task].status \in {"queued", "hibernating"}
                          /\ ~Exhausted(i),
           UNCHANGED <<campaigns, deps>>
    PROVE  Inv'
<1>1. \A t \in Tasks : RunsOf(t)' = RunsOf(t)
  BY DEF RunsOf
<1>2. PICK n \in Nat : /\ DOMAIN runs = 1..n
                       /\ runs \in [1..n -> RunRow]
                       /\ \A u \in Tasks : RunsOf(u) \subseteq 1..n /\ IsFiniteSet(RunsOf(u))
  BY RunsTable DEF Inv
<1>3. \A i \in 1..n : runs[i].task \in Tasks /\ runs[i].retry_count \in Nat
  BY <1>2 DEF RunRow
<1>4. ASSUME NEW i \in R, NEW j \in 1..n, runs[j].task = runs[i].task, ~runs[j].released
      PROVE  j = i
  <2>1. i <= j /\ j <= i
    BY <1>2, <1>4 DEF Inv, LeaseOwnsTask, RunsOf
  <2> QED
    BY <1>2, <2>1
<1>5. ASSUME NEW i \in R
      PROVE  /\ runs[i].task \in Tasks
             /\ tasks[runs[i].task].status = "running"
             /\ \A j \in RunsOf(runs[i].task) : runs'[j].released
  <2>1. i \in 1..n /\ runs[i].task \in Tasks /\ ~runs[i].released
    BY <1>2, <1>3
  <2>2. tasks[runs[i].task].status = "running"
    BY <1>2, <2>1 DEF Inv, LeaseOwnsTask, RunsOf
  <2>3. ASSUME NEW j \in 1..n, runs[j].task = runs[i].task PROVE runs'[j].released
    BY <1>2, <1>4, <2>3
  <2> QED
    BY <1>2, <2>1, <2>2, <2>3 DEF RunsOf
<1> DEFINE Hit(t) == \E i \in R : runs[i].task = t
<1>6. ASSUME NEW t \in Tasks, ~Hit(t)
      PROVE  /\ tasks'[t].status = tasks[t].status
             /\ \A i \in RunsOf(t) : runs'[i] = runs[i]
  BY <1>6 DEF RunsOf
<1>7. LeaseOwnsTask'
  <2>1. ASSUME NEW t \in Tasks
        PROVE  tasks'[t].status = "running" <=> \E i \in RunsOf(t)' : ~runs'[i].released
    <3>1. CASE Hit(t)
      BY <1>1, <1>5, <3>1 DEF Settled
    <3>2. CASE ~Hit(t)
      BY <1>1, <1>6, <3>2 DEF Inv, LeaseOwnsTask
    <3> QED
      BY <3>1, <3>2
  <2>2. ASSUME NEW i \in 1..n, ~runs'[i].released, NEW j \in 1..n, runs[j].task = runs[i].task
        PROVE  runs'[i].status = "running" /\ j <= i
    <3>1. i \notin R /\ runs'[i] = runs[i]
      BY <1>2, <2>2
    <3> QED
      BY <1>2, <2>2, <3>1 DEF Inv, LeaseOwnsTask, RunsOf
  <2> QED
    BY <1>2, <2>1, <2>2 DEF LeaseOwnsTask, RunsOf
<1>8. RunsCounted'
  <2> SUFFICES ASSUME NEW t \in Tasks
        PROVE  /\ tasks'[t].status = "absent" => RunsOf(t) = {}
               /\ tasks'[t].status \in {"queued", "hibernating"} =>
                     Cardinality(RunsOf(t)) <= TaskSpec[t].max_retries
               /\ \A i \in RunsOf(t) :
                     ~runs'[i].released => Cardinality(RunsOf(t)) = runs'[i].retry_count + 1
    BY <1>1 DEF RunsCounted
  <2>1. CASE ~Hit(t)
    BY <1>6, <2>1 DEF Inv, RunsCounted
  <2>2. CASE Hit(t)
    <3>1. PICK i \in R : runs[i].task = t
      BY <2>2
    <3>2. Cardinality(RunsOf(t)) = runs[i].retry_count + 1 /\ i \in 1..n
      <4>1. i \in RunsOf(t) /\ i \in 1..n /\ ~runs[i].released
        BY <1>2, <3>1 DEF RunsOf
      <4> QED
        BY <4>1 DEF Inv, RunsCounted
    <3>3. TaskSpec[t].max_retries \in Nat
      BY SchedulerConstants DEF SchedulerConstants
    <3>4. ~Exhausted(i) => Cardinality(RunsOf(t)) <= TaskSpec[t].max_retries
      BY <1>3, <3>1, <3>2, <3>3 DEF Exhausted
    <3>5. \A j \in RunsOf(t) : runs'[j].released
      BY <1>5, <3>1
    <3> QED
      BY <3>1, <3>4, <3>5 DEF Settled
  <2> QED
    BY <2>1, <2>2
<1>9. RetriesBounded'
  <2>1. \A i \in DOMAIN runs : Earlier(i)' = Earlier(i)
    BY DEF Earlier, RunsOf
  <2> QED
    BY <2>1 DEF Inv, RetriesBounded, Earlier
<1>10. \A t \in Tasks : Exists(t)' <=> Exists(t)
  BY <1>5, <1>6 DEF Exists, Settled
<1>11. Known' = Known /\ (\A c : Roots(c)' = Roots(c)) /\ \A p : Children(p)' = Children(p)
  BY <1>10 DEF Known, Roots, Children
<1>12. \A e \in deps : e[1] \in Tasks /\ e[2] \in Tasks
  BY DEF Inv, TypeOK
<1>13. RowsReferToRows'
  <2>1. \A u \in Tasks : TaskSpec[u].parent # NoParent => TaskSpec[u].parent \in Tasks
    BY SchedulerConstants DEF SchedulerConstants
  <2> QED
    BY <1>10, <1>11, <1>12, <2>1 DEF Inv, RowsReferToRows
<1>14. DependenciesRespected'
  <2> SUFFICES ASSUME NEW e \in deps, tasks'[e[1]].status = "running"
               PROVE  tasks'[e[2]].status = "completed"
    BY DEF DependenciesRespected
  <2>1. tasks[e[1]].status = "running"
    BY <1>5, <1>6, <1>12 DEF Settled
  <2>2. tasks[e[2]].status = "completed"
    BY <2>1 DEF Inv, DependenciesRespected
  <2>3. ~Hit(e[2])
    BY <1>5, <1>12, <2>2
  <2> QED
    BY <1>6, <1>12, <2>2, <2>3
<1>15. DependencyDAG'
  BY DEF Inv, DependencyDAG
<1>16. BudgetConserved'
  <2>1. BudgetConserved /\ campaigns' = campaigns
    BY DEF Inv
  <2>2. \A t \in Tasks : tasks'[t].child_allocated = tasks[t].child_allocated
    OBVIOUS
  <2> QED
    BY ONLY <1>11, <2>1, <2>2 DEF BudgetConserved, Roots, Children
<1> QED
  BY <1>7, <1>8, <1>9, <1>13, <1>14, <1>15, <1>16 DEF Inv
\* finish and recover release leases.
LEMMA FinishInv ==
    ASSUME Inv, NEW q \in calls, finish(q)
    PROVE  Inv'
<1> DEFINE t == runs[q.run].task
           st == IF q.result = "artifact" THEN "completed" ELSE "failed"
<1>1. PICK i \in DOMAIN runs : i = q.run
  BY DEF Inv, TypeOK
<1>2. PICK n \in Nat : n = Len(runs) /\ DOMAIN runs = 1..n /\ runs \in [1..n -> RunRow]
  BY RunsTable, Zenon DEF Inv
<1>3. /\ ~runs[i].released
      /\ tasks' = [tasks EXCEPT ![t].status = FinishStatus(q),
                                ![t].cooling = FinishStatus(q) = "hibernating"]
      /\ runs' = [runs EXCEPT ![i].status = st, ![i].released = TRUE]
      /\ calls' = calls \ {q}
      /\ UNCHANGED <<campaigns, deps>>
  BY <1>1 DEF finish, OwnsLease
<1>4. t \in Tasks /\ runs[i] \in RunRow
  BY <1>1, <1>2 DEF RunRow
<1>5. /\ FinishStatus(q) \in {"completed", "QUARANTINED", "hibernating"}
      /\ FinishStatus(q) = "hibernating" => ~Exhausted(i)
  BY <1>1 DEF FinishStatus
<1>6. st \in {"completed", "failed"}
  OBVIOUS
<1> HIDE DEF t, st
<1>7. tasks \in [Tasks -> TaskRow]
  BY TypeRows DEF Inv
<1>8. /\ tasks' \in [Tasks -> TaskRow]
      /\ tasks'[t].status = FinishStatus(q)
      /\ tasks'[t].child_allocated = tasks[t].child_allocated
      /\ \A u \in Tasks : u # t => tasks'[u] = tasks[u]
  <2> DEFINE new == [tasks[t] EXCEPT !.status = FinishStatus(q),
                                     !.cooling = FinishStatus(q) = "hibernating"]
  <2>1. new \in TaskRow
    <3>1. PICK b \in BOOLEAN : b = (FinishStatus(q) = "hibernating")
      OBVIOUS
    <3>2. tasks[t] \in TaskRow
      BY <1>4, <1>7
    <3>3. [tasks[t] EXCEPT !.status = FinishStatus(q), !.cooling = b] \in TaskRow
      BY ONLY <1>5, <3>2 DEF TaskRow
    <3> QED
      BY <3>1, <3>3
  <2>2. new.status = FinishStatus(q) /\ new.child_allocated = tasks[t].child_allocated
    BY <1>4, <1>7 DEF TaskRow
  <2>3. tasks' = [tasks EXCEPT ![t] = new]
    BY <1>3, <1>4, <1>7
  <2> HIDE DEF new
  <2> QED
    BY <1>4, <1>7, <2>1, <2>2, <2>3
<1>9. /\ runs' \in [1..n -> RunRow]
      /\ runs'[i].released
      /\ runs'[i].task = runs[i].task /\ runs'[i].retry_count = runs[i].retry_count
      /\ \A j \in 1..n : j # i => runs'[j] = runs[j]
  <2> DEFINE new == [runs[i] EXCEPT !.status = st, !.released = TRUE]
  <2>1. new \in RunRow
    BY <1>4, <1>6 DEF RunRow
  <2>2. new.released /\ new.task = runs[i].task /\ new.retry_count = runs[i].retry_count
    BY <1>4 DEF RunRow
  <2>3. runs' = [runs EXCEPT ![i] = new]
    BY <1>2, <1>3
  <2> HIDE DEF new
  <2> QED
    BY <1>1, <1>2, <2>1, <2>2, <2>3
<1>10. runs' \in Seq(RunRow) /\ DOMAIN runs' = DOMAIN runs
  BY <1>2, <1>9, SeqOfRuns
<1>11. TypeOK'
  BY <1>3, <1>8, <1>10 DEF Inv, TypeOK, TaskRow, RunRow
<1>12. t = runs[i].task
  BY <1>1 DEF t
<1> DEFINE R == {i}
<1>13. \A j \in R : \/ tasks'[runs[j].task].status \in Settled
                    \/ /\ tasks'[runs[j].task].status \in {"queued", "hibernating"}
                       /\ ~Exhausted(j)
  BY <1>5, <1>8, <1>12 DEF Settled
<1>14. /\ \A u \in Tasks : tasks'[u].child_allocated = tasks[u].child_allocated
       /\ \A u \in Tasks : (\A j \in R : runs[j].task # u) => tasks'[u].status = tasks[u].status
  BY <1>8, <1>12
<1>15. /\ R \in SUBSET DOMAIN runs
       /\ \A j \in R : ~runs[j].released
       /\ \A j \in DOMAIN runs : /\ runs'[j].task = runs[j].task
                                  /\ runs'[j].retry_count = runs[j].retry_count
       /\ \A j \in DOMAIN runs : j \notin R => runs'[j] = runs[j]
       /\ \A j \in R : runs'[j].released
  BY <1>2, <1>3, <1>9
<1> HIDE DEF R
<1> QED
  BY <1>3, <1>10, <1>11, <1>13, <1>14, <1>15, ReleaseInv

\* recover takes back the leases that had run out when it started.
LEMMA RecoverInv ==
    ASSUME Inv, NEW seen \in SUBSET ExpiredLeases, recover(seen)
    PROVE  Inv'
<1> DEFINE At(t) == CHOOSE j \in seen : runs[j].task = t
<1>1. /\ tasks' = [t \in Tasks |->
                      IF \E i \in seen : runs[i].task = t
                      THEN [tasks[t] EXCEPT !.status = RecoveredStatus(At(t))]
                      ELSE tasks[t]]
      /\ runs' = [i \in DOMAIN runs |->
                      IF i \in seen THEN [runs[i] EXCEPT !.status = "expired", !.released = TRUE]
                      ELSE runs[i]]
      /\ UNCHANGED <<campaigns, deps, calls>>
  BY DEF recover
<1>2. seen \in SUBSET DOMAIN runs /\ \A i \in seen : ~runs[i].released
  BY DEF ExpiredLeases
<1>3. PICK n \in Nat : n = Len(runs) /\ DOMAIN runs = 1..n /\ runs \in [1..n -> RunRow]
  BY RunsTable, Zenon DEF Inv
<1>4. tasks \in [Tasks -> TaskRow]
  BY TypeRows DEF Inv
<1>5. ASSUME NEW i \in seen, NEW j \in seen, runs[j].task = runs[i].task
      PROVE  j = i
  <2>1. i <= j /\ j <= i
    BY <1>2, <1>3, <1>5 DEF Inv, LeaseOwnsTask, RunsOf
  <2> QED
    BY <1>2, <1>3, <2>1
<1>6. \A i \in seen : At(runs[i].task) = i
  BY <1>5
<1>7. \A i \in seen : runs[i].task \in Tasks /\ runs[i] \in RunRow
  BY <1>2, <1>3 DEF RunRow
<1> HIDE DEF At
<1>8. ASSUME NEW t \in Tasks
      PROVE  /\ tasks'[t] \in TaskRow
             /\ tasks'[t].child_allocated = tasks[t].child_allocated
             /\ (\A i \in seen : runs[i].task # t) => tasks'[t].status = tasks[t].status
             /\ \A i \in seen : runs[i].task = t => tasks'[t].status = RecoveredStatus(i)
  <2>1. CASE \A i \in seen : runs[i].task # t
    BY <1>1, <1>4, <2>1
  <2>2. ASSUME NEW i \in seen, runs[i].task = t
        PROVE  /\ tasks'[t] \in TaskRow
               /\ tasks'[t].child_allocated = tasks[t].child_allocated
               /\ tasks'[t].status = RecoveredStatus(i)
    <3>1. tasks'[t] = [tasks[t] EXCEPT !.status = RecoveredStatus(i)]
      BY <1>1, <1>6, <2>2
    <3>2. RecoveredStatus(i) \in {"QUARANTINED", "queued"}
      BY DEF RecoveredStatus
    <3>3. tasks[t] \in TaskRow
      BY <1>4
    <3> QED
      BY ONLY <3>1, <3>2, <3>3 DEF TaskRow
  <2> QED
    BY <2>1, <2>2
<1>9. tasks' \in [Tasks -> TaskRow]
  <2>1. tasks' = [t \in Tasks |-> tasks'[t]]
    BY <1>1
  <2> QED
    BY <1>8, <2>1
<1>10. ASSUME NEW i \in 1..n
       PROVE  /\ runs'[i] \in RunRow
              /\ runs'[i].task = runs[i].task /\ runs'[i].retry_count = runs[i].retry_count
              /\ i \notin seen => runs'[i] = runs[i]
              /\ i \in seen => runs'[i].released
  <2>1. CASE i \in seen
    <3>1. runs'[i] = [runs[i] EXCEPT !.status = "expired", !.released = TRUE]
      BY <1>1, <1>3, <2>1
    <3>2. runs[i] \in RunRow
      BY <1>3
    <3>3. /\ runs'[i] \in RunRow /\ runs'[i].released
          /\ runs'[i].task = runs[i].task /\ runs'[i].retry_count = runs[i].retry_count
      BY ONLY <3>1, <3>2 DEF RunRow
    <3> QED
      BY <2>1, <3>3
  <2>2. CASE i \notin seen
    BY <1>1, <1>3, <2>2
  <2> QED
    BY <2>1, <2>2
<1>11. runs' \in Seq(RunRow) /\ DOMAIN runs' = DOMAIN runs
  <2>1. runs' = [i \in 1..n |-> runs'[i]]
    BY <1>1, <1>3
  <2>2. runs' \in [1..n -> RunRow]
    BY <1>10, <2>1
  <2> QED
    BY <1>3, <2>2, SeqOfRuns
<1>12. TypeOK'
  BY <1>1, <1>9, <1>11 DEF Inv, TypeOK, TaskRow, RunRow
<1>13. \A i \in seen : \/ tasks'[runs[i].task].status \in Settled
                       \/ /\ tasks'[runs[i].task].status \in {"queued", "hibernating"}
                          /\ ~Exhausted(i)
  BY <1>7, <1>8 DEF RecoveredStatus, Settled
<1>14. \A t \in Tasks : /\ tasks'[t].child_allocated = tasks[t].child_allocated
                        /\ (\A i \in seen : runs[i].task # t) => tasks'[t].status = tasks[t].status
  BY <1>8
<1>15. /\ \A i \in DOMAIN runs : /\ runs'[i].task = runs[i].task
                                  /\ runs'[i].retry_count = runs[i].retry_count
       /\ \A i \in DOMAIN runs : i \notin seen => runs'[i] = runs[i]
       /\ \A i \in seen : runs'[i].released
  BY <1>2, <1>3, <1>10
<1>16. UNCHANGED <<campaigns, deps>>
  BY <1>1
<1> QED
  BY <1>2, <1>11, <1>12, <1>13, <1>14, <1>15, <1>16, ReleaseInv
\* Every step of the scheduler keeps the invariant.
LEMMA InvNext == Inv /\ [Next]_vars => Inv'
<1> SUFFICES ASSUME Inv, [Next]_vars PROVE Inv'
  OBVIOUS
<1>1. ASSUME NEW c \in Campaigns, campaign(c) \/ HorizonPasses(c) PROVE Inv'
  <2>1. UNCHANGED <<tasks, deps, runs, calls>>
    BY <1>1 DEF campaign, HorizonPasses
  <2>2. campaigns \in [Campaigns -> CampaignRow]
    BY TypeRows DEF Inv
  <2>3. /\ campaigns' \in [Campaigns -> CampaignRow]
        /\ \A d \in Campaigns : campaigns'[d].allocated = campaigns[d].allocated
    <3>1. CASE campaign(c)
      BY <2>2, <3>1 DEF campaign, CampaignRow
    <3>2. CASE HorizonPasses(c)
      BY <2>2, <3>2 DEF HorizonPasses, CampaignRow
    <3> QED
      BY <1>1, <3>1, <3>2
  <2>4. TypeOK'
    BY <2>1, <2>3 DEF Inv, TypeOK, CampaignRow
  <2> QED
    BY <2>1, <2>3, <2>4, QuietInv
<1>2. ASSUME NEW t \in Tasks, enqueue(t) PROVE Inv'
  BY <1>2, EnqueueInv
<1>3. ASSUME NEW t \in Tasks, CoolsDown(t) PROVE Inv'
  <2>1. tasks' = [tasks EXCEPT ![t].cooling = FALSE] /\ UNCHANGED <<campaigns, deps, runs, calls>>
    BY <1>3 DEF CoolsDown
  <2>2. tasks \in [Tasks -> TaskRow]
    BY TypeRows DEF Inv
  <2>3. /\ tasks' \in [Tasks -> TaskRow]
        /\ \A u \in Tasks : /\ tasks'[u].status = tasks[u].status
                             /\ tasks'[u].child_allocated = tasks[u].child_allocated
    BY <2>1, <2>2 DEF TaskRow
  <2>4. TypeOK'
    BY <2>1, <2>3 DEF Inv, TypeOK, TaskRow
  <2> QED
    BY <2>1, <2>3, <2>4, QuietInv
<1>4. ASSUME NEW t \in Tasks, NEW d \in Tasks, add_dependency(t, d) PROVE Inv'
  BY <1>4, AddDependencyInv
<1>5. ASSUME NEW k \in DOMAIN ClassLimits, claim(k) PROVE Inv'
  BY <1>5, ClaimInv
<1>6. ASSUME NEW i \in DOMAIN runs, NEW result \in Results, FinishStart(i, result) PROVE Inv'
  <2>1. /\ UNCHANGED <<campaigns, tasks, deps, runs>>
        /\ calls' = calls \cup {[run |-> i, result |-> result,
                                 expired_at_start |-> runs[i].lease_expired]}
    BY <1>6 DEF FinishStart
  <2>2. runs[i].lease_expired \in BOOLEAN
    BY RunsTable DEF Inv, RunRow
  <2>3. TypeOK'
    BY <2>1, <2>2 DEF Inv, TypeOK
  <2> QED
    BY <2>1, <2>3, QuietInv
<1>7. ASSUME NEW q \in calls, finish(q) PROVE Inv'
  BY <1>7, FinishInv
<1>8. ASSUME NEW q \in calls, FinishAborted(q) PROVE Inv'
  <2>1. UNCHANGED <<campaigns, tasks, deps, runs>> /\ calls' \subseteq calls
    BY <1>8 DEF FinishAborted
  <2>2. TypeOK'
    BY <2>1 DEF Inv, TypeOK
  <2> QED
    BY <2>1, <2>2, QuietInv
<1>9. ASSUME NEW seen \in SUBSET ExpiredLeases, recover(seen) PROVE Inv'
  BY <1>9, RecoverInv
<1>10. ASSUME NEW i \in DOMAIN runs, LeaseExpires(i) PROVE Inv'
  <2>1. runs' = [runs EXCEPT ![i].lease_expired = TRUE] /\ UNCHANGED <<campaigns, tasks, deps, calls>>
    BY <1>10 DEF LeaseExpires
  <2>2. PICK n \in Nat : DOMAIN runs = 1..n /\ runs \in [1..n -> RunRow]
    BY RunsTable, Zenon DEF Inv
  <2>3. /\ runs' \in [1..n -> RunRow]
        /\ \A j \in 1..n : /\ runs'[j].task = runs[j].task
                            /\ runs'[j].status = runs[j].status
                            /\ runs'[j].retry_count = runs[j].retry_count
                            /\ runs'[j].released = runs[j].released
    BY <2>1, <2>2 DEF RunRow
  <2>4. runs' \in Seq(RunRow) /\ DOMAIN runs' = DOMAIN runs
    BY <2>2, <2>3, SeqOfRuns
  <2>5. TypeOK'
    BY <2>1, <2>4 DEF Inv, TypeOK, RunRow
  <2> QED
    BY <2>1, <2>2, <2>3, <2>4, <2>5, QuietInv
<1>11. CASE UNCHANGED vars
  <2>1. UNCHANGED <<campaigns, tasks, deps, runs, calls>>
    BY <1>11 DEF vars
  <2>2. TypeOK'
    BY <2>1 DEF Inv, TypeOK
  <2> QED
    BY <2>1, <2>2, QuietInv
<1> QED
  BY <1>1, <1>2, <1>3, <1>4, <1>5, <1>6, <1>7, <1>8, <1>9, <1>10, <1>11 DEF Next

-------------------------------------------------------------------------------
(* The theorems.                                                           *)

\* The invariant holds in every reachable state of the scheduler, whatever
\* workers die, leases run out and finish() calls come late.
THEOREM Invariance == Spec => []Inv
BY InvInit, InvNext, PTL DEF Spec

\* The scheduler's tables keep their shape.
THEOREM TypeCorrect == Spec => []TypeOK
<1>1. Inv => TypeOK
  BY DEF Inv
<1> QED
  BY <1>1, Invariance, PTL

\* claim, finish and recover never leave a task running without a lease, or
\* with two, or with one that is not of its newest run.
THEOREM OneLeasePerRunningTask == Spec => []LeaseOwnsTask
<1>1. Inv => LeaseOwnsTask
  BY DEF Inv
<1> QED
  BY <1>1, Invariance, PTL

\* However runs end, by finish or by recover, claim starts a task at most
\* max_retries + 1 times and numbers its runs without a gap.
THEOREM BoundedRetries == Spec => []RetriesBounded
<1>1. Inv => RetriesBounded
  BY DEF Inv
<1> QED
  BY <1>1, Invariance, PTL

\* No dependency that enqueue or add_dependency records is outrun by claim.
THEOREM DependenciesFirst == Spec => []DependenciesRespected
<1>1. Inv => DependenciesRespected
  BY DEF Inv
<1> QED
  BY <1>1, Invariance, PTL

\* The recursive query of add_dependency suffices: no cycle is ever closed.
THEOREM NoDependencyCycle == Spec => []DependencyDAG
<1>1. Inv => DependencyDAG
  BY DEF Inv
<1> QED
  BY <1>1, Invariance, PTL

\* The counters enqueue keeps are the sums of the budgets drawn on them, and
\* never exceed what campaign or parent has.
THEOREM BudgetsConserved == Spec => []BudgetConserved
<1>1. Inv => BudgetConserved
  BY DEF Inv
<1> QED
  BY <1>1, Invariance, PTL

\* No late finish(), recover(), claim or repeated enqueue moves a task that is
\* completed or quarantined.
THEOREM SettledStays == Spec => SettledForGood
<1> DEFINE Kept(t) == tasks[t].status \in Settled => tasks'[t].status = tasks[t].status
<1>1. Inv /\ [Next]_vars => [\A t \in Tasks : Kept(t)]_tasks
  <2> SUFFICES ASSUME Inv, [Next]_vars, NEW t \in Tasks, tasks[t].status \in Settled
               PROVE  tasks'[t].status = tasks[t].status
    OBVIOUS
  <2> USE DEF Settled
  <2>1. ASSUME NEW i \in DOMAIN runs, ~runs[i].released PROVE runs[i].task # t
    BY <2>1 DEF Inv, LeaseOwnsTask, RunsOf
  <2>2. tasks \in [Tasks -> TaskRow]
    BY TypeRows DEF Inv
  <2>3. ASSUME NEW c \in Campaigns, campaign(c) \/ HorizonPasses(c)
        PROVE  tasks'[t].status = tasks[t].status
    BY <2>3 DEF campaign, HorizonPasses
  <2>4. ASSUME NEW u \in Tasks, enqueue(u) PROVE tasks'[t].status = tasks[t].status
    <3>1. u # t
      BY <2>4 DEF enqueue, Exists
    <3> QED
      BY <2>2, <2>4, <3>1 DEF enqueue, TaskRow
  <2>5. ASSUME NEW u \in Tasks, CoolsDown(u) PROVE tasks'[t].status = tasks[t].status
    BY <2>2, <2>5 DEF CoolsDown, TaskRow
  <2>6. ASSUME NEW u \in Tasks, NEW d \in Tasks, add_dependency(u, d)
        PROVE  tasks'[t].status = tasks[t].status
    BY <2>6 DEF add_dependency
  <2>7. ASSUME NEW k \in DOMAIN ClassLimits, claim(k) PROVE tasks'[t].status = tasks[t].status
    <3>1. Candidates(k) # {}
      BY <2>7 DEF claim
    <3>2. Candidates(k) \subseteq Known
      BY DEF Candidates, Known, Exists
    <3>3. IsFiniteSet(Candidates(k)) /\ Candidates(k) \in SUBSET Tasks
      BY <3>2, FS_Subset DEF Inv, RowsReferToRows, Candidates
    <3>4. Selected(Candidates(k)) \in Candidates(k)
      BY <3>1, <3>3, SelectedIsCandidate DEF Inv
    <3>5. Selected(Candidates(k)) # t
      BY <3>4, Zenon DEF Candidates
    <3> QED
      BY <2>2, <2>7, <3>5 DEF claim
  <2>8. ASSUME NEW i \in DOMAIN runs, NEW result \in Results, FinishStart(i, result)
        PROVE  tasks'[t].status = tasks[t].status
    BY <2>8 DEF FinishStart
  <2>9. ASSUME NEW q \in calls, finish(q) PROVE tasks'[t].status = tasks[t].status
    <3>1. q.run \in DOMAIN runs
      BY DEF Inv, TypeOK
    <3>2. runs[q.run].task # t
      BY <2>1, <2>9, <3>1 DEF finish, OwnsLease
    <3> QED
      BY <2>2, <2>9, <3>2 DEF finish
  <2>10. ASSUME NEW q \in calls, FinishAborted(q) PROVE tasks'[t].status = tasks[t].status
    BY <2>10 DEF FinishAborted
  <2>11. ASSUME NEW seen \in SUBSET ExpiredLeases, recover(seen)
         PROVE  tasks'[t].status = tasks[t].status
    <3>1. \A i \in seen : runs[i].task # t
      BY <2>1 DEF ExpiredLeases
    <3> QED
      BY <2>11, <3>1 DEF recover
  <2>12. ASSUME NEW i \in DOMAIN runs, LeaseExpires(i) PROVE tasks'[t].status = tasks[t].status
    BY <2>12 DEF LeaseExpires
  <2>13. CASE UNCHANGED vars
    BY <2>13 DEF vars
  <2> QED
    BY <2>3, <2>4, <2>5, <2>6, <2>7, <2>8, <2>9, <2>10, <2>11, <2>12, <2>13 DEF Next
<1> QED
  BY <1>1, Invariance, PTL DEF Spec, SettledForGood

-------------------------------------------------------------------------------
(* Results.                                                                *)

\* A task is completed exactly when one of its runs is, and no second run of it
\* ever is: a worker whose lease was taken over adds no result, and one whose
\* finish() commits after its lease expired does so as the only one.
OneResult ==
    /\ \A i, j \in DOMAIN runs :
          /\ runs[i].task = runs[j].task
          /\ runs[i].status = "completed" /\ runs[j].status = "completed"
          => i = j
    /\ \A t \in Tasks :
          tasks[t].status = "completed" <=> \E i \in DOMAIN runs : /\ runs[i].task = t
                                                                   /\ runs[i].status = "completed"

\* Steps that complete no run and no task, and undo none.
NothingCompleted ==
    /\ \A i \in DOMAIN runs : /\ i \in DOMAIN runs'
                              /\ runs'[i].task = runs[i].task
                              /\ runs'[i].status = "completed" <=> runs[i].status = "completed"
    /\ \A i \in DOMAIN runs' : i \in DOMAIN runs \/ runs'[i].status # "completed"
    /\ \A t \in Tasks : tasks'[t].status = "completed" <=> tasks[t].status = "completed"

\* They leave the results as they are.
LEMMA ResultsStay ==
    ASSUME OneResult, NothingCompleted
    PROVE  OneResult'
<1>1. \A i \in DOMAIN runs' : runs'[i].status = "completed" =>
          i \in DOMAIN runs /\ runs'[i].task = runs[i].task /\ runs[i].status = "completed"
  BY DEF NothingCompleted
<1>2. ASSUME NEW i \in DOMAIN runs', NEW j \in DOMAIN runs', runs'[i].task = runs'[j].task,
             runs'[i].status = "completed", runs'[j].status = "completed"
      PROVE  i = j
  BY <1>1, <1>2 DEF OneResult
<1>3. ASSUME NEW t \in Tasks
      PROVE  tasks'[t].status = "completed" <=> \E i \in DOMAIN runs' :
                                                   /\ runs'[i].task = t
                                                   /\ runs'[i].status = "completed"
  <2>1. tasks[t].status = "completed" <=> \E i \in DOMAIN runs : /\ runs[i].task = t
                                                                 /\ runs[i].status = "completed"
    BY DEF OneResult
  <2> QED
    BY <1>1, <2>1 DEF NothingCompleted
<1> QED
  BY <1>2, <1>3 DEF OneResult

\* Every step but a finish() with an artifact completes nothing.
LEMMA OthersComplete ==
    ASSUME Inv, [Next]_vars, \A q \in calls : finish(q) => q.result # "artifact"
    PROVE  NothingCompleted
<1>1. runs \in [1..Len(runs) -> RunRow] /\ DOMAIN runs = 1..Len(runs) /\ Len(runs) \in Nat
  BY RunsTable DEF Inv
<1>2. tasks \in [Tasks -> TaskRow]
  BY TypeRows DEF Inv
<1>3. ASSUME runs' = runs,
             \A t \in Tasks : tasks'[t].status = "completed" <=> tasks[t].status = "completed"
      PROVE  NothingCompleted
  BY <1>3 DEF NothingCompleted
<1>4. ASSUME NEW c \in Campaigns, campaign(c) \/ HorizonPasses(c) PROVE NothingCompleted
  BY <1>3, <1>4 DEF campaign, HorizonPasses
<1>5. ASSUME NEW u \in Tasks, enqueue(u) PROVE NothingCompleted
  <2>1. runs' = runs /\ tasks[u].status = "absent"
    BY <1>5 DEF enqueue, Exists
  <2>2. tasks'[u].status = "queued" /\ \A t \in Tasks : t # u => tasks'[t].status = tasks[t].status
    <3> DEFINE s == TaskSpec[u]
               row == [status |-> "queued", cooling |-> FALSE, child_allocated |-> 0,
                       created |-> Cardinality({v \in Tasks : Exists(v)}) + 1]
    <3>1. s.parent = NoParent => tasks' = [tasks EXCEPT ![u] = row]
      BY <1>5 DEF enqueue
    <3>2. s.parent # NoParent =>
            tasks' = [tasks EXCEPT ![u] = row, ![s.parent].child_allocated = @ + s.budget_usd]
      BY <1>5 DEF enqueue
    <3>3. row.status = "queued"
      OBVIOUS
    <3> HIDE DEF row
    <3>4. CASE s.parent = NoParent
      BY <1>2, <3>1, <3>3, <3>4
    <3>5. CASE s.parent # NoParent
      <4>1. s.parent # u
        BY <1>5, <3>5 DEF enqueue, ParentAccepts
      <4>2. s.parent \in Tasks
        BY <3>5, SchedulerConstants DEF SchedulerConstants
      <4> HIDE DEF s
      <4> QED
        BY <1>2, <3>2, <3>3, <3>5, <4>1, <4>2 DEF TaskRow
    <3> QED
      BY <3>4, <3>5
  <2>3. \A t \in Tasks : tasks'[t].status = "completed" <=> tasks[t].status = "completed"
    BY <2>1, <2>2
  <2> QED
    BY <1>3, <2>1, <2>3
<1>6. ASSUME NEW u \in Tasks, CoolsDown(u) PROVE NothingCompleted
  <2>1. \A t \in Tasks : tasks'[t].status = tasks[t].status
    BY <1>2, <1>6 DEF CoolsDown, TaskRow
  <2> QED
    BY <1>3, <1>6, <2>1 DEF CoolsDown
<1>7. ASSUME NEW u \in Tasks, NEW d \in Tasks, add_dependency(u, d) PROVE NothingCompleted
  BY <1>3, <1>7 DEF add_dependency
<1>8. ASSUME NEW k \in DOMAIN ClassLimits, claim(k) PROVE NothingCompleted
  <2> DEFINE t == Selected(Candidates(k))
             row == [task |-> t, status |-> "running",
                     retry_count |-> Cardinality(RunsOf(t)),
                     lease_expired |-> FALSE, released |-> FALSE]
  <2>1. t \in Candidates(k)
    <3>1. Candidates(k) # {}
      BY <1>8 DEF claim
    <3>2. Candidates(k) \subseteq Known
      BY DEF Candidates, Known, Exists
    <3>3. IsFiniteSet(Candidates(k)) /\ Candidates(k) \in SUBSET Tasks
      BY <3>2, FS_Subset DEF Inv, RowsReferToRows, Candidates
    <3> QED
      BY <3>1, <3>3, SelectedIsCandidate DEF Inv
  <2>2. t \in Tasks /\ tasks[t].status # "completed"
    BY <2>1, Zenon DEF Candidates
  <2>3. tasks' = [tasks EXCEPT ![t].status = "running"] /\ runs' = Append(runs, row)
    BY <1>8 DEF claim
  <2>4. row.status = "running"
    OBVIOUS
  <2> HIDE DEF t, row
  <2>5. \A u \in Tasks : tasks'[u].status = "completed" <=> tasks[u].status = "completed"
    BY <1>2, <2>2, <2>3 DEF TaskRow
  <2>6. /\ DOMAIN runs' = 1..(Len(runs) + 1)
        /\ \A i \in 1..Len(runs) : runs'[i] = runs[i]
        /\ runs'[Len(runs) + 1] = row
    <3>1. runs \in Seq(RunRow)
      BY TypeRows DEF Inv
    <3> QED
      BY <2>3, <3>1
  <2> QED
    BY <1>1, <2>4, <2>5, <2>6 DEF NothingCompleted
<1>9. ASSUME NEW i \in DOMAIN runs, NEW result \in Results, FinishStart(i, result)
      PROVE  NothingCompleted
  BY <1>3, <1>9 DEF FinishStart
<1>10. ASSUME NEW q \in calls, finish(q) PROVE NothingCompleted
  <2> DEFINE t == runs[q.run].task
             s == FinishStatus(q)
  <2>1. q.run \in DOMAIN runs /\ q.result # "artifact"
    BY <1>10 DEF Inv, TypeOK
  <2>2. runs[q.run].status = "running" /\ t \in Tasks /\ tasks[t].status = "running"
    <3>1. ~runs[q.run].released
      BY <1>10 DEF finish, OwnsLease
    <3>2. t \in Tasks
      BY <1>1, <2>1 DEF RunRow
    <3> QED
      BY <2>1, <3>1, <3>2 DEF Inv, LeaseOwnsTask, RunsOf
  <2>3. s # "completed"
    BY <2>1 DEF FinishStatus
  <2>4. tasks' = [tasks EXCEPT ![t].status = s, ![t].cooling = (s = "hibernating")]
    BY <1>10 DEF finish
  <2>5. runs' = [runs EXCEPT ![q.run].status = "failed", ![q.run].released = TRUE]
    BY <1>10, <2>1 DEF finish
  <2> HIDE DEF t, s
  <2>6. \A u \in Tasks : tasks'[u].status = "completed" <=> tasks[u].status = "completed"
    BY <1>2, <2>2, <2>3, <2>4 DEF TaskRow
  <2>7. /\ DOMAIN runs' = DOMAIN runs
        /\ \A i \in DOMAIN runs : /\ runs'[i].task = runs[i].task
                                  /\ i # q.run => runs'[i] = runs[i]
        /\ runs'[q.run].status = "failed"
    BY <1>1, <2>1, <2>5 DEF RunRow
  <2> QED
    BY <2>1, <2>2, <2>6, <2>7 DEF NothingCompleted
<1>11. ASSUME NEW q \in calls, FinishAborted(q) PROVE NothingCompleted
  BY <1>3, <1>11 DEF FinishAborted
<1>12. ASSUME NEW seen \in SUBSET ExpiredLeases, recover(seen) PROVE NothingCompleted
  <2>1. \A i \in seen : /\ i \in DOMAIN runs
                        /\ runs[i].status = "running"
                        /\ tasks[runs[i].task].status = "running"
    <3> SUFFICES ASSUME NEW i \in seen
                 PROVE  /\ i \in DOMAIN runs
                        /\ runs[i].status = "running"
                        /\ tasks[runs[i].task].status = "running"
      OBVIOUS
    <3>1. i \in DOMAIN runs /\ ~runs[i].released
      BY DEF ExpiredLeases
    <3>2. runs[i].task \in Tasks
      BY <1>1, <3>1 DEF RunRow
    <3> QED
      BY <3>1, <3>2 DEF Inv, LeaseOwnsTask, RunsOf
  <2>2. /\ DOMAIN runs' = DOMAIN runs
        /\ \A i \in DOMAIN runs : i \notin seen => runs'[i] = runs[i]
        /\ \A i \in seen : runs'[i] = [runs[i] EXCEPT !.status = "expired", !.released = TRUE]
    BY <1>12, <2>1 DEF recover
  <2>3. \A i \in seen : runs'[i].status = "expired" /\ runs'[i].task = runs[i].task
    <3> SUFFICES ASSUME NEW i \in seen
                 PROVE  runs'[i].status = "expired" /\ runs'[i].task = runs[i].task
      OBVIOUS
    <3>1. runs[i] \in RunRow
      BY <1>1, <2>1
    <3> QED
      BY <2>2, <3>1 DEF RunRow
  <2>4. ASSUME NEW t \in Tasks
        PROVE  tasks'[t].status = "completed" <=> tasks[t].status = "completed"
    <3>1. CASE \A i \in seen : runs[i].task # t
      BY <1>12, <3>1 DEF recover
    <3>2. CASE \E i \in seen : runs[i].task = t
      <4> DEFINE i == CHOOSE j \in seen : runs[j].task = t
      <4>1. tasks'[t] = [tasks[t] EXCEPT !.status = RecoveredStatus(i)]
        BY <1>12, <3>2 DEF recover
      <4>2. tasks'[t].status = RecoveredStatus(i)
        BY <1>2, <4>1 DEF TaskRow
      <4>3. RecoveredStatus(i) # "completed"
        BY DEF RecoveredStatus
      <4>4. tasks[t].status = "running"
        BY <2>1, <3>2
      <4> QED
        BY <4>2, <4>3, <4>4
    <3> QED
      BY <3>1, <3>2
  <2> QED
    BY <2>1, <2>2, <2>3, <2>4 DEF NothingCompleted
<1>13. ASSUME NEW i \in DOMAIN runs, LeaseExpires(i) PROVE NothingCompleted
  <2>1. runs' = [runs EXCEPT ![i].lease_expired = TRUE] /\ tasks' = tasks
    BY <1>13 DEF LeaseExpires
  <2>2. DOMAIN runs' = DOMAIN runs
        /\ \A j \in DOMAIN runs : runs'[j].task = runs[j].task /\ runs'[j].status = runs[j].status
    BY <1>1, <2>1 DEF RunRow
  <2> QED
    BY <2>1, <2>2 DEF NothingCompleted
<1>14. CASE UNCHANGED vars
  BY <1>3, <1>14 DEF vars
<1> QED
  BY <1>4, <1>5, <1>6, <1>7, <1>8, <1>9, <1>10, <1>11, <1>12, <1>13, <1>14 DEF Next

\* A finish() with an artifact gives its task the one result it has.
LEMMA FirstResult ==
    ASSUME Inv, OneResult, NEW q \in calls, finish(q), q.result = "artifact"
    PROVE  OneResult'
<1> DEFINE t == runs[q.run].task
<1>1. runs \in [1..Len(runs) -> RunRow] /\ DOMAIN runs = 1..Len(runs)
  BY RunsTable DEF Inv
<1>2. tasks \in [Tasks -> TaskRow]
  BY TypeRows DEF Inv
<1>3. q.run \in DOMAIN runs
  BY DEF Inv, TypeOK
<1>4. t \in Tasks /\ tasks[t].status = "running"
  <2>1. ~runs[q.run].released
    BY DEF finish, OwnsLease
  <2>2. t \in Tasks
    BY <1>1, <1>3 DEF RunRow
  <2> QED
    BY <1>3, <2>1, <2>2 DEF Inv, LeaseOwnsTask, RunsOf
<1>5. \A i \in DOMAIN runs : runs[i].task = t => runs[i].status # "completed"
  BY <1>4 DEF OneResult
<1>6. tasks'[t].status = "completed" /\ \A u \in Tasks : u # t => tasks'[u] = tasks[u]
  <2>1. tasks' = [tasks EXCEPT ![t].status = "completed", ![t].cooling = FALSE]
    BY DEF finish, FinishStatus
  <2> HIDE DEF t
  <2> QED
    BY <1>2, <1>4, <2>1 DEF TaskRow
<1>7. /\ DOMAIN runs' = DOMAIN runs
      /\ \A i \in DOMAIN runs : /\ runs'[i].task = runs[i].task
                                /\ i # q.run => runs'[i] = runs[i]
      /\ runs'[q.run].status = "completed"
  <2>1. runs' = [runs EXCEPT ![q.run].status = "completed", ![q.run].released = TRUE]
    BY DEF finish
  <2> QED
    BY <1>1, <1>3, <2>1 DEF RunRow
<1> HIDE DEF t
<1>8. ASSUME NEW i \in DOMAIN runs', NEW j \in DOMAIN runs', runs'[i].task = runs'[j].task,
             runs'[i].status = "completed", runs'[j].status = "completed"
      PROVE  i = j
  BY <1>5, <1>7, <1>8 DEF OneResult, t
<1>9. ASSUME NEW u \in Tasks
      PROVE  tasks'[u].status = "completed" <=> \E i \in DOMAIN runs' :
                                                   /\ runs'[i].task = u
                                                   /\ runs'[i].status = "completed"
  <2>1. CASE u = t
    BY <1>3, <1>6, <1>7, <2>1 DEF t
  <2>2. CASE u # t
    <3>1. \A i \in DOMAIN runs : runs'[i].task = u => runs'[i] = runs[i]
      BY <1>7, <2>2 DEF t
    <3>2. tasks[u].status = "completed" <=> \E i \in DOMAIN runs : /\ runs[i].task = u
                                                                   /\ runs[i].status = "completed"
      BY DEF OneResult
    <3> QED
      BY <1>6, <1>7, <2>2, <3>1, <3>2
  <2> QED
    BY <2>1, <2>2
<1> QED
  BY <1>8, <1>9 DEF OneResult

\* A task has one result or none, and is completed exactly when it has one: no
\* retry, recovery or late commit adds a second.
THEOREM OneResultPerTask == Spec => []OneResult
<1>1. Init => OneResult
  BY DEF Init, OneResult
<1>2. Inv /\ OneResult /\ [Next]_vars => OneResult'
  <2> SUFFICES ASSUME Inv, OneResult, [Next]_vars PROVE OneResult'
    OBVIOUS
  <2>1. CASE \E q \in calls : finish(q) /\ q.result = "artifact"
    BY <2>1, FirstResult
  <2>2. CASE \A q \in calls : finish(q) => q.result # "artifact"
    BY <2>2, OthersComplete, ResultsStay
  <2> QED
    BY <2>1, <2>2
<1> QED
  BY <1>1, <1>2, Invariance, PTL DEF Spec
================================================================================
