----------------------------- MODULE MCScheduler -----------------------------
(* Scheduler for TLC: one campaign, related tasks, one class with two slots. *)
EXTENDS Scheduler, TLC

CONSTANTS c1, t1, t2, t3, t4, t5, t6

MCUsdBudget == [c \in Campaigns |-> 3]

MCTask(parent, budget, retries, lane, score, dependencies, semantic) ==
    [campaign |-> c1, parent |-> parent, budget_usd |-> budget, max_retries |-> retries,
     lane_class |-> lane, task_class |-> "cheap", voi_lower_bound |-> 1, score |-> score,
     dependencies |-> dependencies, semantic_hash |-> semantic,
     independent_if_parent_fails |-> FALSE]

\* t1 has a retry; its children t2 and t4 do not fit together in its budget;
\* t3 waits for t1; t5 does not fit in the campaign with t1 and t3; t6 is t3
\* under another name.
MCTaskSpec == t1 :> MCTask(NoParent, 2, 1, "EXPLOIT", 2, {}, 1)
           @@ t2 :> MCTask(t1, 1, 0, "NOVELTY", 1, {}, 2)
           @@ t3 :> MCTask(NoParent, 1, 0, "REPLICATION", 1, {t1}, 3)
           @@ t4 :> MCTask(t1, 2, 0, "REPLICATION", 1, {}, 4)
           @@ t5 :> MCTask(NoParent, 2, 0, "DATA_QA", 1, {}, 5)
           @@ t6 :> MCTask(NoParent, 0, 0, "EXPLOIT", 1, {}, 3)

MCClassLimits == [cheap |-> 2]

MCExplorationFloor == <<1, 20>>
===============================================================================
