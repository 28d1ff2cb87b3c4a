------------------------------ MODULE MCTaskRun ------------------------------
(***************************************************************************)
(* One task against two or three models: a cheap one that may plan, a      *)
(* better one, and one that is better still but barely.  Each run fixes    *)
(* the submissions that exercise one part of the execution.                *)
(***************************************************************************)
EXTENDS TaskRun, TLC

CONSTANTS t1, small, large, huge

OneTask    == {t1}
TwoModels  == {small, large}
AllModels  == {small, large, huge}
OnlySmall  == {small}
Qualities  == (small :> 1) @@ (large :> 3) @@ (huge :> 4)
Estimates  == (small :> 1) @@ (large :> 2) @@ (huge :> 2)
QualityTwo   == (small :> 1) @@ (large :> 3)
EstimatesTwo == (small :> 1) @@ (large :> 2)
QualityOne   == small :> 1
EstimatesOne == small :> 1

RunPhases == {"planning", "planning_failed", "planned", "executing", "round"}
Reserves  == {1, 2}
Budgets0  == {0, 4}
OneCost   == {1}
OddCosts  == {1, 3}

Submission(strategy) ==
    [strategy |-> strategy, planning |-> FALSE, fallback |-> FALSE, decision |-> FALSE,
     tools |-> FALSE, budget |-> 4]

ToolTasks     == {[Submission("single") EXCEPT !.tools = TRUE]}
CriticTasks   == {Submission("critic")}
CascadeTasks  == {Submission("cascade")}
PlannedTasks  == {[Submission("single") EXCEPT !.planning = TRUE, !.fallback = f,
                                               !.decision = d, !.budget = b] :
                     f \in BOOLEAN, d \in BOOLEAN, b \in {0, 4}}
DecisionTasks == {[Submission("single") EXCEPT !.decision = TRUE]}
AccountTasks  == ToolTasks \cup PlannedTasks
RoundTasks    == ToolTasks \cup CriticTasks \cup CascadeTasks \cup DecisionTasks
                    \cup {[Submission("single") EXCEPT !.planning = TRUE, !.fallback = TRUE]}
=============================================================================
