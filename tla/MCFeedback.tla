----------------------------- MODULE MCFeedback -----------------------------
(***************************************************************************)
(* The tables of one task; a critic mapped to the role of a generator, so  *)
(* that only the kind of feedback keeps them apart.  What the last call    *)
(* replied has no influence on the next, so states that differ only in it  *)
(* are one.                                                                *)
(***************************************************************************)
EXTENDS Feedback, TLC

CONSTANTS t1, m1, a1, f1, f2

OneTask      == {t1}
OneModel     == {m1}
OneArtifact  == {a1}
TwoIds       == {f1, f2}
SameRole     == [n \in {"generator", "critic", "planner"} |->
                    IF n = "planner" THEN "planner" ELSE "generator"]
TwoVersions  == {"v1", "v2"}
AcceptV1     == [t \in Tasks |-> "v1"]
OneBudget    == {3}
OneAmount    == {1}
OverCost     == {2}
PlanPhase    == {"planned"}

Tables == <<tables, routes, records, feedback, acknowledged>>
=============================================================================
