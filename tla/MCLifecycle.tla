----------------------------- MODULE MCLifecycle -----------------------------
(***************************************************************************)
(* Two runs that submit the same task id and compete for one slot, one or  *)
(* two closers that the host may repeat, and a query.                      *)
(***************************************************************************)
EXTENDS Lifecycle, TLC

CONSTANTS r1, r2, t1, c1, c2, q1

OneRun     == {r1}
TwoRuns    == {r1, r2}
OnlyOne    == {r2}
OneTask    == {t1}
OnlyTask   == r1 :> t1
SameTask   == (r1 :> t1) @@ (r2 :> t1)
OneCloser  == {c1}
TwoClosers == {c1, c2}
OneQuery   == {q1}
NoQuery    == {}
=============================================================================
