------------------------------- MODULE Totals -------------------------------
(***************************************************************************)
(* Sums of the amounts of a task's attempts.  The store never adds them up *)
(* itself: it keeps running columns (settled, reserved) that the           *)
(* invariants of Ledger compare with these totals.  Written as a recursive *)
(* function so that the theorems can unfold it.                            *)
(***************************************************************************)
EXTENDS Integers

\* f[1] + ... + f[n] for a function f whose domain includes 1..n.
Total(f, n) ==
    LET Partial[i \in 0..n] == IF i = 0 THEN 0 ELSE Partial[i - 1] + f[i]
    IN  Partial[n]

\* How far a exceeds b; 0 when it does not.
Excess(a, b) == IF a > b THEN a - b ELSE 0

Lesser(a, b) == IF a < b THEN a ELSE b
=============================================================================
