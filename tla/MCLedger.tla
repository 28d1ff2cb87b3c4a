------------------------------ MODULE MCLedger ------------------------------
(***************************************************************************)
(* One task, a budget of zero and one that admits several calls,  *)
(* costs below, at and above the reservation and above the ledger's range. *)
(***************************************************************************)
EXTENDS Ledger

CONSTANTS t1

OneTask      == {t1}
SmallBudgets == {0, 3}
SmallAmounts == {0, 1, 2}
SmallCosts   == {0, 1, 3, 9}
OnePhase     == {"executing"}
=============================================================================
