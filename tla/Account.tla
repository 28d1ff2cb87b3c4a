------------------------------ MODULE Account ------------------------------
(***************************************************************************)
(* What the store promises the host about money, without tables: every     *)
(* task has an account opened once with a budget.  While it is open,       *)
(* claims are granted out of what remains; each claim is charged at most   *)
(* once, at whatever the call really cost, which may be more than was      *)
(* claimed and so drive the account below zero.  Nothing is granted after  *)
(* the account closes, but outstanding claims are still charged.           *)
(***************************************************************************)
EXTENDS Integers

CONSTANTS Tasks, Budgets, Amounts, Costs, Claims   \* Claims: ids of claims

VARIABLES
    account,    \* "none", "open" or "closed"
    remaining,  \* budget less charges and outstanding claims
    claim       \* claim[t][i]: <<>>, <<amount>> or, charged, <<amount, cost>>

accountVars == <<account, remaining, claim>>

Unused == <<>>

AccountInit ==
    /\ account   = [t \in Tasks |-> "none"]
    /\ remaining = [t \in Tasks |-> 0]
    /\ claim     = [t \in Tasks |-> [i \in Claims |-> Unused]]

Open(t, b) ==
    /\ account[t] = "none"
    /\ account'   = [account EXCEPT ![t] = "open"]
    /\ remaining' = [remaining EXCEPT ![t] = b]
    /\ UNCHANGED claim

Grant(t, i, a) ==
    /\ account[t] = "open"
    /\ claim[t][i] = Unused
    /\ a <= remaining[t] \/ a = 0
    /\ remaining' = [remaining EXCEPT ![t] = @ - a]
    /\ claim'     = [claim EXCEPT ![t] = [@ EXCEPT ![i] = <<a>>]]
    /\ UNCHANGED account

Charge(t, i, a, c) ==
    /\ claim[t][i] = <<a>>
    /\ remaining' = [remaining EXCEPT ![t] = @ + a - c]
    /\ claim'     = [claim EXCEPT ![t] = [@ EXCEPT ![i] = <<a, c>>]]
    /\ UNCHANGED account

Close(t) ==
    /\ account[t] # "none"
    /\ account' = [account EXCEPT ![t] = "closed"]
    /\ UNCHANGED <<remaining, claim>>

AccountNext ==
    \E t \in Tasks :
        \/ \E b \in Budgets : Open(t, b)
        \/ Close(t)
        \/ \E i \in Claims, a \in Amounts :
             \/ Grant(t, i, a)
             \/ \E c \in Costs : Charge(t, i, a, c)

AccountSpec == AccountInit /\ [][AccountNext]_accountVars
=============================================================================
