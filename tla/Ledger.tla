------------------------------- MODULE Ledger -------------------------------
(***************************************************************************)
(* The durable store (src/src/store.rs and src/src/store/): one row per    *)
(* task with its budget columns, and the attempts (model calls, tool       *)
(* calls, planner and decision calls) reserved against it.  Every action   *)
(* is one method of the Store trait, which is one SQLite transaction: it   *)
(* commits whole or leaves the tables alone, so a crash between two        *)
(* actions keeps exactly the state shown here.  The callers are arbitrary: *)
(* the module says what the store guarantees whoever calls it, in whatever *)
(* order, with settlements repeated or racing a reconciliation.            *)
(*                                                                         *)
(* An attempt is identified by its position in attempts[t] (rowid order):  *)
(* its id in the code is a fresh UUID.  The events table (the audit log)   *)
(* and the payload columns are left out.                                   *)
(***************************************************************************)
EXTENDS Integers, Sequences, Totals

CONSTANTS
    Tasks,       \* task ids
    Budgets,     \* values of SubmissionSpec.budget
    Amounts,     \* values a caller reserves
    Costs,       \* values a settlement or a reconciliation reports (u64)
    MaxCalls,    \* SubmissionSpec.max_calls
    MaxLedger,   \* i64::MAX, the largest value a ledger column can hold
    Phases       \* values of checkpoint.phase written after admission

ASSUME LedgerAssumption ==
    /\ MaxCalls \in Nat
    /\ MaxLedger \in Nat
    /\ Budgets \subseteq 0..MaxLedger
    /\ Amounts \subseteq Nat
    /\ Costs \subseteq Nat

VARIABLES
    status,      \* tasks.status; "absent" when there is no row
    total,       \* tasks.total
    settled,     \* tasks.settled
    reserved,    \* tasks.reserved
    calls,       \* tasks.calls
    plan,        \* what tasks.plan holds: the phase it was saved at, or "none";
                 \* only a plan saved as "planned" holds an effective plan
    checkpoint,  \* tasks.checkpoint.phase
    attempts,    \* the rows of the attempts table, by task
    reply        \* what the last call returned: "ok" or the error's kind

columns == <<total, settled, reserved, calls>>
row     == <<status, columns, plan, checkpoint>>
vars    == <<row, attempts, reply>>

Unknown == -1    \* cost IS NULL

Terminal == {"completed", "human_required", "failed", "cancelled"}
Statuses == {"absent", "running"} \cup Terminal
Evidence == {"invocation", "reconciliation"}

\* A row of the attempts table.  outcome is the evidence it holds: the
\* record of the call and the host's reconciliation note.
Attempt == [amount  : Nat,
            cost    : Nat \cup {Unknown},
            state   : {"pending", "unresolved", "settled"},
            outcome : SUBSET Evidence]

Init ==
    /\ status     = [t \in Tasks |-> "absent"]
    /\ total      = [t \in Tasks |-> 0]
    /\ settled    = [t \in Tasks |-> 0]
    /\ reserved   = [t \in Tasks |-> 0]
    /\ calls      = [t \in Tasks |-> 0]
    /\ plan       = [t \in Tasks |-> "none"]
    /\ checkpoint = [t \in Tasks |-> "none"]
    /\ attempts   = [t \in Tasks |-> <<>>]
    /\ reply      = "ok"

\* A call that returns without writing: an error rolls its transaction back.
Return(kind) ==
    /\ reply' = kind
    /\ UNCHANGED <<row, attempts>>

-----------------------------------------------------------------------------
\* Defects for the mutation runs: each has the shape of the definition it
\* stands in for.
AvailableIgnoringReserved(t) == Excess(total[t], settled[t])
RepeatedAccepted(a, cost)    == "ok"
ReleasesCost(a, cost)        == cost
DiscardsOutcome(a, evidence) == {evidence}
RecordsByAmount ==
    {t \in Tasks : status[t] \in {"running", "human_required"} \/ reserved[t] > 0}

\* Ledger::available: two saturating subtractions.
Available(t) == Excess(Excess(total[t], settled[t]), reserved[t])

HasRoom(t) == calls[t] < MaxCalls

Accepts(t) == status[t] = "running"

AlreadySettled(a) == a.state = "settled"

\* The answer to a settlement of a call that is settled already.
Repeated(a, cost) == IF a.cost = cost THEN "ok" ELSE "storage"

\* What a settlement gives back to the budget.
Release(a, cost) == a.amount

Overrun(a, cost) == cost > a.amount

\* SettlementEvidence::resolve: an invocation replaces the saved outcome,
\* a reconciliation adds its note to it.
Resolve(a, evidence) ==
    IF evidence = "invocation" THEN {"invocation"}
                               ELSE a.outcome \cup {"reconciliation"}

\* The tasks store.records() returns to the host.
Records == {t \in Tasks :
              \/ status[t] \in {"running", "human_required"}
              \/ reserved[t] > 0
              \/ \E i \in 1..Len(attempts[t]) :
                   attempts[t][i].state \in {"pending", "unresolved"}}

-----------------------------------------------------------------------------
CreateSubmission(t, b) ==
    \/ /\ status[t] # "absent"
       /\ Return("configuration")
    \/ /\ status[t] = "absent"
       /\ status'     = [status EXCEPT ![t] = "running"]
       /\ total'      = [total EXCEPT ![t] = b]
       /\ checkpoint' = [checkpoint EXCEPT ![t] = "admitted"]
       /\ reply'      = "ok"
       /\ UNCHANGED <<settled, reserved, calls, plan, attempts>>

SavePlan(t, phase) ==
    \/ /\ status[t] # "running"
       /\ Return("storage")
    \/ /\ status[t] = "running"
       /\ plan'       = [plan EXCEPT ![t] = phase]
       /\ checkpoint' = [checkpoint EXCEPT ![t] = phase]
       /\ reply'      = "ok"
       /\ UNCHANGED <<status, columns, attempts>>

\* checkpoint() and finish() do not look at the status of the row.
Checkpoint(t, phase) ==
    /\ status[t] # "absent"
    /\ checkpoint' = [checkpoint EXCEPT ![t] = phase]
    /\ reply'      = "ok"
    /\ UNCHANGED <<status, columns, plan, attempts>>

Finish(t, s) ==
    /\ status[t] # "absent"
    /\ status' = [status EXCEPT ![t] = s]
    /\ reply'  = "ok"
    /\ UNCHANGED <<columns, plan, checkpoint, attempts>>

\* The status, the budget and the number of calls are read and checked in
\* the transaction that inserts the attempt.
Reserve(t, a) ==
    \/ /\ status[t] = "absent"
       /\ Return("storage")
    \/ /\ status[t] # "absent"
       /\ ~Accepts(t)
       /\ Return("cancelled")
    \/ /\ Accepts(t)
       /\ a > Available(t) \/ ~HasRoom(t)
       /\ Return("budget")
    \/ /\ Accepts(t)
       /\ a <= Available(t)
       /\ HasRoom(t)
       /\ attempts' = [attempts EXCEPT ![t] = Append(@,
                          [amount  |-> a,         cost    |-> Unknown,
                           state   |-> "pending", outcome |-> {}])]
       /\ reserved' = [reserved EXCEPT ![t] = @ + a]
       /\ calls'    = [calls EXCEPT ![t] = @ + 1]
       /\ reply'    = "ok"
       /\ UNCHANGED <<status, total, settled, plan, checkpoint>>

\* settle_attempt.  A cost the ledger cannot hold is refused; a cost above
\* the reservation is recorded first and then reported as an error.
SettleAttempt(t, i, cost, evidence) ==
    LET a    == attempts[t][i]
        Save(s) == attempts' = [attempts EXCEPT ![t] = [@ EXCEPT ![i] =
                       [amount |-> a.amount, cost    |-> cost,
                        state  |-> s,        outcome |-> Resolve(a, evidence)]]]
    IN  \/ /\ AlreadySettled(a)
           /\ Return(Repeated(a, cost))
        \/ /\ ~AlreadySettled(a)
           /\ cost # Unknown
           /\ settled[t] + cost > MaxLedger
           /\ Return("budget")
        \/ /\ ~AlreadySettled(a)
           /\ cost # Unknown
           /\ settled[t] + cost <= MaxLedger
           /\ settled'  = [settled EXCEPT ![t] = @ + cost]
           /\ reserved' = [reserved EXCEPT ![t] = @ - Release(a, cost)]
           /\ Save("settled")
           /\ reply'    = IF Overrun(a, cost) THEN "budget" ELSE "ok"
           /\ UNCHANGED <<status, total, calls, plan, checkpoint>>
        \/ /\ ~AlreadySettled(a)
           /\ cost = Unknown
           /\ Save("unresolved")
           /\ reply' = "ok"
           /\ UNCHANGED row

Settle(t, i, cost) == SettleAttempt(t, i, cost, "invocation")

\* The host supplies the cost of a call and evidence for it; hasEvidence is
\* whether that text is non-blank.
Reconcile(t, i, cost, hasEvidence) ==
    \/ /\ ~hasEvidence
       /\ Return("recovery")
    \/ /\ hasEvidence
       /\ SettleAttempt(t, i, cost, "reconciliation")

-----------------------------------------------------------------------------
Next ==
    \E t \in Tasks :
        \/ \E b \in Budgets : CreateSubmission(t, b)
        \/ \E p \in Phases : SavePlan(t, p) \/ Checkpoint(t, p)
        \/ \E s \in Terminal : Finish(t, s)
        \/ \E a \in Amounts : Reserve(t, a)
        \/ \E i \in 1..Len(attempts[t]) :
             \/ \E c \in Costs \cup {Unknown} : Settle(t, i, c)
             \/ \E c \in Costs, e \in BOOLEAN : Reconcile(t, i, c, e)

Spec == Init /\ [][Next]_vars

-----------------------------------------------------------------------------
\* "evaluation" and "feedback" are returned by the calls of module Feedback.
Replies == {"ok", "configuration", "storage", "cancelled", "budget", "recovery",
            "evaluation", "feedback"}

TypeOK ==
    /\ status     \in [Tasks -> Statuses]
    /\ total      \in [Tasks -> 0..MaxLedger]
    /\ settled    \in [Tasks -> 0..MaxLedger]
    /\ reserved   \in [Tasks -> 0..MaxLedger]
    /\ calls      \in [Tasks -> Nat]
    /\ plan       \in [Tasks -> Phases \cup {"none"}]
    /\ checkpoint \in [Tasks -> Phases \cup {"none", "admitted"}]
    /\ attempts   \in [Tasks -> Seq(Attempt)]
    /\ reply      \in Replies

\* What one attempt contributes to the columns of its task, and by how much
\* it was billed above its reservation.
Held(a)   == IF a.state = "settled" THEN 0 ELSE a.amount
Paid(a)   == IF a.state = "settled" THEN a.cost ELSE 0
Above(a) == IF a.state = "settled" THEN Excess(a.cost, a.amount) ELSE 0

TotalHeld(s)   == Total([i \in 1..Len(s) |-> Held(s[i])], Len(s))
TotalPaid(s)   == Total([i \in 1..Len(s) |-> Paid(s[i])], Len(s))
TotalExcess(s) == Total([i \in 1..Len(s) |-> Above(s[i])], Len(s))

\* The reserved column is the sum of the amounts of the attempts that are not
\* settled, the settled column the sum of the recorded costs: no settlement,
\* repeated, conflicting or raced by a reconciliation, releases a
\* reservation twice, leaves one behind or bills a call twice.
ColumnsMatch ==
    \A t \in Tasks : /\ reserved[t] = TotalHeld(attempts[t])
                     /\ settled[t]  = TotalPaid(attempts[t])

\* The total call limit holds for every kind of call together, whatever
\* the caller read before it reserved.
CallLimit ==
    \A t \in Tasks : calls[t] = Len(attempts[t]) /\ calls[t] <= MaxCalls

\* What is spent and held never exceeds the budget by more than providers
\* charged above their declared reservations: the engine itself never
\* commits money the host did not grant.
WithinBudget ==
    \A t \in Tasks :
        settled[t] + reserved[t] <= total[t] + TotalExcess(attempts[t])

\* Evidence is never lost: a settled attempt is not rewritten by a late
\* settlement or a second reconciliation, and until then a reconciliation
\* adds the host's note and keeps the record of the call.
EvidenceFinal ==
    [][\A t \in Tasks : \A i \in 1..Len(attempts[t]) :
          /\ attempts[t][i].state = "settled" => attempts'[t][i] = attempts[t][i]
          /\ attempts[t][i].outcome \ {"reconciliation"} \subseteq attempts'[t][i].outcome]_vars

\* A task that has left the recovery list has its final bill: nothing the
\* store can still be asked to do changes what the task has cost.
BillIsFinal ==
    [][\A t \in Tasks : status[t] # "absent" /\ t \notin Records
          => settled'[t] = settled[t] /\ attempts'[t] = attempts[t]]_vars

-----------------------------------------------------------------------------
\* The store implements the account it promises: the columns give what
\* remains of the budget, the unsettled attempts the outstanding claims.
ClaimIds == 1..MaxCalls

AccountOf == [t \in Tasks |-> CASE status[t] = "absent"  -> "none"
                                [] status[t] = "running" -> "open"
                                [] OTHER                 -> "closed"]
RemainingOf == [t \in Tasks |-> total[t] - settled[t] - reserved[t]]
ClaimOf == [t \in Tasks |-> [i \in ClaimIds |->
              IF i > Len(attempts[t]) THEN <<>>
              ELSE IF attempts[t][i].state = "settled"
              THEN <<attempts[t][i].amount, attempts[t][i].cost>>
              ELSE <<attempts[t][i].amount>>]]

A == INSTANCE Account WITH
        account <- AccountOf, remaining <- RemainingOf, claim <- ClaimOf,
        Claims <- ClaimIds

\* Every store call is one step of the account or none.
ImplementsAccount == A!AccountSpec
=============================================================================
