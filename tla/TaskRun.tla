------------------------------- MODULE TaskRun -------------------------------
(***************************************************************************)
(* One admitted task from its row to its final status (src/src/engine.rs,  *)
(* src/src/engine/): planning and its fallback, the decision model, the    *)
(* rounds of the three strategies, model calls with bounded fallback, host *)
(* tool batches, the critic, evaluation records and accounting.  It is     *)
(* composed with the store: every step that touches the ledger conjoins    *)
(* the Ledger action of that call and goes on with what it replied.        *)
(*                                                                         *)
(* A step ends where the future waits: at a store call, an event, a        *)
(* provider or a tool.  Between two steps the host may cancel, reconcile   *)
(* or drop the future, the deadline may pass and the store may fail.       *)
(* The router is abstracted to its guarantee: some model that is not       *)
(* excluded, meets the floor and whose estimate fits what was available    *)
(* when the ledger was read.                                               *)
(***************************************************************************)
EXTENDS Integers, Sequences

CONSTANTS
    Tasks, Budgets, Amounts, Costs, MaxCalls, MaxLedger, Phases,  \* Ledger
    Task,            \* the task that runs
    Submissions,     \* strategy, planning, fallback, decision, tools, budget
    Models,
    Planners,        \* config.planner_models
    Quality,         \* frozen quality of each model
    Estimate,        \* estimated cost of a call to each model
    PlanningCost,    \* planning.max_cost
    DecisionCost,    \* decision.max_cost
    ToolCost,        \* ToolSpec.max_cost
    MinQuality,      \* selection.min_quality
    MinGain,         \* selection.min_upgrade_gain
    DifferentCritic, \* constraints.different_critic
    MaxRounds, MaxAttempts,
    MaxBatch,        \* bound: tool calls in one answer
    MaxFaults,       \* bound: store calls that fail
    MaxReconciles    \* bound: reconciliations by the host

VARIABLES
    status, total, settled, reserved, calls, plan, checkpoint, attempts, reply,
    spec,            \* the submission
    run,             \* where the future is, and its locals
    provider,        \* by attempt: what was called and what came back
    evaluations,     \* the saved evaluation records, by round
    cancel, late,    \* token cancelled; deadline less finalization passed
    faults, reconciles

\* A call that was never made is settled at 0, whatever providers charge.
L == INSTANCE Ledger WITH Costs <- Costs \cup {0}

ledger == <<status, total, settled, reserved, calls, plan, checkpoint, attempts, reply>>
world  == <<spec, cancel, late, faults, reconciles>>
vars   == <<ledger, run, provider, evaluations, world>>

None       == "none"
Unknown    == -1
Strategies == {"single", "cascade", "critic"}
Calls      == attempts[Task]
Current    == Len(provider)    \* the attempt reserved last
Back       == provider[Current]

ASSUME TaskRunAssumption ==
    /\ MaxCalls \in Nat /\ MaxLedger \in Nat
    /\ Budgets \subseteq 0..MaxLedger /\ Amounts \subseteq Nat /\ Costs \subseteq Nat
    /\ {"planning", "planning_failed", "planned", "executing", "round"} \subseteq Phases
    /\ Task \in Tasks
    /\ Submissions \subseteq [strategy : Strategies, planning : BOOLEAN, fallback : BOOLEAN,
                              decision : BOOLEAN, tools : BOOLEAN, budget : Budgets]
    /\ Planners \subseteq Models
    /\ Quality \in [Models -> Nat]
    /\ Estimate \in [Models -> Amounts]
    /\ {DecisionCost, ToolCost} \subseteq Amounts
    /\ {PlanningCost, MinQuality} \subseteq Nat /\ MinGain \in Nat \ {0}
    /\ DifferentCritic \in BOOLEAN
    /\ {MaxRounds, MaxAttempts, MaxBatch} \subseteq Nat \ {0}
    /\ {MaxFaults, MaxReconciles} \subseteq Nat

Init ==
    /\ L!Init
    /\ spec \in Submissions
    /\ run = [place |-> "create", node |-> None, model |-> None, batch |-> 0,
              attempted |-> {}, failures |-> 0, excluded |-> {}, floor |-> MinQuality, round |-> 1,
              verdict |-> None, result |-> None, planError |-> None, error |-> None]
    /\ provider = <<>> /\ evaluations = <<>>
    /\ cancel = FALSE /\ late = FALSE /\ faults = 0 /\ reconciles = 0

-----------------------------------------------------------------------------
Go(place)  == run' = [run EXCEPT !.place = place]
Fail(kind) == run' = [run EXCEPT !.place = "finish", !.error = kind]
Conclude(result) == run' = [run EXCEPT !.place = "result", !.result = result]

\* invoke() starts with its own attempt history.
BeginInvoke(node, avoid) ==
    [run EXCEPT !.place = "route", !.node = node, !.attempted = avoid, !.failures = 0]

\* planning_resources.
Refusal == CASE cancel          -> "cancelled"
             [] ~cancel /\ late -> "deadline"
             [] ~cancel /\ ~late /\ (\/ calls[Task] >= MaxCalls
                                     \/ total[Task] > 0 /\ L!Available(Task) = 0) -> "budget"
             [] OTHER           -> None

Candidates(avoid, floor, available) ==
    {m \in Models \ avoid : Quality[m] >= floor /\ Estimate[m] <= available}

Amount == CASE run.node = "decision" -> DecisionCost
            [] run.node = "tool"     -> ToolCost
            [] OTHER                 -> Estimate[run.model]

\* What a kind of call can bring back, with or without usage: a usable
\* answer, tool requests, a malformed answer, an error of kind "model" (the
\* only one invoke falls back on).
Tags(node) == CASE node = "generator" /\ spec.tools -> {"answer", "batch", "invalid", "model"}
                [] node = "tool"                    -> {"answer", "model"}
                [] OTHER                            -> {"answer", "invalid", "model"}
Reports(node, tag) == IF node \in {"decision", "tool"} /\ tag \notin {"answer", "invalid"}
                      THEN {Unknown} ELSE Costs \cup {Unknown}
ErrorKind(tag)     == IF tag = "invalid" THEN "protocol" ELSE tag

-----------------------------------------------------------------------------
\* The provider's answer, or what is left of it, is known and goes to
\* settlement.
BringBack(tag, usage) ==
    /\ provider' = [provider EXCEPT ![Current].tag = tag, ![Current].usage = usage]
    /\ Go("settle")

\* Defects for the mutation runs: each has the shape of the definition it
\* stands in for.
ChargeUnknownAsZero       == IF Back.usage = Unknown THEN 0 ELSE Back.usage
ChargeIfAnswered          == IF Back.tag = "answer" THEN Back.usage ELSE Unknown
NextFloorWithoutGain      == Quality[run.model]
NeedsCriticNever(det)     == FALSE
RecordAfterCritic(det)    == IF det = "pass" THEN evaluations
                             ELSE Append(evaluations, [attempt |-> Current, model |-> run.model,
                                                       det |-> det, critic |-> None])
FixPlanOnce ==
    /\ run.place = "plan"
    /\ IF plan[Task] = "none" THEN L!SavePlan(Task, "planned") ELSE UNCHANGED ledger
    /\ Go("execute")
    /\ UNCHANGED <<provider, evaluations, world>>
WaitEndsIfCancelled       == cancel

\* dispatch_model and execute_tool look at the deadline and the token
\* before they call out; the decision model is only raced with the token.
MayDispatch == ~cancel /\ (run.node = "decision" \/ ~late)

\* The cost the engine settles a call with.
Charge == CASE ~Back.sent /\ run.node # "decision"            -> 0
            [] run.node = "decision" /\ Back.tag # "answer" -> Unknown
            [] OTHER                                          -> Back.usage

AttemptedAfter(m) == run.attempted \cup {m}

NextFloor == Quality[run.model] + MinGain

NeedsCritic(det) == spec.strategy = "critic" /\ det = "pass"

\* A call that is not made is settled all the same.
Unsent(tag) == BringBack(tag, Unknown)

\* The record saved with the deterministic verdict, before the critic runs.
Record(det) == Append(evaluations, [attempt |-> Current, model |-> run.model,
                                    det |-> det, critic |-> None])

-----------------------------------------------------------------------------
Admit ==
    /\ run.place = "create"
    /\ L!CreateSubmission(Task, spec.budget)
    /\ Go("prepare")
    /\ UNCHANGED <<provider, evaluations, world>>

\* prepare_submission checks the resources before planning, before the
\* decision model, before a fallback plan and before execution.
CheckResources ==
    /\ run.place \in {"prepare", "fallback", "decide", "execute"}
    /\ \/ /\ Refusal # None
          /\ Fail(Refusal)
       \/ /\ Refusal = None
          /\ \/ run.place = "prepare"  /\ Go(IF spec.planning THEN "planning" ELSE "validate")
             \/ run.place = "fallback" /\ Go("substitute")
             \/ run.place = "decide" /\ run' = [run EXCEPT !.place = "reserve",
                                                           !.node  = "decision"]
             \/ run.place = "execute"  /\ Go("begin")
    /\ UNCHANGED <<ledger, provider, evaluations, world>>

BeginPlanning ==
    /\ run.place = "planning"
    /\ L!Checkpoint(Task, "planning")
    /\ Go("routePlanner")
    /\ UNCHANGED <<provider, evaluations, world>>

PlanningFails(kind) ==
    run' = [run EXCEPT !.place = "planFailed", !.planError = kind]

\* The planner's context may be too large, or no planner may fit.
RoutePlanner ==
    /\ run.place = "routePlanner"
    /\ LET fit == Candidates(Models \ Planners, 0, L!Lesser(L!Available(Task), PlanningCost))
       IN  \/ PlanningFails("planning")
           \/ \E m \in fit : run' = [run EXCEPT !.place = "reserve", !.node = "planner",
                                                !.model = m]
    /\ UNCHANGED <<ledger, provider, evaluations, world>>

\* A planning failure is saved with its evidence, which is no plan to
\* execute; only a failure of the proposal itself goes on to the fallback.
SaveFailedPlan ==
    /\ run.place = "planFailed"
    /\ L!SavePlan(Task, "planning_failed")
    /\ IF run.planError \in {"cancelled", "deadline"} THEN Fail(run.planError)
                                                      ELSE Go("fallback")
    /\ UNCHANGED <<provider, evaluations, world>>

\* The host's plan takes the place of the proposal, if there is one.
FallBack ==
    /\ run.place = "substitute"
    /\ IF spec.fallback THEN Go("validate") ELSE Fail(run.planError)
    /\ UNCHANGED <<ledger, provider, evaluations, world>>

\* The effective task is validated like a submitted one, its deadline too.
ValidatePlan ==
    /\ run.place = "validate"
    /\ IF late THEN Fail("plan_validation")
               ELSE Go(IF spec.decision THEN "decide" ELSE "plan")
    /\ UNCHANGED <<ledger, provider, evaluations, world>>

\* The effective plan, its assessment and the routing snapshot are saved
\* together.
FixPlan ==
    /\ run.place = "plan"
    /\ L!SavePlan(Task, "planned")
    /\ Go("execute")
    /\ UNCHANGED <<provider, evaluations, world>>

BeginExecution ==
    /\ run.place = "begin"
    /\ L!Checkpoint(Task, "executing")
    /\ run' = BeginInvoke("generator", {})
    /\ UNCHANGED <<provider, evaluations, world>>

-----------------------------------------------------------------------------
\* The head of invoke's loop and the routing part of reserve_model.
Route ==
    /\ run.place = "route"
    /\ LET floor == IF run.node = "critic" THEN 0 ELSE run.floor
           fit   == Candidates(run.attempted, floor, L!Available(Task))
       IN  \/ /\ run.failures >= MaxAttempts
              /\ Fail("model")
           \/ /\ run.failures < MaxAttempts
              /\ \/ Fail("context")
                 \/ cancel /\ Fail("cancelled")
                 \/ ~cancel /\ late /\ Fail("deadline")
                 \/ /\ ~cancel /\ ~late
                    /\ \/ \E m \in fit : run' = [run EXCEPT !.place = "reserve", !.model = m]
                       \/ /\ fit = {}
                          /\ IF spec.strategy = "cascade" /\ evaluations # <<>>
                             THEN Go("upgradeStop")
                             ELSE Fail("routing")
    /\ UNCHANGED <<ledger, provider, evaluations, world>>

\* The store checks the budget and the calls again: the ledger may have
\* changed since it was read.
ReserveCall ==
    /\ run.place = "reserve"
    /\ L!Reserve(Task, Amount)
    /\ IF reply' = "ok"
       THEN /\ provider' = Append(provider, [node |-> run.node,   model |-> run.model,
                                             round |-> run.round, sent |-> FALSE,
                                             tag |-> None,        usage |-> Unknown])
            /\ Go("dispatch")
       ELSE Fail(reply') /\ UNCHANGED provider
    /\ UNCHANGED <<evaluations, world>>

\* A planner may also run out of its own stage deadline.
Dispatch ==
    /\ run.place = "dispatch"
    /\ \/ /\ MayDispatch
          /\ provider' = [provider EXCEPT ![Current].sent = TRUE]
          /\ Go("waiting")
       \/ ~MayDispatch /\ Unsent(IF cancel THEN "cancelled" ELSE "deadline")
       \/ MayDispatch /\ run.node = "planner" /\ Unsent("deadline")
    /\ UNCHANGED <<ledger, evaluations, world>>

\* The provider or the tool comes back before the token is cancelled.
ProviderAnswers ==
    /\ run.place = "waiting"
    /\ ~cancel
    /\ \E tag \in Tags(run.node) : \E usage \in Reports(run.node, tag) : BringBack(tag, usage)
    /\ UNCHANGED <<ledger, evaluations, world>>

\* The call is dropped by the token or the timer; usage that a model adapter
\* had already recorded as evidence stays known.
Interrupt ==
    /\ run.place = "waiting"
    /\ \/ cancel /\ \E usage \in Reports(run.node, "cancelled") : BringBack("cancelled", usage)
       \/ /\ ~cancel
          /\ late \/ run.node = "planner"
          /\ \E usage \in Reports(run.node, "deadline") : BringBack("deadline", usage)
    /\ UNCHANGED <<ledger, evaluations, world>>

\* Where a settled call leads.
AfterPlanner ==
    IF Back.tag = "answer"
    THEN Go("validate") \/ PlanningFails("plan_validation")
    ELSE PlanningFails(CASE Back.tag = "deadline" /\ ~late -> "planning"
                         [] Back.tag = "invalid"           -> "plan_validation"
                         [] OTHER                          -> Back.tag)

\* Results and answers may outgrow the context.
AfterTool ==
    \/ Fail("context")
    \/ run.batch > 1 /\ run' = [run EXCEPT !.place = "reserve", !.batch = @ - 1]
    \/ run.batch = 1 /\ run' = [BeginInvoke("generator", run.excluded) EXCEPT !.batch = 0]

AfterModel ==
    CASE Back.tag = "answer" -> \/ Fail("context")
                                \/ Go(IF run.node = "critic" THEN "judge" ELSE "evaluate")
      [] Back.tag = "batch"  ->
           \E n \in 1..MaxBatch : run' = [run EXCEPT !.place = "reserve", !.node = "tool",
                                                     !.batch = n]
      [] Back.tag = "model"  -> run' = [run EXCEPT !.place     = "route",
                                                   !.attempted = AttemptedAfter(run.model),
                                                   !.failures  = @ + 1]
      [] OTHER               -> Fail(ErrorKind(Back.tag))

\* A settlement the store refuses or reports as an overrun ends the run.
SettleCall ==
    /\ run.place = "settle"
    /\ L!Settle(Task, Current, Charge)
    /\ \/ reply' # "ok" /\ Fail(reply')
       \/ /\ reply' = "ok"
          /\ \/ run.node = "planner" /\ AfterPlanner
             \/ run.node = "decision" /\ Back.tag = "answer" /\ Go("plan")
             \/ run.node \in {"decision", "tool"} /\ Back.tag # "answer"
                   /\ Fail(ErrorKind(Back.tag))
             \/ run.node = "tool" /\ Back.tag = "answer" /\ AfterTool
             \/ run.node \in {"generator", "critic"} /\ AfterModel
    /\ UNCHANGED <<provider, evaluations, world>>

-----------------------------------------------------------------------------
\* A candidate is recorded with its deterministic verdict, then the critic
\* is asked about it if the strategy has one.
Evaluate ==
    /\ run.place = "evaluate"
    /\ \E det \in {"pass", "revise"} :
          /\ evaluations' = Record(det)
          /\ run' = IF NeedsCritic(det)
                    THEN BeginInvoke("critic", IF DifferentCritic THEN {run.model} ELSE {})
                    ELSE [run EXCEPT !.place = "checkpoint", !.verdict = det]
    /\ UNCHANGED <<ledger, provider, world>>

\* The critic's answer is an evaluation, or cannot be read as one.  "stop"
\* is any of the verdicts that ask for a human.
Judge ==
    /\ run.place = "judge"
    /\ \/ Fail("protocol") /\ UNCHANGED evaluations
       \/ \E verdict \in {"pass", "revise", "stop"} :
             /\ evaluations' = [evaluations EXCEPT ![Len(evaluations)].critic = verdict]
             /\ run' = [run EXCEPT !.place = "checkpoint", !.verdict = verdict]
    /\ UNCHANGED <<ledger, provider, world>>

CheckpointRound ==
    /\ run.place = "checkpoint"
    /\ L!Checkpoint(Task, "round")
    /\ Go("evaluated")
    /\ UNCHANGED <<provider, evaluations, world>>

NextRound(excluded, floor) ==
    run' = [BeginInvoke("generator", excluded) EXCEPT
               !.round = @ + 1, !.excluded = excluded, !.floor = floor]

Decide ==
    /\ run.place = "evaluated"
    /\ CASE run.verdict = "pass" -> Conclude("completed")
         [] run.verdict = "stop" -> Conclude("human_required")
         [] OTHER ->
              IF spec.strategy = "single" \/ run.round = MaxRounds
              THEN Conclude("human_required")
              ELSE IF spec.strategy = "cascade"
                   THEN NextRound(run.excluded \cup {run.model}, NextFloor)
                   ELSE NextRound({}, MinQuality)
    /\ UNCHANGED <<ledger, provider, evaluations, world>>

\* A cascade that has a candidate and nowhere to go keeps the candidate.
StopUpgrade ==
    /\ run.place = "upgradeStop"
    /\ L!Checkpoint(Task, "round")
    /\ Conclude("human_required")
    /\ UNCHANGED <<provider, evaluations, world>>

ReadResult ==
    /\ run.place = "result"
    /\ Go("finish")
    /\ UNCHANGED <<ledger, provider, evaluations, world>>

FinalStatus == CASE run.error = None        -> run.result
                 [] run.error = "cancelled" -> "cancelled"
                 [] OTHER                   -> "failed"

Finish ==
    /\ run.place = "finish"
    /\ L!Finish(Task, FinalStatus)
    /\ Go("returned")
    /\ UNCHANGED <<provider, evaluations, world>>

-----------------------------------------------------------------------------
\* Faults and the host.  The places whose step calls the store, an event's
\* own row included.
StorePlaces == {"prepare", "planning", "routePlanner", "reserve", "settle", "planFailed",
                "fallback", "substitute", "validate", "decide", "plan", "execute", "begin", "route", "evaluate", "judge",
                "checkpoint", "evaluated", "upgradeStop", "result", "finish"}
Over        == run.place \in {"returned", "dropped"}

\* The step begins with an event.  planning_completed comes before a
\* proposal is refused or accepted, tool_completed before the next call.
Emits ==
    \/ run.place \in {"prepare", "routePlanner", "substitute", "execute", "evaluated"}
    \/ run.place = "reserve" /\ run.node # "decision"
    \/ run.place = "validate" /\ spec.planning
    \/ run.place = "planFailed" /\ run.planError = "plan_validation" /\ Back.tag = "answer"
    \/ run.place = "route" /\ Current > 0 /\ Back.node = "tool"

\* An event waits for room in the host's channel, which nobody has to make:
\* the token or the timer ends the wait.
WaitEnds == cancel \/ late

\* A failed final write is returned as it is; every other failure is
\* written as the task's result.
StoreFails ==
    /\ run.place \in StorePlaces
    /\ faults < MaxFaults
    /\ faults' = faults + 1
    /\ run' = [run EXCEPT !.place = IF @ = "finish" THEN "returned" ELSE "finish",
                          !.error = "storage"]
    /\ UNCHANGED <<ledger, provider, evaluations, spec, cancel, late, reconciles>>

\* An event is too large, or its wait was ended.
EventFails ==
    /\ Emits
    /\ \E kind \in {"protocol"} \cup (IF cancel THEN {"cancelled"} ELSE {})
                                \cup (IF late THEN {"deadline"} ELSE {}) : Fail(kind)
    /\ UNCHANGED <<ledger, provider, evaluations, world>>

HostCancels ==
    /\ ~cancel /\ ~Over
    /\ cancel' = TRUE
    /\ UNCHANGED <<ledger, run, provider, evaluations, spec, late, faults, reconciles>>

DeadlinePasses ==
    /\ ~late /\ ~Over
    /\ late' = TRUE
    /\ UNCHANGED <<ledger, run, provider, evaluations, spec, cancel, faults, reconciles>>

\* The host drops the future, or the process dies.
Drop ==
    /\ run.place # "create" /\ ~Over
    /\ Go("dropped")
    /\ UNCHANGED <<ledger, provider, evaluations, world>>

HostReconciles ==
    /\ reconciles < MaxReconciles
    /\ reconciles' = reconciles + 1
    /\ \E i \in 1..Len(Calls), c \in Costs :
          /\ Calls[i].state # "settled"
          /\ L!Reconcile(Task, i, c, TRUE)
    /\ UNCHANGED <<run, provider, evaluations, spec, cancel, late, faults>>

-----------------------------------------------------------------------------
Prepare  == CheckResources \/ BeginPlanning \/ RoutePlanner \/ SaveFailedPlan
               \/ FallBack \/ ValidatePlan \/ FixPlan \/ BeginExecution
Call     == Route \/ ReserveCall \/ Dispatch \/ SettleCall
Rounds   == Evaluate \/ Judge \/ CheckpointRound \/ Decide \/ StopUpgrade \/ ReadResult
               \/ Finish
Engine   == Prepare \/ Call \/ Rounds \/ Interrupt
Host     == HostCancels \/ DeadlinePasses \/ Drop \/ HostReconciles

Next == Admit \/ Engine \/ ProviderAnswers \/ StoreFails \/ EventFails \/ Host

Spec == Init /\ [][Next]_vars

\* The runtime polls the run; nobody makes providers and tools answer, or
\* the host read its events.
Proceeds == (Engine \/ EventFails) /\ (Emits => WaitEnds)
FairSpec == Spec /\ WF_vars(Proceeds)

-----------------------------------------------------------------------------
Places == StorePlaces \cup {"create", "dispatch", "waiting", "returned", "dropped"}
Nodes  == {"decision", "planner", "generator", "critic", "tool"}
Errors == {None, "cancelled", "deadline", "budget", "storage", "model", "protocol", "context",
           "routing", "planning", "plan_validation"}
AllTags == {None, "answer", "batch", "invalid", "model", "cancelled", "deadline"}

RunState == [place : Places, node : Nodes \cup {None}, model : Models \cup {None},
             batch : 0..MaxBatch, attempted : SUBSET Models, failures : 0..MaxAttempts,
             excluded : SUBSET Models, floor : Nat, round : 1..MaxRounds,
             verdict : {None, "pass", "revise", "stop"},
             result : {None, "completed", "human_required"},
             planError : Errors, error : Errors]
ProviderCall == [node : Nodes, model : Models \cup {None}, round : 1..MaxRounds,
                 sent : BOOLEAN, tag : AllTags, usage : Costs \cup {Unknown}]
Evaluation   == [attempt : Nat \ {0}, model : Models, det : {"pass", "revise"},
                 critic : {None, "pass", "revise", "stop"}]

TypeOK ==
    /\ L!TypeOK
    /\ spec \in Submissions
    /\ run \in RunState
    /\ provider \in Seq(ProviderCall)
    /\ evaluations \in Seq(Evaluation)
    /\ cancel \in BOOLEAN /\ late \in BOOLEAN
    /\ faults \in 0..MaxFaults /\ reconciles \in 0..MaxReconciles

Reconciled(i) == "reconciliation" \in Calls[i].outcome
Planned       == plan[Task] = "planned"
Reported(i)   == provider[i].sent /\ provider[i].usage # Unknown
TooLarge(i)   == settled[Task] + provider[i].usage > MaxLedger

\* When the run is over, returned or dropped, and its task is not on the
\* recovery list, the bill is right: what providers reported was charged,
\* what was never sent is free, and a cost nobody reported was supplied by
\* the host.
OffTheListIsPaid ==
    Over /\ Task \notin L!Records =>
        \A i \in 1..Len(Calls) :
            \/ Reconciled(i)
            \/ Reported(i) /\ Calls[i].cost = provider[i].usage
            \/ ~provider[i].sent /\ Calls[i].cost = 0

\* When the run returns its accounts are closed: usage that a model or tool
\* reported before it was cancelled, timed out or failed is charged, and no
\* call is left pending, those that were never made included.  Excepted are
\* a store that failed and a sum it cannot hold.
AccountsClosed ==
    run.place = "returned" /\ run.error # "storage" =>
        \A i \in 1..Len(Calls) :
            /\ Reported(i) /\ provider[i].node # "decision" /\ ~Reconciled(i) =>
                 Calls[i].cost = provider[i].usage \/ TooLarge(i)
            /\ Calls[i].state = "pending" => Reported(i) /\ TooLarge(i)

\* A model or tool is only asked to execute from an effective plan that is
\* durable, so that the record a crash leaves says why it was asked.  The
\* evidence of a failed planning, saved before the host's fallback is taken,
\* is no such plan.
PlannedFirst ==
    \A i \in 1..Len(provider) :
        provider[i].node \in {"generator", "critic", "tool"} => Planned

\* usage.md: a candidate and its deterministic evidence survive a critic
\* that is interrupted or answers nonsense: the record of that very
\* candidate is saved before the critic is sent anything.
RecordedFirst ==
    \A i \in 1..Len(provider) : provider[i].node = "critic" =>
        \E k \in 1..Len(evaluations) :
            /\ evaluations[k].det = "pass"
            /\ evaluations[k].attempt < i
            /\ \A j \in (evaluations[k].attempt + 1)..i : provider[j].node = "critic"

\* The host may settle a reservation while its call is still to be sent or
\* under way.  When the provider then reports another cost, the store keeps
\* the host's and refuses the provider's: the run ends with an error and
\* never goes on as if the bill were right.
ConflictIsTold ==
    run.place = "returned" /\ run.error = None =>
        \A i \in 1..Len(Calls) :
            Reported(i) => Calls[i].cost = provider[i].usage

\* A completed task has a saved candidate that passed every check its
\* strategy asks for, made by a model call that was sent and answered.
CompletedIsEarned ==
    status[Task] = "completed" =>
        /\ evaluations # <<>>
        /\ LET last == evaluations[Len(evaluations)]
           IN  /\ last.det = "pass"
               /\ spec.strategy = "critic" => last.critic = "pass"
               /\ provider[last.attempt].sent
               /\ provider[last.attempt].node = "generator"
               /\ provider[last.attempt].tag = "answer"

\* Each candidate of a cascade comes from a model that is better than the
\* one before by the gain the host asked for.
CascadeClimbs ==
    spec.strategy = "cascade" =>
        \A k \in 2..Len(evaluations) :
            Quality[evaluations[k].model] >= Quality[evaluations[k - 1].model] + MinGain

\* usage.md: a decision adapter that returns actual_cost is settled at it.
DecisionBilled ==
    run.place = "returned" /\ run.error # "storage" =>
        \A i \in 1..Len(Calls) :
            Reported(i) /\ provider[i].node = "decision" /\ ~Reconciled(i) =>
                Calls[i].cost = provider[i].usage \/ TooLarge(i)

\* A run that is cancelled or whose deadline passes ends, whatever its
\* providers, tools and event consumers do.
StopEnds == run.place # "create" /\ (cancel \/ late) ~> Over
=============================================================================
