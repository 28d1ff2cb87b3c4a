--------------------------- MODULE TaskRunProofs ---------------------------
(***************************************************************************)
(* The execution of a task for any models, qualities, estimates and        *)
(* submissions, any number of rounds, attempts and tool calls, any number  *)
(* of failing store calls and reconciliations, and with the host free to   *)
(* cancel, to let the deadline pass or to drop the future at every await.  *)
(*                                                                         *)
(* The argument: where the future waits says what is durable and what its  *)
(* locals hold.  The predicates below are what holds at each place; most   *)
(* steps only move from one place to the next, six change what providers   *)
(* brought back or the evaluation records.                                 *)
(***************************************************************************)
EXTENDS TaskRun, SequenceTheorems, TLAPS

USE DEF Planned

\* Places before a proposal is accepted or refused, before the plan is saved,
\* with it saved and before the first call, around the calls of a round, and
\* in the middle of a call.
Early   == {"create", "prepare", "planning", "routePlanner", "planFailed"}
Before  == Early \cup {"fallback", "substitute", "validate", "decide", "plan"}
Fixed   == {"execute", "begin"}
Judging == {"checkpoint", "evaluated"}
Inside  == {"route", "upgradeStop", "evaluate", "judge"} \cup Judging
Calling == {"reserve", "dispatch", "waiting", "settle"}
Made    == {"dispatch", "waiting", "settle"}
Ending  == {"result", "finish", "returned", "dropped"}

Last == evaluations[Len(evaluations)]

Fields == {"place", "node", "model", "batch", "attempted", "failures", "excluded", "floor",
           "round", "verdict", "result", "planError", "error"}

\* The ledger's tables that the run reads, and its attempts one by one with
\* what providers brought back.
Linked ==
    /\ status \in [Tasks -> L!Statuses]
    /\ plan \in [Tasks -> Phases \cup {"none"}]
    /\ attempts \in [Tasks -> Seq(L!Attempt)]
    /\ provider \in Seq(ProviderCall)
    /\ Len(provider) = Len(Calls)
    /\ run.place = "create" => status[Task] = "absent"
    /\ run.place \notin {"create", "returned", "dropped"} => status[Task] = "running"

\* The locals of the future, by place.
LocalsKnown ==
    /\ DOMAIN run = Fields /\ run = [f \in Fields |-> run[f]]
    /\ run.place \in Before \cup Fixed \cup Inside \cup Calling \cup Ending
    /\ run.node \in Nodes \cup {None} /\ run.model \in Models \cup {None}
    /\ run.floor \in Nat /\ run.round \in 1..MaxRounds
    /\ run.place \in Calling => run.node # None
    /\ run.place \in Calling /\ run.node # "decision" => run.model \in Models
    /\ run.place = "route" => run.node \in {"generator", "critic"}
    /\ run.place = "evaluate" => run.node = "generator"
    /\ run.place = "judge" => run.node = "critic"
    /\ run.place \in Judging \cup {"evaluate", "judge"} => run.model \in Models
    /\ run.place \in Calling \cup {"route", "judge"} /\ run.node = "critic"
          => spec.strategy = "critic"
    /\ run.result \in {None, "completed", "human_required"}
    /\ run.result # None => run.place \in Ending
    /\ run.place = "result" => run.result # None
    /\ run.place = "finish" => run.result # None \/ run.error # None
    /\ run.place \in {"planFailed", "fallback", "substitute"} => run.planError # None
    /\ spec \in Submissions

\* The attempt reserved last.
CallKnown ==
    /\ run.place \in Made \cup {"evaluate"} => Current > 0 /\ Back.node = run.node
    /\ run.place \in {"dispatch", "waiting"} => Back.tag = None
    /\ run.place = "waiting" => Back.sent
    /\ run.place = "settle" => Back.tag # None
    /\ run.place = "settle" /\ Back.tag = "answer" => Back.sent
    /\ run.place = "evaluate" => Back.sent /\ Back.tag = "answer"

\* The plan is saved, or is not saved yet: saving a failed plan takes the
\* place of none that could be executed.
PlanKnown ==
    /\ run.place \in Early => ~Planned
    /\ run.place \in Calling /\ run.node = "planner" => ~Planned
    /\ run.place \in Fixed \cup Inside => Planned
    /\ run.place \in Calling /\ run.node \in {"generator", "critic", "tool"} => Planned

\* Every candidate came back from a call, and what the critic is asked about
\* is the last of them.
Backed ==
    /\ evaluations \in Seq(Evaluation)
    /\ \A k \in 1..Len(evaluations) :
          LET call == provider[evaluations[k].attempt]
          IN  /\ evaluations[k].attempt \in 1..Len(provider)
              /\ call.sent /\ call.node = "generator" /\ call.tag = "answer"

UnderCritic ==
    /\ evaluations # <<>> /\ Last.det = "pass"
    /\ \A j \in (Last.attempt + 1)..Len(provider) : provider[j].node = "critic"

Passed ==
    /\ evaluations # <<>> /\ Last.det = "pass"
    /\ spec.strategy = "critic" => Last.critic = "pass"

\* The records, by place.
RecordsKnown ==
    /\ run.place \in Before \cup Fixed => evaluations = <<>>
    /\ run.place \in Calling /\ run.node \in {"planner", "decision"} => evaluations = <<>>
    /\ run.place \in Calling \cup {"route", "judge"} /\ run.node = "critic" => UnderCritic
    /\ run.place \in Judging => evaluations # <<>>
    /\ run.place \in Judging /\ run.verdict = "pass" => Passed
    /\ run.result = "completed" => Passed
    /\ status[Task] = "completed" => Passed /\ run.place = "returned"

\* What a cascade asks of its next model.
Above == evaluations # <<>> => run.floor >= Quality[Last.model] + MinGain

ClimbKnown ==
    spec.strategy = "cascade" =>
        /\ run.place \in Calling \cup {"route", "evaluate"} /\ run.node \in {"generator", "tool"}
              => Above
        /\ run.place \in Calling \cup {"evaluate"} /\ run.node \in {"generator", "tool"}
              => Quality[run.model] >= run.floor
        /\ run.place \in Judging => Last.model = run.model

\* The plan is saved before a call that executes it, and a candidate before
\* the call of its critic.
FirstWritten ==
    \A i \in 1..Len(provider) :
        /\ provider[i].node \in {"generator", "critic", "tool"} => Planned
        /\ provider[i].node = "critic" =>
              \E k \in 1..Len(evaluations) :
                  /\ evaluations[k].det = "pass"
                  /\ evaluations[k].attempt < i
                  /\ \A j \in (evaluations[k].attempt + 1)..i : provider[j].node = "critic"

IInv ==
    /\ LocalsKnown /\ Linked /\ CallKnown /\ PlanKnown
    /\ Backed /\ RecordsKnown /\ ClimbKnown
    /\ FirstWritten /\ CascadeClimbs

-----------------------------------------------------------------------------
\* What a call of the store leaves of the tables the run reads.
Tables ==
    /\ status \in [Tasks -> L!Statuses]
    /\ plan \in [Tasks -> Phases \cup {"none"}]
    /\ attempts \in [Tasks -> Seq(L!Attempt)]

\* The run moves, and neither what providers brought back nor the records
\* change.
Still ==
    /\ UNCHANGED <<provider, evaluations, spec>>
    /\ Tables' /\ Len(Calls') = Len(Calls)
    /\ Planned => Planned'
    /\ DOMAIN run' = Fields /\ run' = [f \in Fields |-> run'[f]]
    /\ run'.node \in Nodes \cup {None} /\ run'.model \in Models \cup {None}
    /\ run'.floor \in Nat /\ run'.round \in 1..MaxRounds

\* What is said of the records alone follows the records.
LEMMA Frame ==
    ASSUME UNCHANGED <<provider, evaluations, spec>>
    PROVE  /\ Backed' = Backed /\ UnderCritic' = UnderCritic /\ Passed' = Passed
           /\ CascadeClimbs' = CascadeClimbs
           /\ Last' = Last /\ Current' = Current /\ Back' = Back
  BY DEF Backed, UnderCritic, Passed, CascadeClimbs, Last, Current, Back

\* A saved plan stays saved, and so do the records it came before.
LEMMA FirstKept ==
    ASSUME UNCHANGED <<provider, evaluations>>, Planned => Planned', FirstWritten
    PROVE  FirstWritten'
  BY DEF FirstWritten

\* A run that ends only has to say what it ended with.
LEMMA ToEnding ==
    ASSUME IInv, Still, run'.place \in Ending,
           run'.place \in {"result", "finish"} => status'[Task] = "running",
           run'.result \in {None, "completed", "human_required"},
           run'.place = "result" => run'.result # None,
           run'.place = "finish" => run'.result # None \/ run'.error # None,
           run'.result = "completed" => Passed,
           status'[Task] = "completed" => Passed /\ run'.place = "returned"
    PROVE  IInv'
<1> USE DEF Early, Before, Fixed, Judging, Inside, Calling, Made, Ending
<1>1. LocalsKnown'
  BY DEF LocalsKnown, Still, IInv
<1>2. Linked' /\ CallKnown' /\ PlanKnown'
  BY DEF Linked, CallKnown, PlanKnown, Still, Tables, IInv
<1>3. RecordsKnown' /\ Backed' /\ CascadeClimbs'
  BY Frame DEF RecordsKnown, Still, IInv
<1>4. ClimbKnown'
  BY DEF ClimbKnown, Still, IInv
<1> QED
  BY <1>1, <1>2, <1>3, <1>4, FirstKept DEF IInv, Still

\* A run that is prepared has no records yet.
LEMMA ToPreparing ==
    ASSUME IInv, Still, run'.place \in (Before \cup Fixed) \ {"create"},
           evaluations = <<>>, run'.result = None, status'[Task] = "running",
           run'.place \in Fixed => Planned', run'.place \in Early => ~Planned',
           run'.place \in {"planFailed", "fallback", "substitute"} => run'.planError # None
    PROVE  IInv'
<1> USE DEF Early, Before, Fixed, Judging, Inside, Calling, Made, Ending
<1>1. LocalsKnown'
  BY DEF LocalsKnown, Still, IInv
<1>2. Linked' /\ CallKnown' /\ PlanKnown'
  BY DEF Linked, CallKnown, PlanKnown, Still, Tables, IInv
<1>3. RecordsKnown' /\ Backed' /\ CascadeClimbs'
  BY Frame DEF RecordsKnown, Still, IInv, None
<1>4. ClimbKnown'
  BY DEF ClimbKnown, Still, IInv
<1> QED
  BY <1>1, <1>2, <1>3, <1>4, FirstKept DEF IInv, Still

\* A run that stays where it is.
LEMMA Idle ==
    ASSUME IInv, UNCHANGED <<run, provider, evaluations, spec, status, plan>>,
           Tables', Len(Calls') = Len(Calls)
    PROVE  IInv'
<1>1. LocalsKnown' /\ Linked' /\ CallKnown' /\ PlanKnown'
  BY DEF LocalsKnown, Linked, CallKnown, PlanKnown, Tables, Back, Current, IInv
<1>2. RecordsKnown' /\ ClimbKnown' /\ Backed' /\ CascadeClimbs'
  BY Frame DEF RecordsKnown, ClimbKnown, Above, IInv
<1> QED
  BY <1>1, <1>2, FirstKept DEF IInv

-----------------------------------------------------------------------------
\* What the calls of the store do to the tables the run reads.
LEMMA SettleTables ==
    ASSUME Tables, NEW i \in 1..Len(Calls), NEW c \in Costs \cup {0, Unknown},
           NEW e \in L!Evidence, L!SettleAttempt(Task, i, c, e)
    PROVE  /\ Tables' /\ UNCHANGED <<status, plan>> /\ Len(Calls') = Len(Calls)
           /\ reply' # None
<1>0. reply' # None
  BY DEF L!SettleAttempt, L!Return, L!Repeated, None
<1>1. UNCHANGED <<status, plan>>
  BY DEF L!SettleAttempt, L!Return, L!row, L!columns
<1>2. CASE attempts' = attempts
  BY <1>0, <1>1, <1>2 DEF Tables, Calls
<1>3. CASE \E s \in {"unresolved", "settled"} :
           attempts' = [attempts EXCEPT ![Task] = [@ EXCEPT ![i] =
              [amount |-> Calls[i].amount, cost |-> c, state |-> s,
               outcome |-> L!Resolve(Calls[i], e)]]]
  <2> PICK s \in {"unresolved", "settled"} :
           attempts' = [attempts EXCEPT ![Task] = [@ EXCEPT ![i] =
              [amount |-> Calls[i].amount, cost |-> c, state |-> s,
               outcome |-> L!Resolve(Calls[i], e)]]]
    BY <1>3
  <2> DEFINE a == [amount |-> Calls[i].amount, cost |-> c, state |-> s,
                   outcome |-> L!Resolve(Calls[i], e)]
  <2>1. Calls \in Seq(L!Attempt) /\ Task \in Tasks /\ attempts \in [Tasks -> Seq(L!Attempt)]
    BY TaskRunAssumption DEF Tables, Calls
  <2>2. Calls[i] \in L!Attempt
    BY <2>1
  <2>3. c \in Nat \cup {L!Unknown}
    BY TaskRunAssumption DEF Unknown, L!Unknown
  <2>4. L!Resolve(Calls[i], e) \in SUBSET L!Evidence
    BY <2>2 DEF L!Resolve, L!Attempt, L!Evidence
  <2>5. a \in L!Attempt
    BY <2>2, <2>3, <2>4 DEF L!Attempt
  <2>6. attempts' = [attempts EXCEPT ![Task] = [Calls EXCEPT ![i] = a]]
    BY <2>1 DEF Calls
  <2> HIDE DEF a
  <2>7. [Calls EXCEPT ![i] = a] \in Seq(L!Attempt) /\ Len([Calls EXCEPT ![i] = a]) = Len(Calls)
    BY <2>1, <2>5
  <2>8. attempts' \in [Tasks -> Seq(L!Attempt)] /\ Len(Calls') = Len(Calls)
    BY <2>1, <2>6, <2>7 DEF Calls
  <2> QED
    BY <1>0, <1>1, <2>8 DEF Tables
<1> QED
  BY <1>0, <1>2, <1>3 DEF L!SettleAttempt, L!Return, Calls

\* A reservation that is granted is the next attempt.
LEMMA ReserveTables ==
    ASSUME Tables, NEW a \in Nat, L!Reserve(Task, a)
    PROVE  /\ Tables' /\ UNCHANGED <<status, plan>>
           /\ reply' = "ok" => Len(Calls') = Len(Calls) + 1
           /\ reply' # "ok" => Len(Calls') = Len(Calls)
           /\ reply' # None
<1>0. reply' # None
  BY DEF L!Reserve, L!Return, None
<1>1. UNCHANGED <<status, plan>>
  BY DEF L!Reserve, L!Return, L!row, L!columns
<1>2. CASE attempts' = attempts /\ reply' # "ok"
  BY <1>0, <1>1, <1>2 DEF Tables, Calls
<1>3. CASE ~(attempts' = attempts /\ reply' # "ok")
  <2> DEFINE x == [amount |-> a, cost |-> L!Unknown, state |-> "pending", outcome |-> {}]
  <2>1. reply' = "ok" /\ attempts' = [attempts EXCEPT ![Task] = Append(@, x)]
    BY <1>3 DEF L!Reserve, L!Return
  <2>2. x \in L!Attempt
    BY DEF L!Attempt
  <2>3. Calls \in Seq(L!Attempt) /\ Task \in Tasks /\ attempts \in [Tasks -> Seq(L!Attempt)]
    BY TaskRunAssumption DEF Tables, Calls
  <2>4. attempts' = [attempts EXCEPT ![Task] = Append(Calls, x)]
    BY <2>1 DEF Calls
  <2> HIDE DEF x
  <2>5. Append(Calls, x) \in Seq(L!Attempt) /\ Len(Append(Calls, x)) = Len(Calls) + 1
    BY <2>2, <2>3
  <2> QED
    BY <1>0, <1>1, <2>1, <2>3, <2>4, <2>5 DEF Tables, Calls
<1> QED
  BY <1>0, <1>2, <1>3

\* The other calls leave the attempts alone.
LEMMA CreateTables ==
    ASSUME Tables, NEW b, status[Task] = "absent", L!CreateSubmission(Task, b)
    PROVE  /\ Tables' /\ Len(Calls') = Len(Calls)
           /\ plan' = plan /\ status'[Task] = "running"
<1>1. Task \in Tasks
  BY TaskRunAssumption
<1> QED
  BY <1>1 DEF Tables, Calls, L!CreateSubmission, L!Return, L!Statuses

\* Saving a plan sets the plan of the run's own task.
LEMMA PlanTables ==
    ASSUME Tables, NEW p \in Phases, status[Task] = "running", L!SavePlan(Task, p)
    PROVE  /\ Tables' /\ Len(Calls') = Len(Calls)
           /\ plan'[Task] = p /\ status' = status
<1>1. Task \in Tasks
  BY TaskRunAssumption
<1> QED
  BY <1>1 DEF Tables, Calls, L!SavePlan

\* A checkpoint changes nothing the run reads.
LEMMA CheckpointTables ==
    ASSUME Tables, NEW p, L!Checkpoint(Task, p)
    PROVE  Tables' /\ Len(Calls') = Len(Calls) /\ UNCHANGED <<plan, status>>
  BY DEF Tables, Calls, L!Checkpoint

-----------------------------------------------------------------------------
\* Only the place and the last three locals change.
Goes(place) ==
    /\ run'.place = place
    /\ run'.node = run.node /\ run'.model = run.model
    /\ run'.floor = run.floor /\ run'.round = run.round
    /\ run'.verdict = run.verdict
    /\ DOMAIN run' = Fields /\ run' = [f \in Fields |-> run'[f]]

\* A step to the next place keeps the result and the planning error.
LEMMA GoGoes ==
    ASSUME LocalsKnown, NEW p, Go(p)
    PROVE  Goes(p) /\ run'.result = run.result /\ run'.planError = run.planError
  BY DEF LocalsKnown, Go, Goes, Fields

\* A failure goes to the final write with its kind.
LEMMA FailGoes ==
    ASSUME LocalsKnown, NEW kind, Fail(kind)
    PROVE  Goes("finish") /\ run'.result = run.result /\ run'.error = kind
  BY DEF LocalsKnown, Fail, Goes, Fields

\* A round that concludes goes to read its result.
LEMMA ConcludeGoes ==
    ASSUME LocalsKnown, NEW result, Conclude(result)
    PROVE  Goes("result") /\ run'.result = result
  BY DEF LocalsKnown, Conclude, Goes, Fields

\* A failure of planning is kept until the plan that failed is saved.
LEMMA PlanningFailsGoes ==
    ASSUME LocalsKnown, NEW kind, PlanningFails(kind)
    PROVE  Goes("planFailed") /\ run'.result = run.result /\ run'.planError = kind
  BY DEF LocalsKnown, PlanningFails, Goes, Fields

\* A step that goes somewhere is still if it calls nothing else.
LEMMA GoesStill ==
    ASSUME LocalsKnown, NEW p, Goes(p), UNCHANGED <<provider, evaluations, spec>>,
           Tables', Len(Calls') = Len(Calls), Planned => Planned'
    PROVE  Still
  BY DEF Goes, Still, LocalsKnown

\* A run that is not over ends with any error.
LEMMA Fails ==
    ASSUME IInv, run.place \notin {"create", "returned", "dropped"}, NEW kind, Fail(kind), kind # None,
           UNCHANGED <<provider, evaluations, spec>>,
           Tables', Len(Calls') = Len(Calls), Planned => Planned', status' = status
    PROVE  IInv'
<1>1. Goes("finish") /\ run'.result = run.result /\ run'.error = kind
  BY FailGoes DEF IInv
<1>2. Still
  BY <1>1, GoesStill DEF IInv
<1>3. status[Task] = "running"
  BY DEF IInv, Linked
<1>4. run'.place = "finish"
  BY <1>1 DEF Goes
<1>5. /\ run.result = "completed" => Passed
      /\ run.result \in {None, "completed", "human_required"}
  BY DEF IInv, RecordsKnown, LocalsKnown
<1> QED
  BY <1>1, <1>2, <1>3, <1>4, <1>5, ToEnding DEF Ending

\* A step that calls nothing keeps the tables.
LEMMA NoCall ==
    ASSUME IInv, UNCHANGED ledger
    PROVE  /\ Tables /\ Tables' /\ Calls' = Calls
           /\ status' = status /\ plan' = plan
  BY DEF IInv, Linked, Tables, ledger, Calls

\* A preparation that goes on.
LEMMA Prepares ==
    ASSUME IInv, run.place \in Before \cup Fixed \cup {"settle"},
           run.place = "settle" => run.node \in {"planner", "decision"},
           NEW p \in (Before \cup Fixed) \ {"create"}, Goes(p), run'.result = run.result,
           UNCHANGED <<provider, evaluations, spec>>,
           Tables', Len(Calls') = Len(Calls), Planned => Planned',
           status'[Task] = "running", p \in Fixed => Planned', p \in Early => ~Planned',
           p \in {"planFailed", "fallback", "substitute"} => run'.planError # None
    PROVE  IInv'
<1>1. Still
  BY GoesStill DEF IInv
<1>2. evaluations = <<>>
  BY DEF IInv, RecordsKnown, Calling
<1>3. run.result = None
  BY DEF IInv, LocalsKnown, Ending, Early, Before, Fixed
<1>4. run'.place = p
  BY DEF Goes
<1> QED
  BY <1>1, <1>2, <1>3, <1>4, ToPreparing

-----------------------------------------------------------------------------
\* The steps of the preparation.
LEMMA AdmitStep == ASSUME IInv, Admit PROVE IInv'
<1>1. run.place = "create" /\ Goes("prepare") /\ run'.result = run.result
  BY GoGoes DEF Admit, IInv
<1>2. status[Task] = "absent" /\ Tables
  BY <1>1 DEF IInv, Linked, Tables
<1>3. Tables' /\ Len(Calls') = Len(Calls) /\ plan' = plan /\ status'[Task] = "running"
  BY <1>2, CreateTables DEF Admit
<1>4. UNCHANGED <<provider, evaluations, spec>>
  BY DEF Admit, world
<1>5. ~Planned'
  BY <1>1, <1>3 DEF IInv, PlanKnown, Early
<1> QED
  BY <1>1, <1>3, <1>4, <1>5, Prepares DEF Early, Before, Fixed

\* Between the first write and the last the row is running.
LEMMA RunningAt ==
    ASSUME IInv, run.place \notin {"create", "returned", "dropped"}
    PROVE  status[Task] = "running" /\ Tables
  BY DEF IInv, Linked, Tables

\* The checks between the stages of a run write nothing.
LEMMA CheckResourcesStep ==
    ASSUME IInv, CheckResources, run'.place # "reserve"
    PROVE  IInv'
<1>0. run.place \in {"prepare", "fallback", "decide", "execute"} /\ LocalsKnown
  BY DEF CheckResources, IInv
<1>1. UNCHANGED <<provider, evaluations, spec>> /\ UNCHANGED ledger
  BY DEF CheckResources, world
<1>2. Tables' /\ Calls' = Calls /\ status' = status /\ plan' = plan /\ status[Task] = "running"
  BY <1>0, <1>1, NoCall, RunningAt
<1>3. CASE \E kind : kind # None /\ Fail(kind)
  BY <1>0, <1>1, <1>2, <1>3, Fails
<1>4. CASE run.place = "prepare" /\ (Go("planning") \/ Go("validate"))
  <2>1. ~Planned'
    BY <1>2, <1>4 DEF IInv, PlanKnown, Early
  <2> QED
    BY <1>0, <1>1, <1>2, <1>4, <2>1, GoGoes, Prepares DEF Early, Before, Fixed
<1>5. CASE run.place = "execute" /\ Go("begin")
  <2>1. Planned
    BY <1>5 DEF IInv, PlanKnown, Fixed
  <2> QED
    BY <1>0, <1>1, <1>2, <1>5, <2>1, GoGoes, Prepares DEF Early, Before, Fixed
<1>6. CASE run' = [run EXCEPT !.place = "reserve", !.node = "decision"]
  BY <1>0, <1>6 DEF LocalsKnown, Fields
<1>7. CASE run.place = "fallback" /\ Go("substitute")
  <2>1. run.planError # None
    BY <1>0, <1>7 DEF LocalsKnown
  <2> QED
    BY <1>0, <1>1, <1>2, <1>7, <2>1, GoGoes, Prepares DEF Early, Before, Fixed
<1> QED
  BY <1>3, <1>4, <1>5, <1>6, <1>7 DEF CheckResources

\* The steps of planning that save a plan or validate a proposal.
LEMMA SavingStep ==
    ASSUME IInv, BeginPlanning \/ SaveFailedPlan \/ FallBack \/ FixPlan \/ ValidatePlan
    PROVE  IInv'
<1>0. run.place \in {"planning", "planFailed", "substitute", "plan", "validate"} /\ LocalsKnown
  BY DEF BeginPlanning, SaveFailedPlan, FallBack, FixPlan, ValidatePlan, IInv
<1>1. UNCHANGED <<provider, evaluations, spec>>
  BY DEF BeginPlanning, SaveFailedPlan, FallBack, FixPlan, ValidatePlan, world
<1>2. status[Task] = "running" /\ Tables
  BY <1>0, RunningAt
<1>3. CASE BeginPlanning
  <2>1. Tables' /\ Len(Calls') = Len(Calls) /\ UNCHANGED <<plan, status>>
    BY <1>2, <1>3, CheckpointTables DEF BeginPlanning
  <2>2. Goes("routePlanner") /\ run'.result = run.result
    BY <1>0, <1>3, GoGoes DEF BeginPlanning
  <2>3. ~Planned'
    BY <1>3, <2>1 DEF BeginPlanning, IInv, PlanKnown, Early
  <2> QED
    BY <1>0, <1>1, <1>2, <2>1, <2>2, <2>3, Prepares DEF Early, Before, Fixed
<1>4. CASE FixPlan
  <2>1. Tables' /\ Len(Calls') = Len(Calls) /\ Planned' /\ status' = status
    BY <1>2, <1>4, PlanTables, TaskRunAssumption DEF FixPlan
  <2>2. Goes("execute") /\ run'.result = run.result
    BY <1>0, <1>4, GoGoes DEF FixPlan
  <2> QED
    BY <1>0, <1>1, <1>2, <2>1, <2>2, Prepares DEF Early, Before, Fixed
<1>5. CASE SaveFailedPlan
  <2>1. Tables' /\ Len(Calls') = Len(Calls) /\ status' = status
    BY <1>2, <1>5, PlanTables, TaskRunAssumption DEF SaveFailedPlan
  <2>4. ~Planned
    BY <1>5 DEF SaveFailedPlan, IInv, PlanKnown, Early
  <2>2. CASE Go("fallback")
    <3>1. run.planError # None
      BY <1>5 DEF SaveFailedPlan, IInv, LocalsKnown
    <3> QED
      BY <1>0, <1>1, <1>2, <2>1, <2>2, <2>4, <3>1, GoGoes, Prepares DEF Early, Before, Fixed
  <2>3. CASE run.planError \in {"cancelled", "deadline"} /\ Fail(run.planError)
    BY <1>0, <1>1, <2>1, <2>3, <2>4, Fails DEF None
  <2> QED
    BY <1>5, <2>2, <2>3 DEF SaveFailedPlan
<1>6. CASE ValidatePlan
  <2>1. Tables' /\ Calls' = Calls /\ status' = status /\ plan' = plan
    BY <1>6, NoCall DEF ValidatePlan
  <2>2. CASE Go("decide") \/ Go("plan")
    BY <1>0, <1>1, <1>2, <2>1, <2>2, GoGoes, Prepares DEF Early, Before, Fixed
  <2>3. CASE Fail("plan_validation")
    BY <1>0, <1>1, <2>1, <2>3, Fails DEF None
  <2> QED
    BY <1>6, <2>2, <2>3 DEF ValidatePlan
<1>7. CASE FallBack
  <2>1. Tables' /\ Calls' = Calls /\ status' = status /\ plan' = plan
    BY <1>7, NoCall DEF FallBack
  <2>2. CASE Go("validate")
    BY <1>0, <1>1, <1>2, <2>1, <2>2, GoGoes, Prepares DEF Early, Before, Fixed
  <2>3. run.planError # None
    BY <1>7 DEF FallBack, IInv, LocalsKnown
  <2>4. CASE Fail(run.planError)
    BY <1>0, <1>1, <2>1, <2>3, <2>4, Fails
  <2> QED
    BY <1>7, <2>2, <2>4 DEF FallBack
<1> QED
  BY <1>3, <1>4, <1>5, <1>6, <1>7

-----------------------------------------------------------------------------
\* A run that moves between calls arrives with what its place says.
LEMMA Arrives ==
    ASSUME IInv, Still, status'[Task] = "running",
           run'.place \notin {"create", "returned", "dropped"},
           LocalsKnown', CallKnown', PlanKnown', RecordsKnown', ClimbKnown'
    PROVE  IInv'
<1>1. Linked'
  BY DEF Linked, Still, Tables, IInv
<1>2. Backed' /\ CascadeClimbs'
  BY Frame DEF Still, IInv
<1> QED
  BY <1>1, <1>2, FirstKept DEF IInv, Still

\* The first call of a kind is about to be reserved.
LEMMA DecisionStep ==
    ASSUME IInv, CheckResources, run'.place = "reserve"
    PROVE  IInv'
<1> USE DEF Early, Before, Fixed, Judging, Inside, Calling, Made, Ending
<1>0. run.place \in {"prepare", "fallback", "decide", "execute"} /\ LocalsKnown
  BY DEF CheckResources, IInv
<1>1. UNCHANGED <<provider, evaluations, spec>> /\ UNCHANGED ledger
  BY DEF CheckResources, world
<1>2. Tables' /\ Calls' = Calls /\ status' = status /\ plan' = plan /\ status[Task] = "running"
  BY <1>0, <1>1, NoCall, RunningAt
<1>3. run.place = "decide" /\ run' = [run EXCEPT !.place = "reserve", !.node = "decision"]
  <2>1. ~Goes("planning") /\ ~Goes("validate") /\ ~Goes("substitute") /\ ~Goes("begin") /\ ~Goes("finish")
    BY DEF Goes
  <2> QED
    BY <1>0, <2>1, GoGoes, FailGoes DEF CheckResources
<1>4. /\ run'.place = "reserve" /\ run'.node = "decision" /\ run'.model = run.model
      /\ run'.floor = run.floor /\ run'.round = run.round /\ run'.result = run.result
      /\ DOMAIN run' = Fields /\ run' = [f \in Fields |-> run'[f]]
  BY <1>0, <1>3 DEF LocalsKnown, Fields
<1>5. Still
  BY <1>0, <1>1, <1>2, <1>4 DEF Still, LocalsKnown, Nodes
<1>6. evaluations = <<>> /\ run.result = None
  BY <1>3 DEF IInv, RecordsKnown, LocalsKnown
<1>7. LocalsKnown'
  BY <1>0, <1>1, <1>4, <1>6 DEF LocalsKnown, Nodes, None
<1>8. CallKnown' /\ PlanKnown' /\ ClimbKnown'
  BY <1>4 DEF CallKnown, PlanKnown, ClimbKnown
<1>9. RecordsKnown'
  BY <1>1, <1>2, <1>4, <1>6 DEF RecordsKnown, None
<1> QED
  BY <1>2, <1>4, <1>5, <1>7, <1>8, <1>9, Arrives

\* The planner is routed, or planning fails.
LEMMA RoutePlannerStep == ASSUME IInv, RoutePlanner PROVE IInv'
<1> USE DEF Early, Before, Fixed, Judging, Inside, Calling, Made, Ending
<1>0. run.place = "routePlanner" /\ LocalsKnown
  BY DEF RoutePlanner, IInv
<1>1. UNCHANGED <<provider, evaluations, spec>> /\ UNCHANGED ledger
  BY DEF RoutePlanner, world
<1>2. Tables' /\ Calls' = Calls /\ status' = status /\ plan' = plan /\ status[Task] = "running"
  BY <1>0, <1>1, NoCall, RunningAt
<1>9. ~Planned /\ ~Planned'
  BY <1>0, <1>2 DEF IInv, PlanKnown
<1>3. CASE PlanningFails("planning")
  BY <1>0, <1>1, <1>2, <1>3, <1>9, PlanningFailsGoes, Prepares DEF None
<1>4. ASSUME NEW m \in Models,
             run' = [run EXCEPT !.place = "reserve", !.node = "planner", !.model = m]
      PROVE  IInv'
  <2>4. /\ run'.place = "reserve" /\ run'.node = "planner" /\ run'.model = m
        /\ run'.floor = run.floor /\ run'.round = run.round /\ run'.result = run.result
        /\ DOMAIN run' = Fields /\ run' = [f \in Fields |-> run'[f]]
    BY <1>0, <1>4 DEF LocalsKnown, Fields
  <2>5. Still
    BY <1>0, <1>1, <1>2, <2>4 DEF Still, LocalsKnown, Nodes
  <2>6. evaluations = <<>> /\ run.result = None
    BY <1>0 DEF IInv, RecordsKnown, LocalsKnown
  <2>7. LocalsKnown'
    BY <1>0, <1>1, <2>4, <2>6 DEF LocalsKnown, Nodes, None
  <2>8. CallKnown' /\ PlanKnown' /\ ClimbKnown'
    BY <1>9, <2>4 DEF CallKnown, PlanKnown, ClimbKnown
  <2>9. RecordsKnown'
    BY <1>1, <1>2, <2>4, <2>6 DEF RecordsKnown, None
  <2> QED
    BY <1>2, <2>4, <2>5, <2>7, <2>8, <2>9, Arrives
<1>5. Candidates(Models \ Planners, 0, L!Lesser(L!Available(Task), PlanningCost)) \subseteq Models
  BY DEF Candidates
<1> QED
  BY <1>3, <1>4, <1>5 DEF RoutePlanner

\* invoke() begins: the place, the node and the floor are all it takes over.
Begins(node) ==
    /\ run'.place = "route" /\ run'.node = node /\ run'.model = run.model
    /\ run'.round \in 1..MaxRounds /\ run'.floor \in Nat /\ run'.result = run.result
    /\ DOMAIN run' = Fields /\ run' = [f \in Fields |-> run'[f]]

\* A generator is invoked where the plan is saved; in a cascade the floor is
\* above the last candidate.
LEMMA InvokesGenerator ==
    ASSUME IInv, Begins("generator"), run.result = None,
           UNCHANGED <<provider, evaluations, spec>>,
           Tables', Len(Calls') = Len(Calls), plan' = plan, status' = status,
           status[Task] = "running", Planned,
           spec.strategy = "cascade" /\ evaluations # <<>> =>
               run'.floor >= Quality[Last.model] + MinGain
    PROVE  IInv'
<1> USE DEF Early, Before, Fixed, Judging, Inside, Calling, Made, Ending
<1>1. Still
  BY DEF Still, Begins, IInv, LocalsKnown, Nodes
<1>2. LocalsKnown'
  BY DEF Begins, IInv, LocalsKnown, Nodes, None
<1>3. CallKnown' /\ PlanKnown'
  BY DEF CallKnown, PlanKnown, Begins
<1>4. RecordsKnown'
  BY DEF RecordsKnown, Begins, None
<1>5. ClimbKnown'
  BY DEF ClimbKnown, Begins, Above, Last
<1> QED
  BY <1>1, <1>2, <1>3, <1>4, <1>5, Arrives DEF Begins

\* The first round begins with no record and the lowest quality the host allows.
LEMMA BeginExecutionStep == ASSUME IInv, BeginExecution PROVE IInv'
<1>0. run.place = "begin" /\ LocalsKnown
  BY DEF BeginExecution, IInv
<1>1. UNCHANGED <<provider, evaluations, spec>>
  BY DEF BeginExecution, world
<1>2. status[Task] = "running" /\ Tables
  BY <1>0, RunningAt
<1>3. Tables' /\ Len(Calls') = Len(Calls) /\ UNCHANGED <<plan, status>>
  BY <1>2, CheckpointTables DEF BeginExecution
<1>4. Begins("generator")
  BY <1>0 DEF BeginExecution, BeginInvoke, Begins, LocalsKnown, Fields
<1>5. Planned /\ evaluations = <<>> /\ run.result = None
  BY <1>0 DEF IInv, PlanKnown, RecordsKnown, LocalsKnown, Fixed, Ending
<1> QED
  BY <1>1, <1>2, <1>3, <1>4, <1>5, InvokesGenerator

-----------------------------------------------------------------------------
\* The router names a model above the floor, or the run ends.
LEMMA RouteStep == ASSUME IInv, Route PROVE IInv'
<1> USE DEF Early, Before, Fixed, Judging, Inside, Calling, Made, Ending
<1>0. run.place = "route" /\ LocalsKnown
  BY DEF Route, IInv
<1>1. UNCHANGED <<provider, evaluations, spec>> /\ UNCHANGED ledger
  BY DEF Route, world
<1>2. Tables' /\ Calls' = Calls /\ status' = status /\ plan' = plan /\ status[Task] = "running"
  BY <1>0, <1>1, NoCall, RunningAt
<1>3. CASE \E kind : kind # None /\ Fail(kind)
  BY <1>0, <1>1, <1>2, <1>3, Fails
<1>4. ASSUME NEW m \in Models, run.node # "critic" => Quality[m] >= run.floor,
             run' = [run EXCEPT !.place = "reserve", !.model = m]
      PROVE  IInv'
  <2>1. /\ run'.place = "reserve" /\ run'.node = run.node /\ run'.model = m
        /\ run'.floor = run.floor /\ run'.round = run.round /\ run'.result = run.result
        /\ DOMAIN run' = Fields /\ run' = [f \in Fields |-> run'[f]]
    BY <1>0, <1>4 DEF LocalsKnown, Fields
  <2>2. Still
    BY <1>0, <1>1, <1>2, <2>1 DEF Still, LocalsKnown
  <2>3. LocalsKnown'
    BY <1>0, <1>1, <2>1 DEF LocalsKnown, None
  <2>4. CallKnown' /\ PlanKnown'
    <3>1. run.node # "planner"
      BY <1>0 DEF LocalsKnown
    <3> QED
      BY <1>0, <1>2, <2>1, <3>1 DEF CallKnown, PlanKnown, IInv
  <2>5. RecordsKnown'
    BY <1>0, <1>1, <1>2, <2>1, Frame DEF RecordsKnown, IInv, LocalsKnown
  <2>6. Above' = Above
    BY <1>1, <2>1 DEF Above, Last
  <2>7. ClimbKnown'
    BY <1>0, <1>1, <1>4, <2>1, <2>6 DEF ClimbKnown, IInv
  <2> QED
    BY <1>2, <2>1, <2>2, <2>3, <2>4, <2>5, <2>7, Arrives
<1>5. CASE Go("upgradeStop")
  <2>1. Goes("upgradeStop") /\ run'.result = run.result
    BY <1>0, <1>5, GoGoes
  <2>2. Still
    BY <1>0, <1>1, <1>2, <2>1, GoesStill
  <2>3. LocalsKnown'
    BY <1>0, <1>1, <2>1 DEF LocalsKnown, Goes
  <2>4. CallKnown' /\ PlanKnown' /\ ClimbKnown'
    BY <1>0, <1>2, <2>1 DEF CallKnown, PlanKnown, ClimbKnown, IInv, Goes
  <2>5. RecordsKnown'
    BY <1>0, <1>1, <1>2, <2>1, Frame DEF RecordsKnown, IInv, Goes
  <2>6. run'.place = "upgradeStop"
    BY <2>1 DEF Goes
  <2> QED
    BY <1>2, <2>2, <2>3, <2>4, <2>5, <2>6, Arrives
<1>6. ASSUME NEW m \in Candidates(run.attempted, IF run.node = "critic" THEN 0 ELSE run.floor,
                                  L!Available(Task))
      PROVE  m \in Models /\ (run.node # "critic" => Quality[m] >= run.floor)
  BY <1>6 DEF Candidates
<1> QED
  BY <1>3, <1>4, <1>5, <1>6 DEF Route, None

-----------------------------------------------------------------------------
\* Record k is of the candidate that the critic is asked about by call i.
Precedes(k, i) ==
    /\ evaluations[k].det = "pass"
    /\ evaluations[k].attempt < i
    /\ \A j \in (evaluations[k].attempt + 1)..i : provider[j].node = "critic"

\* A call that is granted is the last of the calls; the plan is saved before
\* it, and the candidate before its critic.
LEMMA Granted ==
    ASSUME IInv, run.place = "reserve", Goes("dispatch"), run'.result = run.result,
           NEW x \in ProviderCall, x.node = run.node, x.tag = None,
           provider' = Append(provider, x), UNCHANGED <<evaluations, spec, status, plan>>,
           Tables', Len(Calls') = Len(Calls) + 1
    PROVE  IInv'
<1> USE DEF Early, Before, Fixed, Judging, Inside, Calling, Made, Ending
<1>1. /\ provider' \in Seq(ProviderCall) /\ Len(provider') = Len(provider) + 1
      /\ Len(provider) \in Nat /\ provider'[Len(provider) + 1] = x
      /\ \A i \in 1..Len(provider) : provider'[i] = provider[i]
  BY DEF IInv, Linked
<1>2. LocalsKnown'
  BY DEF IInv, LocalsKnown, Goes
<1>3. Linked'
  BY <1>1 DEF IInv, Linked, Tables, Goes
<1>4. CallKnown'
  BY <1>1 DEF CallKnown, Goes, Current, Back
<1>5. PlanKnown'
  BY DEF IInv, PlanKnown, Goes
<1>6. Backed'
  BY <1>1 DEF IInv, Backed
<1>7. UnderCritic => (x.node = "critic" => UnderCritic')
  <2> SUFFICES ASSUME UnderCritic, x.node = "critic"
               PROVE  UnderCritic'
    OBVIOUS
  <2>1. evaluations # <<>> /\ Last' = Last /\ Last.det = "pass" /\ Last.attempt \in Nat
    BY DEF UnderCritic, Last, IInv, Backed, Evaluation
  <2>2. ASSUME NEW j \in (Last.attempt + 1)..Len(provider')
        PROVE  provider'[j].node = "critic"
    <3>1. j = Len(provider) + 1 \/ j \in (Last.attempt + 1)..Len(provider)
      BY <1>1, <2>1
    <3>2. j \in (Last.attempt + 1)..Len(provider) => j \in 1..Len(provider)
      BY <1>1, <2>1
    <3> QED
      BY <1>1, <3>1, <3>2 DEF UnderCritic
  <2> QED
    BY <2>1, <2>2 DEF UnderCritic
<1>8. RecordsKnown'
  <2>1. Passed' = Passed
    BY DEF Passed, Last
  <2> QED
    BY <1>7, <2>1 DEF IInv, RecordsKnown, Goes
<1>9. ClimbKnown' /\ CascadeClimbs'
  BY DEF IInv, ClimbKnown, CascadeClimbs, Goes, Above, Last
<1>10. FirstWritten'
  <2>1. \A k \in 1..Len(evaluations) : evaluations[k].attempt \in 1..Len(provider)
    BY DEF IInv, Backed
  <2>2. FirstWritten
    BY DEF IInv
  <2>3. ASSUME NEW i \in 1..Len(provider)
        PROVE  /\ provider'[i].node \in {"generator", "critic", "tool"} => Planned
               /\ provider'[i].node = "critic" =>
                    \E k \in 1..Len(evaluations) : Precedes(k, i)'
    <3>1. provider'[i] = provider[i] /\ \A j \in 1..i : provider'[j] = provider[j]
      BY <1>1
    <3>2. ASSUME NEW k \in 1..Len(evaluations), Precedes(k, i)
          PROVE  Precedes(k, i)'
      <4>1. \A j \in (evaluations[k].attempt + 1)..i : j \in 1..i
        BY <1>1, <2>1
      <4> QED
        BY <3>1, <3>2, <4>1 DEF Precedes
    <3> QED
      BY <2>2, <3>1, <3>2 DEF FirstWritten, Precedes
  <2>4. x.node \in {"generator", "critic", "tool"} => Planned
    BY DEF IInv, PlanKnown
  <2>5. ASSUME NEW i, i = Len(provider) + 1, x.node = "critic"
        PROVE  \E k \in 1..Len(evaluations) : Precedes(k, i)'
    <3>1. UnderCritic'
      BY <1>7, <2>5 DEF IInv, RecordsKnown
    <3>2. Last' = Last /\ Len(evaluations) \in 1..Len(evaluations)
      BY <3>1 DEF UnderCritic, Last, IInv, Backed
    <3>3. Last.attempt \in 1..Len(provider)
      BY <2>1, <3>2 DEF Last
    <3>4. ASSUME NEW k \in 1..Len(evaluations), k = Len(evaluations)
          PROVE  Precedes(k, i)'
      BY <1>1, <2>5, <3>1, <3>3, <3>4 DEF UnderCritic, Last, Precedes
    <3> QED
      BY <3>2, <3>4
  <2>6. ASSUME NEW i \in 1..Len(provider')
        PROVE  /\ provider'[i].node \in {"generator", "critic", "tool"} => Planned'
               /\ provider'[i].node = "critic" =>
                    \E k \in 1..Len(evaluations') : Precedes(k, i)'
    <3>1. i \in 1..Len(provider) \/ i = Len(provider) + 1
      BY <1>1
    <3>2. CASE i = Len(provider) + 1
      BY <1>1, <2>4, <2>5, <3>2
    <3> QED
      BY <2>3, <3>1, <3>2
  <2> QED
    BY <2>6 DEF FirstWritten, Precedes
<1> QED
  BY <1>2, <1>3, <1>4, <1>5, <1>6, <1>8, <1>9, <1>10 DEF IInv

\* A reservation is granted and the attempt is the current one, or the call fails.
LEMMA ReserveStep == ASSUME IInv, ReserveCall PROVE IInv'
<1>0. run.place = "reserve" /\ LocalsKnown /\ L!Reserve(Task, Amount)
  BY DEF ReserveCall, IInv
<1>1. UNCHANGED <<evaluations, spec>>
  BY DEF ReserveCall, world
<1>2. status[Task] = "running" /\ Tables
  BY <1>0, RunningAt
<1>3. Amount \in Nat
  <2>1. run.node # "decision" => run.model \in Models
    BY <1>0 DEF LocalsKnown, Calling
  <2> QED
    BY <2>1, TaskRunAssumption DEF Amount
<1>4. /\ Tables' /\ UNCHANGED <<status, plan>>
      /\ reply' = "ok" => Len(Calls') = Len(Calls) + 1
      /\ reply' # "ok" => Len(Calls') = Len(Calls)
      /\ reply' # None
  BY <1>0, <1>2, <1>3, ReserveTables
<1>5. CASE reply' # "ok"
  BY <1>0, <1>1, <1>4, <1>5, Fails DEF ReserveCall
<1>6. CASE reply' = "ok"
  <2> DEFINE x == [node |-> run.node, model |-> run.model, round |-> run.round, sent |-> FALSE,
                   tag |-> None, usage |-> Unknown]
  <2>1. x \in ProviderCall
    BY <1>0 DEF ProviderCall, LocalsKnown, Calling, AllTags
  <2>2. provider' = Append(provider, x) /\ Go("dispatch")
    BY <1>6 DEF ReserveCall
  <2>3. x.node = run.node /\ x.tag = None
    OBVIOUS
  <2> HIDE DEF x
  <2>4. Goes("dispatch") /\ run'.result = run.result
    BY <1>0, <2>2, GoGoes
  <2> QED
    BY <1>0, <1>1, <1>4, <1>6, <2>1, <2>2, <2>3, <2>4, Granted
<1> QED
  BY <1>5, <1>6

\* Only a call under way changes, and no candidate came back from it yet.
LEMMA UnderWay ==
    ASSUME IInv, run.place \in {"dispatch", "waiting"}, NEW q \in {"waiting", "settle"}, Goes(q),
           run'.result = run.result,
           NEW y \in ProviderCall, y.node = Back.node,
           provider' = [provider EXCEPT ![Current] = y],
           q = "waiting" => y.sent /\ y.tag = None,
           q = "settle" => y.tag # None /\ (y.tag = "answer" => y.sent),
           UNCHANGED ledger, UNCHANGED <<evaluations, spec>>
    PROVE  IInv'
<1> USE DEF Early, Before, Fixed, Judging, Inside, Calling, Made, Ending
<1>0. Tables' /\ Calls' = Calls /\ status' = status /\ plan' = plan
  BY NoCall
<1>1. Current \in 1..Len(provider) /\ provider \in Seq(ProviderCall) /\ Back.tag = None
  BY DEF IInv, CallKnown, Linked, Current
<1>2. /\ provider' \in Seq(ProviderCall) /\ Len(provider') = Len(provider)
      /\ \A i \in 1..Len(provider) : provider'[i] = IF i = Current THEN y ELSE provider[i]
  BY <1>1
<1>3. \A i \in 1..Len(provider) : provider'[i].node = provider[i].node
  BY <1>2 DEF Back
<1>4. Current' = Current /\ Back' = y
  BY <1>1, <1>2 DEF Current, Back
<1>5. LocalsKnown'
  BY DEF IInv, LocalsKnown, Goes
<1>6. Linked'
  BY <1>0, <1>2 DEF IInv, Linked, Tables, Goes
<1>7. CallKnown' /\ PlanKnown'
  BY <1>0, <1>1, <1>4 DEF IInv, CallKnown, PlanKnown, Goes
<1>8. Backed'
  BY <1>1, <1>2 DEF IInv, Backed, Back, None
<1>9. UnderCritic' = UnderCritic /\ Passed' = Passed
  <2>1. \A k \in 1..Len(evaluations) : evaluations[k].attempt \in 1..Len(provider)
    BY DEF IInv, Backed
  <2>2. evaluations # <<>> => Len(evaluations) \in 1..Len(evaluations)
    BY DEF IInv, Backed
  <2>3. evaluations # <<>> => \A j \in (Last.attempt + 1)..Len(provider) : j \in 1..Len(provider)
    BY <2>1, <2>2 DEF Last
  <2> QED
    BY <1>2, <1>3, <2>3 DEF UnderCritic, Passed, Last
<1>10. RecordsKnown'
  BY <1>0, <1>9 DEF IInv, RecordsKnown, Goes
<1>11. ClimbKnown' /\ CascadeClimbs'
  BY DEF IInv, ClimbKnown, CascadeClimbs, Goes, Above, Last
<1>12. FirstWritten'
  <2>1. \A k \in 1..Len(evaluations) : evaluations[k].attempt \in Nat
    BY DEF IInv, Backed
  <2>2. FirstWritten
    BY DEF IInv
  <2>3. ASSUME NEW i \in 1..Len(provider), NEW k \in 1..Len(evaluations), Precedes(k, i)
        PROVE  Precedes(k, i)'
    <3>1. \A j \in (evaluations[k].attempt + 1)..i : j \in 1..Len(provider)
      BY <2>1
    <3> QED
      BY <1>3, <2>3, <3>1 DEF Precedes
  <2>4. ASSUME NEW i \in 1..Len(provider)
        PROVE  /\ provider'[i].node \in {"generator", "critic", "tool"} => Planned'
               /\ provider'[i].node = "critic" =>
                    \E k \in 1..Len(evaluations') : Precedes(k, i)'
    <3>1. provider[i].node = "critic" => \E k \in 1..Len(evaluations) : Precedes(k, i)
      BY <2>2 DEF FirstWritten, Precedes
    <3>2. provider[i].node \in {"generator", "critic", "tool"} => Planned
      BY <2>2 DEF FirstWritten
    <3> QED
      BY <1>0, <1>3, <2>3, <3>1, <3>2
  <2> QED
    BY <1>2, <2>4 DEF FirstWritten, Precedes
<1> QED
  BY <1>5, <1>6, <1>7, <1>8, <1>10, <1>11, <1>12 DEF IInv

\* What comes back is noted with the call it belongs to.
LEMMA BringsBack ==
    ASSUME IInv, run.place \in {"dispatch", "waiting"}, NEW tag \in AllTags \ {None},
           NEW usage \in Costs \cup {Unknown}, BringBack(tag, usage),
           run.place = "dispatch" => tag # "answer",
           UNCHANGED ledger, UNCHANGED <<evaluations, spec>>
    PROVE  IInv'
<1> DEFINE y == [Back EXCEPT !.tag = tag, !.usage = usage]
<1>1. Current \in 1..Len(provider) /\ provider \in Seq(ProviderCall)
  BY DEF IInv, CallKnown, Linked, Current, Made
<1>2. Back \in ProviderCall /\ (run.place = "waiting" => Back.sent)
  BY <1>1 DEF Back, IInv, CallKnown
<1>3. /\ y \in ProviderCall /\ y.node = Back.node /\ y.tag = tag /\ y.sent = Back.sent
  BY <1>2 DEF ProviderCall
<1>4. provider' = [provider EXCEPT ![Current] = y]
  BY <1>1, <1>2 DEF BringBack, Back, ProviderCall
<1>5. Goes("settle") /\ run'.result = run.result
  BY GoGoes DEF BringBack, IInv
<1> HIDE DEF y
<1>6. "settle" \in {"waiting", "settle"} /\ y.tag # None /\ (y.tag = "answer" => y.sent)
  BY <1>2, <1>3
<1> QED
  BY <1>3, <1>4, <1>5, <1>6, UnderWay

\* The call is sent, or the run finds it must not be.
LEMMA DispatchStep == ASSUME IInv, Dispatch PROVE IInv'
<1>0. run.place = "dispatch" /\ UNCHANGED ledger /\ UNCHANGED <<evaluations, spec>>
  BY DEF Dispatch, world
<1>1. CASE \E tag \in {"cancelled", "deadline"} : Unsent(tag)
  BY <1>0, <1>1, BringsBack DEF Unsent, AllTags, None
<1>2. CASE provider' = [provider EXCEPT ![Current].sent = TRUE] /\ Go("waiting")
  <2> DEFINE y == [Back EXCEPT !.sent = TRUE]
  <2>1. Current \in 1..Len(provider) /\ provider \in Seq(ProviderCall) /\ Back.tag = None
    BY <1>0 DEF IInv, CallKnown, Linked, Current, Made
  <2>2. Back \in ProviderCall
    BY <2>1 DEF Back
  <2>3. y \in ProviderCall /\ y.node = Back.node /\ y.tag = None /\ y.sent
    BY <2>1, <2>2 DEF ProviderCall
  <2>4. provider' = [provider EXCEPT ![Current] = y]
    BY <1>2, <2>1, <2>2 DEF Back, ProviderCall
  <2>5. Goes("waiting") /\ run'.result = run.result
    BY <1>2, GoGoes DEF IInv
  <2> HIDE DEF y
  <2> QED
    BY <1>0, <2>3, <2>4, <2>5, UnderWay
<1> QED
  BY <1>1, <1>2 DEF Dispatch

\* The call ends with an answer, an error or an interruption.
LEMMA ReturnStep == ASSUME IInv, ProviderAnswers \/ Interrupt PROVE IInv'
<1>0. run.place = "waiting" /\ UNCHANGED ledger /\ UNCHANGED <<evaluations, spec>>
  BY DEF ProviderAnswers, Interrupt, world
<1>1. PICK tag \in AllTags \ {None}, usage \in Costs \cup {Unknown} : BringBack(tag, usage)
  BY DEF ProviderAnswers, Interrupt, Tags, AllTags, Reports, None
<1> QED
  BY <1>0, <1>1, BringsBack

-----------------------------------------------------------------------------
\* A settlement leaves the run's tables as they are but for its attempt.
LEMMA SettledTables ==
    ASSUME IInv, run.place = "settle", L!Settle(Task, Current, Charge)
    PROVE  /\ Tables' /\ UNCHANGED <<status, plan>> /\ Len(Calls') = Len(Calls)
           /\ reply' # None
<1>1. Current \in 1..Len(Calls) /\ provider \in Seq(ProviderCall) /\ Current \in 1..Len(provider)
  BY DEF IInv, CallKnown, Linked, Current, Made
<1>2. Back.usage \in Costs \cup {Unknown}
  <2>1. Back \in ProviderCall
    BY <1>1 DEF Back
  <2> QED
    BY <2>1 DEF ProviderCall
<1>3. Charge \in Costs \cup {0, Unknown}
  BY <1>2 DEF Charge
<1>4. Tables
  BY DEF IInv, Linked, Tables
<1> QED
  BY <1>1, <1>3, <1>4, SettleTables DEF L!Settle, L!Evidence

\* A tool call or another try after a model call: the next call is of a node
\* that may follow this one.
LEMMA CallsAgain ==
    ASSUME IInv, run.place = "settle", NEW q \in {"reserve", "route"}, NEW n,
           \/ q = "reserve" /\ n = "tool" /\ run.node \in {"generator", "critic", "tool"}
           \/ q = "route" /\ n = run.node /\ run.node \in {"generator", "critic"},
           run'.place = q, run'.node = n, run'.model = run.model, run'.floor = run.floor,
           run'.round = run.round, run'.result = run.result,
           DOMAIN run' = Fields /\ run' = [f \in Fields |-> run'[f]],
           UNCHANGED <<provider, evaluations, spec, status, plan>>,
           Tables', Len(Calls') = Len(Calls)
    PROVE  IInv'
<1> USE DEF Early, Before, Fixed, Judging, Inside, Calling, Made, Ending
<1>1. Still
  BY DEF Still, IInv, LocalsKnown, Nodes
<1>2. LocalsKnown'
  BY DEF IInv, LocalsKnown, Nodes, None
<1>3. CallKnown' /\ PlanKnown'
  BY DEF IInv, CallKnown, PlanKnown
<1>4. RecordsKnown'
  BY Frame DEF IInv, RecordsKnown, LocalsKnown
<1>5. ClimbKnown'
  <2>1. Above' = Above
    BY DEF Above, Last
  <2>2. spec.strategy = "cascade" => run.node # "critic"
    BY DEF IInv, LocalsKnown
  <2> QED
    BY <2>1, <2>2 DEF IInv, ClimbKnown
<1>6. status'[Task] = "running"
  BY DEF IInv, Linked
<1> QED
  BY <1>1, <1>2, <1>3, <1>4, <1>5, <1>6, Arrives

\* An answer is evaluated, or read as the critic's verdict.
LEMMA Answered ==
    ASSUME IInv, run.place = "settle", Back.tag = "answer",
           NEW q \in {"evaluate", "judge"}, Goes(q), run'.result = run.result,
           run.node = IF q = "judge" THEN "critic" ELSE "generator",
           UNCHANGED <<provider, evaluations, spec, status, plan>>,
           Tables', Len(Calls') = Len(Calls)
    PROVE  IInv'
<1> USE DEF Early, Before, Fixed, Judging, Inside, Calling, Made, Ending
<1>1. Still
  BY GoesStill DEF IInv
<1>2. LocalsKnown'
  BY DEF IInv, LocalsKnown, Goes
<1>3. CallKnown' /\ PlanKnown'
  BY Frame DEF IInv, CallKnown, PlanKnown, Goes
<1>4. RecordsKnown'
  BY Frame DEF IInv, RecordsKnown, LocalsKnown, Goes
<1>5. ClimbKnown'
  <2>1. Above' = Above
    BY DEF Above, Last, Goes
  <2> QED
    BY <2>1 DEF IInv, ClimbKnown, Goes
<1>6. status'[Task] = "running" /\ run'.place = q
  BY DEF IInv, Linked, Goes
<1> QED
  BY <1>1, <1>2, <1>3, <1>4, <1>5, <1>6, Arrives

\* A settled call leads on: to its fallback, to the next call or to the end.
LEMMA SettleStep == ASSUME IInv, SettleCall PROVE IInv'
<1>0. run.place = "settle" /\ LocalsKnown /\ UNCHANGED <<provider, evaluations, spec>>
  BY DEF SettleCall, IInv, world
<1>1. Tables' /\ UNCHANGED <<status, plan>> /\ Len(Calls') = Len(Calls) /\ reply' # None
  BY <1>0, SettledTables DEF SettleCall
<1>2. status[Task] = "running" /\ run.result = None /\ ErrorKind(Back.tag) # None
  BY <1>0, RunningAt DEF LocalsKnown, Ending, ErrorKind, IInv, CallKnown, None
<1>3. CASE \E kind : kind # None /\ Fail(kind)
  BY <1>0, <1>1, <1>3, Fails
<1>4. CASE run.node = "planner" /\ AfterPlanner
  <2>1. Go("validate") \/ \E kind : kind # None /\ PlanningFails(kind)
    BY <1>0, <1>4 DEF AfterPlanner, IInv, CallKnown, None
  <2>2. /\ Goes("validate") \/ (Goes("planFailed") /\ run'.planError # None)
        /\ run'.result = run.result
    <3>1. CASE Go("validate")
      BY <1>0, <3>1, GoGoes
    <3>2. ASSUME NEW kind, kind # None, PlanningFails(kind)
          PROVE  Goes("planFailed") /\ run'.planError # None /\ run'.result = run.result
      BY <1>0, <3>2, PlanningFailsGoes
    <3> QED
      BY <2>1, <3>1, <3>2
  <2> QED
    <3>1. ~Planned'
      BY <1>0, <1>1, <1>4 DEF IInv, PlanKnown, Calling
    <3> QED
      BY <1>0, <1>1, <1>2, <1>4, <2>2, <3>1, Prepares DEF Early, Before, Fixed
<1>5. CASE run.node = "decision" /\ Go("plan")
  BY <1>0, <1>1, <1>2, <1>5, GoGoes, Prepares DEF Early, Before, Fixed
<1>6. CASE run.node = "tool" /\ run' = [run EXCEPT !.place = "reserve", !.batch = @ - 1]
  <2>1. /\ run'.place = "reserve" /\ run'.node = "tool" /\ run'.model = run.model
        /\ run'.floor = run.floor /\ run'.round = run.round /\ run'.result = run.result
        /\ DOMAIN run' = Fields /\ run' = [f \in Fields |-> run'[f]]
    BY <1>0, <1>6 DEF LocalsKnown, Fields
  <2> QED
    BY <1>0, <1>1, <1>6, <2>1, CallsAgain
<1>7. CASE run.node = "tool" /\ run' = [BeginInvoke("generator", run.excluded) EXCEPT !.batch = 0]
  <2>1. Begins("generator") /\ run'.floor = run.floor
    BY <1>0, <1>7 DEF BeginInvoke, Begins, LocalsKnown, Fields
  <2>2. Planned
    BY <1>0, <1>7 DEF IInv, PlanKnown, Calling
  <2>3. spec.strategy = "cascade" /\ evaluations # <<>> => run.floor >= Quality[Last.model] + MinGain
    BY <1>0, <1>7 DEF IInv, ClimbKnown, Calling, Above
  <2> QED
    BY <1>0, <1>1, <1>2, <2>1, <2>2, <2>3, InvokesGenerator
<1>8. CASE run.node \in {"generator", "critic"} /\ AfterModel
  <2>1. CASE Back.tag = "answer" /\ Go(IF run.node = "critic" THEN "judge" ELSE "evaluate")
    <3>1. CASE run.node = "critic"
      BY <1>0, <1>1, <2>1, <3>1, GoGoes, Answered
    <3>2. CASE run.node = "generator"
      BY <1>0, <1>1, <2>1, <3>2, GoGoes, Answered
    <3> QED
      BY <1>8, <3>1, <3>2
  <2>2. CASE \E n \in 1..MaxBatch : run' = [run EXCEPT !.place = "reserve", !.node = "tool", !.batch = n]
    <3>1. /\ run'.place = "reserve" /\ run'.node = "tool" /\ run'.model = run.model
          /\ run'.floor = run.floor /\ run'.round = run.round /\ run'.result = run.result
          /\ DOMAIN run' = Fields /\ run' = [f \in Fields |-> run'[f]]
      BY <1>0, <2>2 DEF LocalsKnown, Fields
    <3> QED
      BY <1>0, <1>1, <1>8, <3>1, CallsAgain
  <2>3. CASE run' = [run EXCEPT !.place = "route", !.attempted = AttemptedAfter(run.model),
                                !.failures = @ + 1]
    <3>1. /\ run'.place = "route" /\ run'.node = run.node /\ run'.model = run.model
          /\ run'.floor = run.floor /\ run'.round = run.round /\ run'.result = run.result
          /\ DOMAIN run' = Fields /\ run' = [f \in Fields |-> run'[f]]
      BY <1>0, <2>3 DEF LocalsKnown, Fields
    <3> QED
      BY <1>0, <1>1, <1>8, <3>1, CallsAgain
  <2> QED
    BY <1>2, <1>3, <1>8, <2>1, <2>2, <2>3 DEF AfterModel, None
<1> QED
  BY <1>1, <1>2, <1>3, <1>4, <1>5, <1>6, <1>7, <1>8 DEF SettleCall, AfterTool, None

-----------------------------------------------------------------------------
\* A candidate is recorded with the call it came back from; in a cascade it
\* is above the one before.
LEMMA RecordStep == ASSUME IInv, Evaluate PROVE IInv'
<1> USE DEF Early, Before, Fixed, Judging, Inside, Calling, Made, Ending
<1>0. /\ run.place = "evaluate" /\ LocalsKnown /\ run.node = "generator" /\ run.model \in Models
      /\ UNCHANGED <<provider, spec>> /\ UNCHANGED ledger
  BY DEF Evaluate, IInv, LocalsKnown, world
<1>1. Tables' /\ Calls' = Calls /\ status' = status /\ plan' = plan /\ status[Task] = "running"
  BY <1>0, NoCall, RunningAt
<1>2. PICK det \in {"pass", "revise"} :
         /\ evaluations' = Record(det)
         /\ run' = IF NeedsCritic(det)
                   THEN BeginInvoke("critic", IF DifferentCritic THEN {run.model} ELSE {})
                   ELSE [run EXCEPT !.place = "checkpoint", !.verdict = det]
  BY DEF Evaluate
<1> DEFINE e == [attempt |-> Current, model |-> run.model, det |-> det, critic |-> None]
<1>3. /\ Current \in 1..Len(provider) /\ Back.sent /\ Back.tag = "answer" /\ Back.node = "generator"
      /\ Current = Len(provider) /\ Planned
  BY <1>0 DEF IInv, CallKnown, Linked, Current, PlanKnown
<1>4. e \in Evaluation
  BY <1>0, <1>3 DEF Evaluation
<1>5. /\ e.attempt = Current /\ e.model = run.model /\ e.det = det
      /\ evaluations' = Append(evaluations, e)
  BY <1>2 DEF Record
<1> HIDE DEF e
<1>6. evaluations \in Seq(Evaluation)
  BY DEF IInv, Backed
<1>7. /\ evaluations' \in Seq(Evaluation) /\ Len(evaluations') = Len(evaluations) + 1
      /\ Len(evaluations) \in Nat /\ evaluations'[Len(evaluations) + 1] = e
      /\ \A k \in 1..Len(evaluations) : evaluations'[k] = evaluations[k]
      /\ evaluations' # <<>>
  BY <1>4, <1>5, <1>6
<1>8. Last' = e
  BY <1>7 DEF Last
<1>9. \/ /\ det = "pass" /\ spec.strategy = "critic"
         /\ run'.place = "route" /\ run'.node = "critic"
      \/ /\ ~(det = "pass" /\ spec.strategy = "critic")
         /\ run'.place = "checkpoint" /\ run'.node = "generator" /\ run'.verdict = det
  BY <1>0, <1>2 DEF NeedsCritic, BeginInvoke, LocalsKnown, Fields
<1>10. /\ run'.model = run.model /\ run'.floor = run.floor /\ run'.round = run.round
       /\ run'.result = run.result
       /\ DOMAIN run' = Fields /\ run' = [f \in Fields |-> run'[f]]
  BY <1>0, <1>2 DEF NeedsCritic, BeginInvoke, LocalsKnown, Fields
<1>11. LocalsKnown'
  BY <1>0, <1>9, <1>10 DEF LocalsKnown, Nodes, None
<1>12. Linked' /\ CallKnown' /\ PlanKnown'
  BY <1>0, <1>1, <1>3, <1>9 DEF IInv, Linked, Tables, CallKnown, PlanKnown
<1>13. Backed'
  <2>1. \A k \in 1..(Len(evaluations) + 1) : k \in 1..Len(evaluations) \/ evaluations'[k] = e
    BY <1>7
  <2> QED
    BY <1>0, <1>3, <1>5, <1>7, <2>1 DEF IInv, Backed, Back
<1>15. det = "pass" => UnderCritic'
  BY <1>0, <1>3, <1>5, <1>7, <1>8 DEF UnderCritic
<1>16. det = "pass" /\ spec.strategy # "critic" => Passed'
  BY <1>0, <1>5, <1>7, <1>8 DEF Passed
<1>17. RecordsKnown'
  BY <1>0, <1>1, <1>7, <1>9, <1>10, <1>15, <1>16 DEF RecordsKnown, LocalsKnown, None
<1>18. ClimbKnown'
  BY <1>0, <1>5, <1>8, <1>9, <1>10 DEF ClimbKnown
<1>19. CascadeClimbs'
  <2> SUFFICES ASSUME spec.strategy = "cascade", NEW k \in 2..Len(evaluations')
               PROVE  Quality[evaluations'[k].model] >= Quality[evaluations'[k - 1].model] + MinGain
    BY <1>0 DEF CascadeClimbs
  <2>1. CASE k \in 2..Len(evaluations)
    BY <1>7, <2>1 DEF IInv, CascadeClimbs
  <2>2. CASE k = Len(evaluations) + 1
    <3>1. evaluations # <<>> /\ k - 1 = Len(evaluations) /\ k - 1 \in 1..Len(evaluations)
      BY <1>6, <1>7, <2>2
    <3>2. evaluations'[k] = e /\ evaluations'[k - 1] = Last
      BY <1>7, <2>2, <3>1 DEF Last
    <3>3. Quality[run.model] >= run.floor /\ run.floor >= Quality[Last.model] + MinGain
      BY <1>0, <3>1 DEF IInv, ClimbKnown, Above
    <3>4. Quality[run.model] \in Nat /\ run.floor \in Nat /\ Quality[Last.model] \in Nat /\ MinGain \in Nat
      <4>1. evaluations[k - 1] \in Evaluation
        BY <1>6, <3>1
      <4>2. Last.model \in Models
        BY <3>1, <4>1 DEF Last, Evaluation
      <4> QED
        BY <1>0, <4>2, TaskRunAssumption DEF LocalsKnown
    <3> QED
      BY <1>5, <3>2, <3>3, <3>4
  <2> QED
    BY <1>7, <2>1, <2>2
<1>20. FirstWritten'
  <2>1. FirstWritten
    BY DEF IInv
  <2>2. ASSUME NEW i \in 1..Len(provider), NEW k \in 1..Len(evaluations), Precedes(k, i)
        PROVE  Precedes(k, i)' /\ k \in 1..Len(evaluations')
    BY <1>0, <1>7, <2>2 DEF Precedes
  <2> QED
    BY <1>0, <1>1, <2>1, <2>2 DEF FirstWritten, Precedes
<1> QED
  BY <1>11, <1>12, <1>13, <1>17, <1>18, <1>19, <1>20 DEF IInv

\* The critic's verdict is added to the record of the candidate it judged.
LEMMA JudgeStep == ASSUME IInv, Judge PROVE IInv'
<1> USE DEF Early, Before, Fixed, Judging, Inside, Calling, Made, Ending
<1>0. /\ run.place = "judge" /\ LocalsKnown /\ run.node = "critic" /\ run.model \in Models
      /\ spec.strategy = "critic" /\ UnderCritic /\ Planned
      /\ UNCHANGED <<provider, spec>> /\ UNCHANGED ledger
  BY DEF Judge, IInv, LocalsKnown, RecordsKnown, PlanKnown, world
<1>1. Tables' /\ Calls' = Calls /\ status' = status /\ plan' = plan /\ status[Task] = "running"
  BY <1>0, NoCall, RunningAt
<1>2. CASE Fail("protocol") /\ UNCHANGED evaluations
  BY <1>0, <1>1, <1>2, Fails DEF None
<1>3. ASSUME NEW v \in {"pass", "revise", "stop"},
             evaluations' = [evaluations EXCEPT ![Len(evaluations)].critic = v],
             run' = [run EXCEPT !.place = "checkpoint", !.verdict = v]
      PROVE  IInv'
  <2> DEFINE n == Len(evaluations)
             e == [Last EXCEPT !.critic = v]
  <2>1. evaluations \in Seq(Evaluation) /\ n \in 1..n
    BY <1>0 DEF IInv, Backed, UnderCritic
  <2>2. Last \in Evaluation
    BY <2>1 DEF Last
  <2>3. /\ e \in Evaluation /\ e.attempt = Last.attempt /\ e.model = Last.model
        /\ e.det = Last.det /\ e.critic = v
    BY <2>2 DEF Evaluation
  <2>4. evaluations' = [evaluations EXCEPT ![n] = e]
    BY <1>3, <2>1, <2>2 DEF Last, Evaluation
  <2> HIDE DEF e
  <2>5. /\ evaluations' \in Seq(Evaluation) /\ Len(evaluations') = n
        /\ \A k \in 1..n : evaluations'[k] = IF k = n THEN e ELSE evaluations[k]
        /\ evaluations' # <<>>
    BY <2>1, <2>3, <2>4
  <2>6. \A k \in 1..n : /\ evaluations'[k].attempt = evaluations[k].attempt
                        /\ evaluations'[k].det = evaluations[k].det
    BY <2>3, <2>5 DEF Last
  <2>7. Last' = e
    BY <2>1, <2>5 DEF Last
  <2>8. /\ run'.place = "checkpoint" /\ run'.verdict = v /\ run'.node = run.node
        /\ run'.model = run.model /\ run'.floor = run.floor /\ run'.round = run.round
        /\ run'.result = run.result
        /\ DOMAIN run' = Fields /\ run' = [f \in Fields |-> run'[f]]
    BY <1>0, <1>3 DEF LocalsKnown, Fields
  <2>9. LocalsKnown'
    BY <1>0, <2>8 DEF LocalsKnown, None
  <2>10. Linked' /\ CallKnown' /\ PlanKnown'
    BY <1>0, <1>1, <2>8 DEF IInv, Linked, Tables, CallKnown, PlanKnown
  <2>11. Backed'
    BY <1>0, <2>5, <2>6 DEF IInv, Backed
  <2>12. v = "pass" => Passed'
    BY <1>0, <2>3, <2>5, <2>7 DEF UnderCritic, Passed
  <2>13. RecordsKnown'
    BY <1>0, <1>1, <2>5, <2>8, <2>12 DEF RecordsKnown, LocalsKnown, None
  <2>14. ClimbKnown' /\ CascadeClimbs'
    BY <1>0 DEF ClimbKnown, CascadeClimbs
  <2>15. FirstWritten'
    <3>1. FirstWritten
      BY DEF IInv
    <3>2. ASSUME NEW i \in 1..Len(provider), NEW k \in 1..Len(evaluations), Precedes(k, i)
          PROVE  Precedes(k, i)' /\ k \in 1..Len(evaluations')
      BY <1>0, <2>5, <2>6, <3>2 DEF Precedes
    <3> QED
      BY <1>0, <1>1, <3>1, <3>2 DEF FirstWritten, Precedes
  <2> QED
    BY <2>9, <2>10, <2>11, <2>13, <2>14, <2>15 DEF IInv
<1> QED
  BY <1>2, <1>3 DEF Judge

-----------------------------------------------------------------------------
\* The end of a round.
LEMMA CheckpointStep == ASSUME IInv, CheckpointRound PROVE IInv'
<1> USE DEF Early, Before, Fixed, Judging, Inside, Calling, Made, Ending
<1>0. /\ run.place = "checkpoint" /\ LocalsKnown
      /\ UNCHANGED <<provider, evaluations, spec>>
  BY DEF CheckpointRound, IInv, world
<1>1. status[Task] = "running" /\ Tables
  BY <1>0, RunningAt
<1>2. Tables' /\ Len(Calls') = Len(Calls) /\ UNCHANGED <<plan, status>>
  BY <1>1, CheckpointTables DEF CheckpointRound
<1>3. Goes("evaluated") /\ run'.result = run.result
  BY <1>0, GoGoes DEF CheckpointRound
<1>4. Still
  BY <1>0, <1>2, <1>3, GoesStill
<1>5. LocalsKnown'
  BY <1>0, <1>3 DEF LocalsKnown, Goes
<1>6. CallKnown' /\ PlanKnown'
  BY <1>0, <1>2, <1>3 DEF IInv, CallKnown, PlanKnown, Goes
<1>7. RecordsKnown'
  BY <1>0, <1>2, <1>3, Frame DEF IInv, RecordsKnown, Goes
<1>8. ClimbKnown'
  BY <1>0, <1>3 DEF IInv, ClimbKnown, Goes, Last
<1>9. run'.place = "evaluated"
  BY <1>3 DEF Goes
<1> QED
  BY <1>1, <1>2, <1>4, <1>5, <1>6, <1>7, <1>8, <1>9, Arrives

\* A run that concludes with a candidate has one that passed.
LEMMA Concludes ==
    ASSUME IInv, run.place \in Inside, NEW result \in {"completed", "human_required"},
           Conclude(result), result = "completed" => Passed,
           UNCHANGED <<provider, evaluations, spec, status>>,
           Tables', Len(Calls') = Len(Calls), plan' = plan
    PROVE  IInv'
<1>1. Goes("result") /\ run'.result = result
  BY ConcludeGoes DEF IInv
<1>2. Still
  BY <1>1, GoesStill DEF IInv
<1>3. status[Task] = "running"
  BY DEF IInv, Linked, Inside, Judging
<1>4. run'.place = "result"
  BY <1>1 DEF Goes
<1> QED
  BY <1>1, <1>2, <1>3, <1>4, ToEnding DEF Ending, None

\* The end of a round: the result, or the next round with a new floor.
LEMMA DecideStep == ASSUME IInv, Decide PROVE IInv'
<1>0. /\ run.place = "evaluated" /\ LocalsKnown
      /\ UNCHANGED <<provider, evaluations, spec>> /\ UNCHANGED ledger
  BY DEF Decide, IInv, world
<1>1. Tables' /\ Calls' = Calls /\ status' = status /\ plan' = plan /\ status[Task] = "running"
  BY <1>0, NoCall, RunningAt
<1>2. run.place \in Inside
  BY <1>0 DEF Inside, Judging
<1>3. CASE run.verdict = "pass" /\ Conclude("completed")
  <2>1. Passed
    BY <1>0, <1>3 DEF IInv, RecordsKnown, Judging
  <2> QED
    BY <1>0, <1>1, <1>2, <1>3, <2>1, Concludes
<1>4. CASE Conclude("human_required")
  BY <1>0, <1>1, <1>2, <1>4, Concludes
<1>5. ASSUME NEW excluded, NEW floor \in Nat, NextRound(excluded, floor), run.round # MaxRounds,
             spec.strategy = "cascade" => floor = NextFloor
      PROVE  IInv'
  <2>1. run.round + 1 \in 1..MaxRounds
    BY <1>0, <1>5, TaskRunAssumption DEF LocalsKnown
  <2>2. Begins("generator") /\ run'.floor = floor
    BY <1>0, <1>5, <2>1 DEF NextRound, BeginInvoke, Begins, LocalsKnown, Fields
  <2>3. Planned /\ run.result = None
    BY <1>0, <1>2 DEF IInv, PlanKnown, LocalsKnown, Ending
  <2>4. spec.strategy = "cascade" => Last.model = run.model
    BY <1>0 DEF IInv, ClimbKnown, Judging
  <2>5. spec.strategy = "cascade" => run'.floor >= Quality[Last.model] + MinGain
    <3>1. Quality[run.model] \in Nat /\ MinGain \in Nat
      BY <1>0, TaskRunAssumption DEF LocalsKnown, Judging
    <3> QED
      BY <1>5, <2>2, <2>4, <3>1 DEF NextFloor
  <2> QED
    BY <1>0, <1>1, <2>2, <2>3, <2>5, InvokesGenerator
<1>6. NextFloor \in Nat /\ MinQuality \in Nat
  BY <1>0, TaskRunAssumption DEF LocalsKnown, Judging, NextFloor
<1>7. CASE run.round # MaxRounds /\ spec.strategy = "cascade"
           /\ NextRound(run.excluded \cup {run.model}, NextFloor)
  BY <1>5, <1>6, <1>7
<1>8. CASE run.round # MaxRounds /\ spec.strategy # "cascade" /\ NextRound({}, MinQuality)
  BY <1>5, <1>6, <1>8
<1> QED
  BY <1>3, <1>4, <1>7, <1>8 DEF Decide

\* A cascade with no better model left ends with the host.
LEMMA StopUpgradeStep == ASSUME IInv, StopUpgrade PROVE IInv'
<1>0. run.place = "upgradeStop" /\ UNCHANGED <<provider, evaluations, spec>>
  BY DEF StopUpgrade, world
<1>1. Tables
  BY <1>0, RunningAt
<1>2. Tables' /\ Len(Calls') = Len(Calls) /\ UNCHANGED <<plan, status>>
  BY <1>1, CheckpointTables DEF StopUpgrade
<1> QED
  BY <1>0, <1>2, Concludes DEF StopUpgrade, Inside

\* The result is read before the final write.
LEMMA ReadResultStep == ASSUME IInv, ReadResult PROVE IInv'
<1>0. run.place = "result" /\ UNCHANGED <<provider, evaluations, spec>> /\ UNCHANGED ledger
  BY DEF ReadResult, world
<1>1. Tables' /\ Calls' = Calls /\ status' = status /\ plan' = plan
  BY <1>0, NoCall
<1>2. Goes("finish") /\ run'.result = run.result
  BY GoGoes DEF ReadResult, IInv
<1>3. Still /\ run'.place = "finish" /\ status[Task] = "running"
  BY <1>0, <1>1, <1>2, GoesStill, RunningAt DEF Goes, IInv
<1>4. /\ run.result = "completed" => Passed
      /\ run.result \in {"completed", "human_required"}
  BY <1>0 DEF IInv, RecordsKnown, LocalsKnown
<1> QED
  BY <1>1, <1>2, <1>3, <1>4, ToEnding DEF Ending, None

\* The final status is completed only where the result is.
LEMMA FinishStep == ASSUME IInv, Finish PROVE IInv'
<1>0. /\ run.place = "finish" /\ LocalsKnown /\ UNCHANGED <<provider, evaluations, spec>>
      /\ run.result = "completed" => Passed
  BY DEF Finish, world, IInv, RecordsKnown
<1>1. Tables /\ status[Task] = "running"
  BY <1>0, RunningAt
<1>2. Goes("returned") /\ run'.result = run.result
  BY <1>0, GoGoes DEF Finish
<1>3. run'.place = "returned"
  BY <1>2 DEF Goes
<1>4. FinalStatus = "completed" => run.result = "completed"
  BY DEF FinalStatus
<1>5. L!Finish(Task, FinalStatus)
  BY DEF Finish
<1>6. status' = [status EXCEPT ![Task] = FinalStatus] /\ UNCHANGED <<plan, attempts>>
  BY <1>5 DEF L!Finish
<1>7. status'[Task] = FinalStatus
  BY <1>1, <1>6, TaskRunAssumption DEF Tables
<1>8. FinalStatus \in L!Statuses
  BY <1>0 DEF FinalStatus, L!Statuses, L!Terminal, LocalsKnown, None
<1>9. Tables' /\ Calls' = Calls
  BY <1>1, <1>6, <1>8 DEF Tables, Calls
<1>10. Still
  BY <1>0, <1>2, <1>6, <1>9, GoesStill
<1>11. run'.result \in {None, "completed", "human_required"}
  BY <1>0, <1>2 DEF LocalsKnown
<1> QED
  BY <1>0, <1>2, <1>3, <1>4, <1>7, <1>10, <1>11, ToEnding DEF Ending

-----------------------------------------------------------------------------
\* Faults end the run, and the host does not reach what it holds.
LEMMA FaultStep == ASSUME IInv, StoreFails \/ EventFails \/ Drop PROVE IInv'
<1>0. LocalsKnown /\ UNCHANGED <<provider, evaluations, spec>> /\ UNCHANGED ledger
  BY DEF StoreFails, EventFails, Drop, world, IInv
<1>1. run.place \notin {"create", "returned", "dropped"}
  BY DEF StoreFails, EventFails, Drop, StorePlaces, Emits, Over
<1>2. Tables' /\ Calls' = Calls /\ status' = status /\ plan' = plan /\ status[Task] = "running"
  BY <1>0, <1>1, NoCall, RunningAt
<1>3. CASE EventFails
  BY <1>0, <1>1, <1>2, <1>3, Fails DEF EventFails, None
<1>4. CASE StoreFails \/ Drop
  <2>1. \E p \in {"finish", "returned", "dropped"} :
           /\ Goes(p) /\ run'.result = run.result
           /\ p = "finish" => run'.error = "storage"
    <3>1. CASE Drop
      BY <1>0, <3>1, GoGoes DEF Drop
    <3>2. CASE StoreFails
      <4>1. run' = [run EXCEPT !.place = IF run.place = "finish" THEN "returned" ELSE "finish",
                               !.error = "storage"]
        BY <1>0, <3>2 DEF StoreFails, LocalsKnown, Fields
      <4> QED
        BY <1>0, <4>1 DEF Goes, LocalsKnown, Fields
    <3> QED
      BY <1>4, <3>1, <3>2
  <2>2. PICK p \in {"finish", "returned", "dropped"} :
           /\ Goes(p) /\ run'.result = run.result
           /\ p = "finish" => run'.error = "storage"
    BY <2>1
  <2>3. Still /\ run'.place = p
    BY <1>0, <1>2, <2>2, GoesStill DEF Goes
  <2>4. /\ run.result = "completed" => Passed
        /\ run.result \in {None, "completed", "human_required"}
    BY DEF IInv, RecordsKnown, LocalsKnown
  <2> QED
    BY <1>2, <2>2, <2>3, <2>4, ToEnding DEF Ending, None
<1> QED
  BY <1>3, <1>4

\* The host cancels, waits or reconciles: none of it moves the run.
LEMMA HostStep ==
    ASSUME IInv, HostCancels \/ DeadlinePasses \/ HostReconciles \/ UNCHANGED vars
    PROVE  IInv'
<1>0. UNCHANGED <<run, provider, evaluations, spec>>
  BY DEF HostCancels, DeadlinePasses, HostReconciles, vars, world
<1>1. Tables
  BY DEF IInv, Linked, Tables
<1>2. CASE UNCHANGED ledger
  BY <1>0, <1>2, NoCall, Idle
<1>3. CASE HostReconciles
  <2>1. PICK i \in 1..Len(Calls), c \in Costs : L!Reconcile(Task, i, c, TRUE)
    BY <1>3 DEF HostReconciles
  <2>2. L!SettleAttempt(Task, i, c, "reconciliation")
    BY <2>1 DEF L!Reconcile
  <2>3. Tables' /\ UNCHANGED <<status, plan>> /\ Len(Calls') = Len(Calls)
    BY <1>1, <2>2, SettleTables DEF L!Evidence
  <2> QED
    BY <1>0, <2>3, Idle
<1> QED
  BY <1>2, <1>3 DEF HostCancels, DeadlinePasses, vars

-----------------------------------------------------------------------------
\* The invariant is inductive.
THEOREM Inductive == Spec => []IInv
<1>1. ASSUME Init
      PROVE  IInv
  <2> USE <1>1 DEF Init
  <2>1. LocalsKnown
    <3>1. MinQuality \in Nat /\ 1 \in 1..MaxRounds
      BY TaskRunAssumption
    <3>2. DOMAIN run = Fields /\ run = [f \in Fields |-> run[f]]
      BY DEF Fields
    <3> QED
      BY <3>1, <3>2 DEF LocalsKnown, Early, Before, Fixed, Judging, Inside, Calling, Ending, None
  <2>2. Linked
    BY TaskRunAssumption DEF Linked, L!Init, L!Statuses, Calls
  <2>3. CallKnown /\ PlanKnown
    BY TaskRunAssumption
       DEF CallKnown, PlanKnown, Early, Fixed, Judging, Inside, Calling, Made, L!Init
  <2>4. Backed /\ FirstWritten /\ CascadeClimbs
    BY DEF Backed, FirstWritten, CascadeClimbs
  <2>5. RecordsKnown /\ ClimbKnown
    BY TaskRunAssumption DEF RecordsKnown, ClimbKnown, Calling, Judging, L!Init, None
  <2> QED
    BY <2>1, <2>2, <2>3, <2>4, <2>5 DEF IInv
<1>2. ASSUME IInv, [Next]_vars
      PROVE  IInv'
  <2>1. CASE Prepare
    <3>1. CASE CheckResources
      BY <1>2, <3>1, CheckResourcesStep, DecisionStep
    <3> QED
      BY <1>2, <2>1, <3>1, SavingStep, RoutePlannerStep, BeginExecutionStep DEF Prepare
  <2>2. CASE Call
    BY <1>2, <2>2, RouteStep, ReserveStep, DispatchStep, SettleStep DEF Call
  <2>3. CASE Rounds
    BY <1>2, <2>3, RecordStep, JudgeStep, CheckpointStep, DecideStep, StopUpgradeStep,
       ReadResultStep, FinishStep DEF Rounds
  <2>4. CASE Admit
    BY <1>2, <2>4, AdmitStep
  <2>5. CASE ProviderAnswers \/ Interrupt
    BY <1>2, <2>5, ReturnStep
  <2>6. CASE StoreFails \/ EventFails \/ Drop
    BY <1>2, <2>6, FaultStep
  <2>7. CASE HostCancels \/ DeadlinePasses \/ HostReconciles \/ UNCHANGED vars
    BY <1>2, <2>7, HostStep
  <2> QED
    BY <1>2, <2>1, <2>2, <2>3, <2>4, <2>5, <2>6, <2>7 DEF Next, Engine, Host
<1> QED
  BY <1>1, <1>2, PTL DEF Spec

\* An effective plan is durable before any call that executes it, on the
\* path through a failed planning and the host's fallback too.
THEOREM PlanIsFirst == Spec => []PlannedFirst
<1>1. IInv => PlannedFirst
  BY DEF IInv, FirstWritten, PlannedFirst
<1> QED
  BY <1>1, Inductive, PTL

\* A candidate is durable before its critic is asked about it, over rounds,
\* fallbacks and interrupted critics.
THEOREM RecordIsFirst == Spec => []RecordedFirst
<1>1. IInv => RecordedFirst
  BY DEF IInv, FirstWritten, RecordedFirst
<1> QED
  BY <1>1, Inductive, PTL

\* A completed task has a saved candidate that passed every check.
THEOREM CompletionEarned == Spec => []CompletedIsEarned
<1>1. ASSUME IInv
      PROVE  CompletedIsEarned
  <2> SUFFICES ASSUME status[Task] = "completed"
               PROVE  Passed /\ LET call == provider[Last.attempt]
                                IN  call.sent /\ call.node = "generator" /\ call.tag = "answer"
    BY DEF CompletedIsEarned, Passed, Last
  <2>1. Passed
    BY <1>1 DEF IInv, RecordsKnown
  <2>2. Len(evaluations) \in 1..Len(evaluations)
    BY <1>1, <2>1 DEF IInv, Backed, Passed
  <2> QED
    BY <1>1, <2>1, <2>2 DEF IInv, Backed, Last
<1> QED
  BY <1>1, Inductive, PTL

\* Each candidate of a cascade is better than the one before by the gain the
\* host asked for, over rounds, fallbacks and tool loops.
THEOREM CascadeIsClimbing == Spec => []CascadeClimbs
<1>1. IInv => CascadeClimbs
  BY DEF IInv
<1> QED
  BY <1>1, Inductive, PTL

-----------------------------------------------------------------------------
\* A run uses the store as the module Ledger says it is used: its calls
\* have the values the store's callers may pass.
LEMMA CallsOfTheStore ==
    ASSUME IInv, Next
    PROVE  L!Next \/ UNCHANGED L!vars
<1>0. Task \in Tasks
  BY TaskRunAssumption
<1>1. UNCHANGED ledger => UNCHANGED L!vars
  BY DEF ledger, L!vars, L!row, L!columns
<1>2. CASE Admit
  <2>1. spec.budget \in Budgets
    BY TaskRunAssumption DEF IInv, LocalsKnown
  <2> QED
    BY <1>0, <1>2, <2>1 DEF Admit, L!Next
<1>3. CASE BeginPlanning \/ SaveFailedPlan \/ FixPlan \/ BeginExecution \/ CheckpointRound \/ StopUpgrade
  <2>1. \E p \in Phases : L!SavePlan(Task, p) \/ L!Checkpoint(Task, p)
    BY <1>3, TaskRunAssumption
       DEF BeginPlanning, SaveFailedPlan, FixPlan, BeginExecution, CheckpointRound, StopUpgrade
  <2> QED
    BY <1>0, <2>1 DEF L!Next
<1>4. CASE Finish
  <2>1. FinalStatus \in L!Terminal
    BY <1>4 DEF Finish, FinalStatus, L!Terminal, IInv, LocalsKnown, None
  <2> QED
    BY <1>0, <1>4, <2>1 DEF Finish, L!Next
<1>5. CASE ReserveCall
  <2>1. run.node # "decision" => run.model \in Models
    BY <1>5 DEF ReserveCall, IInv, LocalsKnown, Calling
  <2>2. Amount \in Amounts
    BY <2>1, TaskRunAssumption DEF Amount
  <2> QED
    BY <1>0, <1>5, <2>2 DEF ReserveCall, L!Next
<1>6. CASE SettleCall
  <2>1. /\ Current \in 1..Len(attempts[Task]) /\ provider \in Seq(ProviderCall)
        /\ Current \in 1..Len(provider)
    BY <1>6 DEF SettleCall, IInv, CallKnown, Linked, Current, Made, Calls
  <2>2. Back \in ProviderCall
    BY <2>1 DEF Back
  <2>3. Charge \in (Costs \cup {0}) \cup {L!Unknown}
    BY <2>2 DEF Charge, ProviderCall, Unknown, L!Unknown
  <2> QED
    BY <1>0, <1>6, <2>1, <2>3 DEF SettleCall, L!Next
<1>7. CASE HostReconciles
  BY <1>0, <1>7 DEF HostReconciles, L!Next, Calls
<1>8. CASE UNCHANGED ledger
  BY <1>1, <1>8
<1> QED
  BY <1>2, <1>3, <1>4, <1>5, <1>6, <1>7, <1>8
     DEF Next, Engine, Prepare, Call, Rounds, Host, CheckResources, RoutePlanner, FallBack,
         ValidatePlan, Route, Dispatch, Interrupt, ProviderAnswers, Evaluate, Judge, Decide, ReadResult,
         StoreFails, EventFails, HostCancels, DeadlinePasses, Drop

\* Whatever models, tools, decision models and the host do, the run of a task
\* is a behaviour of the ledger: what is proved of the ledger for arbitrary
\* callers holds of it.
THEOREM RunIsALedger == Spec => L!Spec
<1>1. Init => L!Init
  BY DEF Init
<1>2. IInv /\ [Next]_vars => [L!Next]_L!vars
  BY CallsOfTheStore DEF vars, ledger, L!vars, L!row, L!columns
<1> QED
  BY <1>1, <1>2, Inductive, PTL DEF Spec, L!Spec

-----------------------------------------------------------------------------
\* The books of a run are those of the ledger, and what is proved of them
\* for arbitrary callers holds of them.
Book == INSTANCE LedgerProofs WITH Costs <- Costs \cup {0}

Costed == \A i \in 1..Len(Calls) : Calls[i].state = "settled" <=> Calls[i].cost # Unknown

\* The two instances of the ledger are one ledger.
LEMMA SameBook ==
    /\ L!Next <=> Book!Next
    /\ L!Init <=> Book!Init
    /\ L!vars = Book!vars
<1>1. L!Next <=> Book!Next
  BY DEF L!Next, Book!Next, L!CreateSubmission, Book!CreateSubmission, L!SavePlan, Book!SavePlan,
         L!Checkpoint, Book!Checkpoint, L!Finish, Book!Finish, L!Reserve, Book!Reserve,
         L!Settle, Book!Settle, L!Reconcile, Book!Reconcile, L!SettleAttempt, Book!SettleAttempt,
         L!Return, Book!Return, L!row, Book!row, L!columns, Book!columns,
         L!Available, Book!Available, L!Excess, Book!Excess, L!HasRoom, Book!HasRoom,
         L!Accepts, Book!Accepts, L!AlreadySettled, Book!AlreadySettled, L!Repeated, Book!Repeated,
         L!Release, Book!Release, L!Overrun, Book!Overrun, L!Resolve, Book!Resolve,
         L!Unknown, Book!Unknown, L!Terminal, Book!Terminal
<1>2. L!Init <=> Book!Init
  BY DEF L!Init, Book!Init
<1>3. L!vars = Book!vars
  BY DEF L!vars, Book!vars, L!row, Book!row, L!columns, Book!columns
<1> QED
  BY <1>1, <1>2, <1>3

\* What one says of the tables the other says.
LEMMA SameTables ==
    /\ Book!TypeOK => L!TypeOK
    /\ Book!CostsKnown => Costed
    /\ Book!ColumnsMatch => L!ColumnsMatch
    /\ Book!CallLimit => L!CallLimit
    /\ Book!WithinBudget => L!WithinBudget
<1>1. Book!TypeOK => L!TypeOK
  BY DEF L!TypeOK, Book!TypeOK, L!Statuses, Book!Statuses, L!Terminal, Book!Terminal,
         L!Attempt, Book!Attempt, L!Evidence, Book!Evidence, L!Unknown, Book!Unknown,
         L!Replies, Book!Replies
<1>2. Book!CostsKnown => Costed
  BY TaskRunAssumption DEF Costed, Book!CostsKnown, Book!Unknown, Unknown, Calls
<1>3. Book!ColumnsMatch => L!ColumnsMatch
  BY DEF L!ColumnsMatch, Book!ColumnsMatch, L!TotalHeld, Book!TotalHeld, L!TotalPaid,
         Book!TotalPaid, L!Held, Book!Held, L!Paid, Book!Paid, L!Total, Book!Total
<1>4. Book!CallLimit => L!CallLimit
  BY DEF L!CallLimit, Book!CallLimit
<1>5. Book!WithinBudget => L!WithinBudget
  BY DEF L!WithinBudget, Book!WithinBudget, L!TotalExcess, Book!TotalExcess, L!Above, Book!Above,
         L!Excess, Book!Excess, L!Total, Book!Total
<1> QED
  BY <1>1, <1>2, <1>3, <1>4, <1>5

\* A run is a behaviour of the proved ledger.
LEMMA RunIsABook == Spec => Book!Spec
<1>1. Init => Book!Init
  BY SameBook DEF Init
<1>2. IInv /\ [Next]_vars => [Book!Next]_Book!vars
  <2> SUFFICES ASSUME IInv, [Next]_vars
               PROVE  [Book!Next]_Book!vars
    OBVIOUS
  <2>1. L!Next \/ UNCHANGED L!vars
    BY CallsOfTheStore DEF vars, ledger, L!vars, L!row, L!columns
  <2>2. UNCHANGED L!vars => UNCHANGED Book!vars
    BY DEF L!vars, L!row, L!columns, Book!vars, Book!row, Book!columns
  <2> QED
    BY <2>1, <2>2, SameBook
<1> QED
  BY <1>1, <1>2, Inductive, PTL DEF Spec, Book!Spec

\* The books of a run balance, whatever models, tools, the decision model
\* and the host do: the columns are the sums of the calls, the calls stay
\* within their limit and what is spent and held within the budget, but for
\* what providers charged above their reservations.
THEOREM RunKeepsItsBooks ==
    Spec => [](L!TypeOK /\ L!ColumnsMatch /\ L!CallLimit /\ L!WithinBudget)
<1>1. Book!LedgerAssumption
  BY TaskRunAssumption DEF Book!LedgerAssumption
<1>2. Book!Spec => []Book!TypeOK
  BY <1>1, Book!TypeCorrect
<1>3. Book!Spec => []Book!ColumnsMatch
  BY <1>1, Book!ColumnsAreTotals
<1>4. Book!Spec => []Book!CallLimit
  BY <1>1, Book!CallsLimited
<1>5. Book!Spec => []Book!WithinBudget
  BY <1>1, Book!BudgetBounded
<1> QED
  BY <1>2, <1>3, <1>4, <1>5, SameTables, RunIsABook, PTL

\* What the ledger promises of steps holds of a run's: it is an account as a
\* host understands it, in which a settled call is never rewritten and a task
\* that left the recovery list is never billed again, with late answers,
\* repeated settlements and reconciliations at any time.
THEOREM RunIsAnAccount ==
    Spec => Book!ImplementsAccount /\ Book!EvidenceFinal /\ Book!BillIsFinal
<1>1. Book!LedgerAssumption
  BY TaskRunAssumption DEF Book!LedgerAssumption
<1>2. Book!Spec => Book!ImplementsAccount
  BY <1>1, Book!LedgerRefinesAccount
<1>3. Book!Spec => Book!EvidenceFinal
  BY <1>1, Book!EvidenceIsFinal
<1>4. Book!Spec => Book!BillIsFinal
  BY <1>1, Book!BillsAreFinal
<1> QED
  BY <1>2, <1>3, <1>4, RunIsABook, PTL

\* A call has a cost when it is settled, and only then.
LEMMA RunIsCosted == Spec => []Costed
<1>1. Book!LedgerAssumption
  BY TaskRunAssumption DEF Book!LedgerAssumption
<1>2. Book!Spec => []Book!IInv
  BY <1>1, Book!Inductive
<1>3. Book!IInv => Costed
  BY SameTables DEF Book!IInv
<1> QED
  BY <1>2, <1>3, RunIsABook, PTL

-----------------------------------------------------------------------------
\* The accounts of a run.  A call is open from its reservation until its
\* settlement is asked for; what the engine then settles it with is its bill.
Open(i) == i = Current /\ run.place \in Made

Bill(i) ==
    CASE ~provider[i].sent /\ provider[i].node # "decision"            -> 0
      [] provider[i].node = "decision" /\ provider[i].tag # "answer" -> Unknown
      [] OTHER                                                          -> provider[i].usage

\* A settled call was settled with its bill or by the host, an unresolved
\* one has no bill.  A closed call is only pending when the store could not
\* hold its bill, and a run without an error has settled it with what was
\* reported.  A store that failed and a dropped future excuse both.
Billed(i) ==
    /\ Calls[i].state = "settled" =>
          Reconciled(i) \/ (~Open(i) /\ Calls[i].cost = Bill(i) /\ Bill(i) # Unknown)
    /\ Calls[i].state = "unresolved" => ~Open(i) /\ Bill(i) = Unknown
    /\ provider[i].tag = "answer" => provider[i].sent
    /\ ~Open(i) /\ run.place # "dropped" =>
          /\ run.error # "storage" /\ Calls[i].state = "pending" => Reported(i) /\ TooLarge(i)
          /\ run.error = None /\ Reported(i) => Calls[i].cost = provider[i].usage

ErrorKnown == run.error # None => run.place \in Ending \ {"result"}

AInv == ErrorKnown /\ \A i \in 1..Len(Calls) : Billed(i)

\* What is already proved of a run, in a state and in the next.
Sound == IInv /\ L!TypeOK /\ Costed

\* A run that moves on without closing a call it has open, and without
\* forgetting that it was dropped or what failed.
Onward ==
    /\ Current' = Current
    /\ run'.place \in Made => run.place \in Made
    /\ run.place \in Made /\ run'.place \notin Made => run'.place = "dropped" \/ run'.error = "storage"

Remembers ==
    /\ run.place = "dropped" => run'.place = "dropped"
    /\ run.error = "storage" => run'.error = "storage"
    /\ run.error # None => run'.error # None

\* What the tables hold.
LEMMA Numbers ==
    ASSUME Sound
    PROVE  /\ Calls \in Seq(L!Attempt) /\ provider \in Seq(ProviderCall)
           /\ Len(provider) = Len(Calls) /\ Len(Calls) \in Nat /\ Current = Len(provider)
           /\ settled[Task] \in 0..MaxLedger /\ MaxLedger \in Nat
           /\ \A i \in 1..Len(Calls) :
                /\ provider[i] \in ProviderCall /\ Calls[i] \in L!Attempt
                /\ provider[i].usage \in Nat \cup {Unknown}
<1>1. Calls \in Seq(L!Attempt) /\ provider \in Seq(ProviderCall) /\ Len(provider) = Len(Calls)
  BY TaskRunAssumption DEF Sound, IInv, Linked, Calls
<1>2. settled[Task] \in 0..MaxLedger /\ MaxLedger \in Nat
  BY TaskRunAssumption DEF Sound, L!TypeOK
<1>3. ASSUME NEW i \in 1..Len(Calls)
      PROVE  /\ provider[i] \in ProviderCall /\ Calls[i] \in L!Attempt
             /\ provider[i].usage \in Nat \cup {Unknown}
  <2>1. provider[i] \in ProviderCall /\ Calls[i] \in L!Attempt
    BY <1>1
  <2> QED
    BY <2>1, TaskRunAssumption DEF ProviderCall
<1> QED
  BY <1>1, <1>2, <1>3 DEF Current

\* A call that a step leaves alone keeps its account: what the store could
\* not hold it cannot hold later, for the settled column only grows.
LEMMA BillKept ==
    ASSUME NEW i \in 1..Len(Calls), Billed(i), Sound, Remembers,
           Calls'[i] = Calls[i], provider'[i] = provider[i],
           settled'[Task] \in Nat, settled'[Task] >= settled[Task],
           Open(i)' => Open(i),
           Open(i) /\ ~Open(i)' => run'.place = "dropped" \/ run'.error = "storage"
    PROVE  Billed(i)'
<1>1. Bill(i)' = Bill(i) /\ Reported(i)' = Reported(i) /\ Reconciled(i)' = Reconciled(i)
  BY DEF Bill, Reported, Reconciled
<1>2. Reported(i) /\ TooLarge(i) => TooLarge(i)'
  <2>1. settled[Task] \in Nat /\ MaxLedger \in Nat /\ provider[i].usage \in Nat \cup {Unknown}
    BY Numbers
  <2>2. ASSUME NEW u \in Nat, NEW s \in Nat, NEW t \in Nat, t >= s, s + u > MaxLedger
        PROVE  t + u > MaxLedger
    BY <2>1, <2>2
  <2>3. Reported(i) => provider[i].usage \in Nat
    BY <2>1 DEF Reported
  <2> QED
    BY <2>1, <2>2, <2>3 DEF TooLarge
<1>3. Calls'[i].state = Calls[i].state /\ Calls'[i].cost = Calls[i].cost
  OBVIOUS
<1>4. (provider'[i].tag = "answer" => provider'[i].sent)
  BY DEF Billed
<1>5. Calls'[i].state = "settled" =>
          Reconciled(i)' \/ (~Open(i)' /\ Calls'[i].cost = Bill(i)' /\ Bill(i)' # Unknown)
  BY <1>1, <1>3 DEF Billed
<1>6. Calls'[i].state = "unresolved" => ~Open(i)' /\ Bill(i)' = Unknown
  BY <1>1, <1>3 DEF Billed
<1>7. ASSUME ~Open(i)', run'.place # "dropped"
      PROVE  /\ run'.error # "storage" /\ Calls'[i].state = "pending" => Reported(i)' /\ TooLarge(i)'
             /\ run'.error = None /\ Reported(i)' => Calls'[i].cost = provider'[i].usage
  <2>1. run.place # "dropped"
    BY <1>7 DEF Remembers
  <2>2. run'.error # "storage" => ~Open(i) /\ run.error # "storage"
    BY <1>7 DEF Remembers
  <2>3. run'.error = None => ~Open(i) /\ run.error = None
    BY <1>7 DEF Remembers, None
  <2> QED
    BY <1>1, <1>2, <1>3, <2>1, <2>2, <2>3 DEF Billed
<1> QED
  BY <1>4, <1>5, <1>6, <1>7 DEF Billed

\* A step that writes nothing of a call keeps every account.
LEMMA AllKept ==
    ASSUME AInv, Sound, Remembers, Onward, ErrorKnown',
           Calls' = Calls, provider' = provider, settled' = settled
    PROVE  AInv'
<1>1. ASSUME NEW i \in 1..Len(Calls)
      PROVE  Billed(i)'
  <2>1. settled'[Task] \in Nat /\ settled'[Task] >= settled[Task]
    BY Numbers
  <2> QED
    BY <2>1, BillKept DEF AInv, Onward, Open
<1> QED
  BY <1>1 DEF AInv

\* A step between calls either goes on or fails.
LEMMA Passes ==
    ASSUME AInv, Sound, run.place \notin Made \cup {"finish", "returned", "dropped"},
           run'.place \notin Made, run'.error = run.error \/ run'.place = "finish",
           Calls' = Calls, provider' = provider, settled' = settled
    PROVE  AInv'
<1>1. run.error = None
  BY DEF AInv, ErrorKnown, Ending
<1>2. Remembers /\ Onward /\ ErrorKnown'
  BY <1>1 DEF Remembers, Onward, Current, ErrorKnown, Ending, None
<1> QED
  BY <1>2, AllKept

\* A step to the next place keeps the error.
LEMMA Moved ==
    ASSUME LocalsKnown, NEW p, Go(p)
    PROVE  run'.place = p /\ run'.error = run.error
  BY DEF LocalsKnown, Go, Fields

\* What the steps of the preparation leave of the accounts.
LEMMA PrepareBills == ASSUME AInv, Sound, Prepare \/ Admit PROVE AInv'
<1> USE DEF Made
<1>0. LocalsKnown
  BY DEF Sound, IInv
<1>1. provider' = provider
  BY DEF Prepare, Admit, CheckResources, BeginPlanning, RoutePlanner, SaveFailedPlan,
         FallBack, ValidatePlan, FixPlan, BeginExecution
<1>2. Calls' = Calls /\ settled' = settled
  BY DEF Prepare, Admit, CheckResources, BeginPlanning, RoutePlanner, SaveFailedPlan,
         FallBack, ValidatePlan, FixPlan, BeginExecution, ledger, Calls, L!CreateSubmission, L!SavePlan,
         L!Checkpoint, L!Return, L!row, L!columns
<1>3. run.place \in {"create", "prepare", "fallback", "decide", "execute", "planning",
                     "routePlanner", "planFailed", "substitute", "validate", "plan", "begin"}
  BY DEF Prepare, Admit, CheckResources, BeginPlanning, RoutePlanner, SaveFailedPlan,
         FallBack, ValidatePlan, FixPlan, BeginExecution
<1>4. run'.place \notin Made /\ (run'.error = run.error \/ run'.place = "finish")
  <2>1. CASE \E p : p \notin Made /\ Go(p)
    BY <1>0, <2>1, Moved
  <2>2. CASE \E kind : Fail(kind) \/ PlanningFails(kind)
    BY <1>0, <2>2 DEF Fail, PlanningFails, LocalsKnown, Fields
  <2>3. CASE run' = [run EXCEPT !.place = "reserve", !.node = "decision"]
    BY <1>0, <2>3 DEF LocalsKnown, Fields
  <2>4. CASE \E m : run' = [run EXCEPT !.place = "reserve", !.node = "planner", !.model = m]
    BY <1>0, <2>4 DEF LocalsKnown, Fields
  <2>5. CASE run' = BeginInvoke("generator", {})
    BY <1>0, <2>5 DEF BeginInvoke, LocalsKnown, Fields
  <2> QED
    BY <2>1, <2>2, <2>3, <2>4, <2>5
       DEF Prepare, Admit, CheckResources, BeginPlanning, RoutePlanner, SaveFailedPlan,
           FallBack, ValidatePlan, FixPlan, BeginExecution
<1> QED
  BY <1>1, <1>2, <1>3, <1>4, Passes

\* What the steps around the calls of a round leave of them.
LEMMA RoundBills == ASSUME AInv, Sound, Route \/ Rounds \/ EventFails PROVE AInv'
<1> USE DEF Made
<1>0. LocalsKnown
  BY DEF Sound, IInv
<1>1. provider' = provider
  BY DEF Route, Rounds, EventFails, Evaluate, Judge, CheckpointRound, Decide, StopUpgrade,
         ReadResult, Finish
<1>2. Calls' = Calls /\ settled' = settled
  BY DEF Route, Rounds, EventFails, Evaluate, Judge, CheckpointRound, Decide, StopUpgrade,
         ReadResult, Finish, ledger, Calls, L!Checkpoint, L!Finish, L!columns
<1>3. CASE Finish
  <2>1. run.place = "finish" /\ run'.place = "returned" /\ run'.error = run.error
    BY <1>0, <1>3, Moved DEF Finish
  <2>2. Remembers /\ Onward /\ ErrorKnown'
    BY <1>1, <2>1 DEF Remembers, Onward, Current, ErrorKnown, Ending
  <2> QED
    BY <1>1, <1>2, <2>2, AllKept
<1>4. CASE ~Finish
  <2>1. run.place \notin Made \cup {"finish", "returned", "dropped"}
    BY <1>4 DEF Route, Rounds, EventFails, Emits, Evaluate, Judge, CheckpointRound, Decide,
                StopUpgrade, ReadResult
  <2>2. run'.place \notin Made /\ (run'.error = run.error \/ run'.place = "finish")
    <3>1. CASE \E p : p \notin Made /\ Go(p)
      BY <1>0, <3>1, Moved
    <3>2. CASE \E kind : Fail(kind) \/ Conclude(kind)
      BY <1>0, <3>2 DEF Fail, Conclude, LocalsKnown, Fields
    <3>3. CASE \E m : run' = [run EXCEPT !.place = "reserve", !.model = m]
      BY <1>0, <3>3 DEF LocalsKnown, Fields
    <3>4. CASE \E v : run' = [run EXCEPT !.place = "checkpoint", !.verdict = v]
      BY <1>0, <3>4 DEF LocalsKnown, Fields
    <3>5. CASE \E avoid : run' = BeginInvoke("critic", avoid)
      BY <1>0, <3>5 DEF BeginInvoke, LocalsKnown, Fields
    <3>6. CASE \E excluded, floor : NextRound(excluded, floor)
      BY <1>0, <3>6 DEF NextRound, BeginInvoke, LocalsKnown, Fields
    <3> QED
      <4>1. CASE Route
        BY <4>1, <3>1, <3>2, <3>3 DEF Route
      <4>2. CASE Evaluate
        BY <4>2, <3>4, <3>5 DEF Evaluate
      <4>3. CASE Judge
        BY <4>3, <3>2, <3>4 DEF Judge
      <4>4. CASE Decide
        BY <4>4, <3>2, <3>6 DEF Decide
      <4>5. CASE CheckpointRound \/ ReadResult
        BY <4>5, <3>1 DEF CheckpointRound, ReadResult
      <4>6. CASE StopUpgrade
        BY <4>6, <3>2 DEF StopUpgrade
      <4>7. CASE EventFails
        BY <4>7, <3>2 DEF EventFails
      <4> QED
        BY <1>4, <4>1, <4>2, <4>3, <4>4, <4>5, <4>6, <4>7 DEF Rounds
  <2> QED
    BY <1>1, <1>2, <2>1, <2>2, Passes
<1> QED
  BY <1>3, <1>4

\* A store that fails and a dropped future are excused; the host only looks on.
LEMMA FaultBills ==
    ASSUME AInv, Sound, StoreFails \/ Drop \/ HostCancels \/ DeadlinePasses \/ UNCHANGED vars
    PROVE  AInv'
<1>0. LocalsKnown
  BY DEF Sound, IInv
<1>1. provider' = provider /\ Calls' = Calls /\ settled' = settled
  BY DEF StoreFails, Drop, HostCancels, DeadlinePasses, vars, ledger, Calls
<1>2. CASE StoreFails
  <2>1. run.place # "dropped"
    BY <1>2 DEF StoreFails, StorePlaces
  <2>2. run'.place \in {"returned", "finish"} /\ run'.error = "storage"
    <3>1. run' = [run EXCEPT !.place = IF run.place = "finish" THEN "returned" ELSE "finish",
                             !.error = "storage"]
      BY <1>0, <1>2 DEF StoreFails, LocalsKnown, Fields
    <3> QED
      BY <1>0, <3>1 DEF LocalsKnown, Fields
  <2>3. Remembers /\ Onward /\ ErrorKnown'
    BY <1>1, <2>1, <2>2 DEF Remembers, Onward, Current, ErrorKnown, Ending, Made, None
  <2> QED
    BY <1>1, <2>3, AllKept
<1>3. CASE Drop
  <2>1. run'.place = "dropped" /\ run'.error = run.error
    BY <1>0, <1>3, Moved DEF Drop
  <2>2. Remembers /\ Onward /\ ErrorKnown'
    BY <1>1, <2>1 DEF Remembers, Onward, Current, ErrorKnown, Ending, Made
  <2> QED
    BY <1>1, <2>2, AllKept
<1>4. CASE run' = run
  <2>1. Remembers /\ Onward /\ ErrorKnown'
    BY <1>1, <1>4 DEF Remembers, Onward, Current, ErrorKnown, AInv
  <2> QED
    BY <1>1, <2>1, AllKept
<1> QED
  BY <1>2, <1>3, <1>4 DEF HostCancels, DeadlinePasses, vars

\* A reservation that is refused ends the run; one that is granted opens a
\* call that nobody has billed.
LEMMA ReserveBills == ASSUME AInv, Sound, Sound', ReserveCall PROVE AInv'
<1>0. run.place = "reserve" /\ LocalsKnown /\ L!Reserve(Task, Amount)
  BY DEF ReserveCall, Sound, IInv
<1>1. run.place \notin Made /\ run.error = None
  BY <1>0 DEF AInv, ErrorKnown, Ending, Made
<1>2. CASE reply' # "ok"
  <2>1. Fail(reply') /\ provider' = provider /\ Calls' = Calls /\ settled' = settled
    BY <1>0, <1>2 DEF ReserveCall, L!Reserve, L!Return, L!row, L!columns, Calls
  <2>2. run'.place = "finish"
    BY <1>0, <2>1 DEF Fail, LocalsKnown, Fields
  <2> QED
    BY <1>0, <1>1, <2>1, <2>2, Passes DEF Made
<1>3. CASE reply' = "ok"
  <2> DEFINE x == [node |-> run.node, model |-> run.model, round |-> run.round, sent |-> FALSE,
                   tag |-> None, usage |-> Unknown]
             a == [amount |-> Amount, cost |-> Unknown, state |-> "pending", outcome |-> {}]
             n == Len(Calls) + 1
  <2>0. Calls \in Seq(L!Attempt) /\ provider \in Seq(ProviderCall) /\ Len(provider) = Len(Calls)
        /\ attempts \in [Tasks -> Seq(L!Attempt)] /\ Task \in Tasks
    BY Numbers, TaskRunAssumption DEF Sound, IInv, Linked
  <2>1. /\ provider' = Append(provider, x) /\ Go("dispatch") /\ settled' = settled
        /\ Calls' = Append(Calls, a)
    BY <1>0, <1>3, <2>0 DEF ReserveCall, L!Reserve, L!Return, Calls, L!Unknown, Unknown
  <2>2. run'.place = "dispatch" /\ run'.error = None
    BY <1>0, <1>1, <2>1, Moved
  <2>3. x.tag = None /\ a.state = "pending"
    OBVIOUS
  <2> HIDE DEF x, a
  <2>4. /\ Len(Calls') = n /\ Len(provider') = n /\ Current' = n /\ Len(Calls) \in Nat
        /\ provider'[n] = x /\ Calls'[n] = a
        /\ \A i \in 1..Len(Calls) : provider'[i] = provider[i] /\ Calls'[i] = Calls[i]
    BY <2>0, <2>1 DEF Current
  <2>5. ASSUME NEW i \in 1..Len(Calls)
        PROVE  Billed(i)'
    <3>1. ~Open(i) /\ ~Open(i)'
      BY <1>1, <2>4 DEF Open
    <3>2. settled'[Task] \in Nat /\ settled'[Task] >= settled[Task]
      BY <2>1, Numbers
    <3>3. Remembers
      BY <1>0, <1>1 DEF Remembers, None
    <3> QED
      BY <2>4, <3>1, <3>2, <3>3, BillKept DEF AInv
  <2>6. ASSUME NEW i, i = n
        PROVE  Billed(i)'
    BY <2>2, <2>3, <2>4, <2>6 DEF Billed, Open, Made, None
  <2>7. \A i \in 1..Len(Calls') : i \in 1..Len(Calls) \/ i = n
    BY <2>4
  <2> QED
    BY <2>2, <2>5, <2>6, <2>7 DEF AInv, ErrorKnown
<1> QED
  BY <1>2, <1>3

\* A call that is sent or comes back stays open, and only an answer to a call
\* that was sent is an answer.
LEMMA UnderWayBills ==
    ASSUME AInv, Sound, Sound', Dispatch \/ ProviderAnswers \/ Interrupt
    PROVE  AInv'
<1>0. /\ run.place \in {"dispatch", "waiting"} /\ LocalsKnown
      /\ Calls' = Calls /\ settled' = settled
  BY DEF Dispatch, ProviderAnswers, Interrupt, Sound, IInv, ledger, Calls
<1>1. run.error = None
  BY <1>0 DEF AInv, ErrorKnown, Ending
<1>2. Current \in 1..Len(Calls) /\ Back \in ProviderCall /\ provider \in Seq(ProviderCall)
      /\ Len(provider) = Len(Calls) /\ Back.tag = None /\ (run.place = "waiting" => Back.sent)
  <2>1. Current > 0 /\ Back.tag = None /\ (run.place = "waiting" => Back.sent)
    BY <1>0 DEF Sound, IInv, CallKnown, Made
  <2>2. Current \in 1..Len(Calls)
    BY <2>1, Numbers
  <2> QED
    BY <2>1, <2>2, Numbers DEF Back
<1>3. \E y : /\ provider' = [provider EXCEPT ![Current] = y]
             /\ y.tag = "answer" => y.sent
  <2>1. CASE \E tag, usage : BringBack(tag, usage) /\ (run.place = "dispatch" => tag # "answer")
    <3> PICK tag, usage : BringBack(tag, usage) /\ (run.place = "dispatch" => tag # "answer")
      BY <2>1
    <3> DEFINE y == [Back EXCEPT !.tag = tag, !.usage = usage]
    <3>1. y.tag = tag /\ y.sent = Back.sent
      BY <1>2 DEF ProviderCall
    <3>2. provider' = [provider EXCEPT ![Current] = y]
      BY <1>2 DEF BringBack, Back, ProviderCall
    <3> QED
      BY <1>0, <1>2, <3>1, <3>2
  <2>2. CASE provider' = [provider EXCEPT ![Current].sent = TRUE]
    <3> DEFINE y == [Back EXCEPT !.sent = TRUE]
    <3>1. y.sent
      BY <1>2 DEF ProviderCall
    <3>2. provider' = [provider EXCEPT ![Current] = y]
      BY <1>2, <2>2 DEF Back, ProviderCall
    <3> QED
      BY <3>1, <3>2
  <2> QED
    BY <1>0, <2>1, <2>2 DEF Dispatch, Unsent, ProviderAnswers, Interrupt
<1>4. PICK y : /\ provider' = [provider EXCEPT ![Current] = y]
               /\ y.tag = "answer" => y.sent
  BY <1>3
<1>5. run'.place \in {"waiting", "settle"} /\ run'.error = None
  BY <1>0, <1>1, Moved DEF Dispatch, Unsent, ProviderAnswers, Interrupt, BringBack
<1>6. Current' = Current /\ provider'[Current] = y
      /\ \A i \in 1..Len(Calls) : i # Current => provider'[i] = provider[i]
  BY <1>2, <1>4 DEF Current
<1>7. \A i \in 1..Len(Calls) : (Open(i)' <=> i = Current) /\ (Open(i) <=> i = Current)
  BY <1>0, <1>5, <1>6 DEF Open, Made
<1>8. ASSUME NEW i \in 1..Len(Calls)
      PROVE  Billed(i)'
  <2>1. CASE i # Current
    <3>1. Remembers
      BY <1>0, <1>1 DEF Remembers, None
    <3>2. settled'[Task] \in Nat /\ settled'[Task] >= settled[Task]
      BY <1>0, Numbers
    <3> QED
      BY <1>0, <1>6, <1>7, <2>1, <3>1, <3>2, BillKept DEF AInv
  <2>2. CASE i = Current
    <3>1. Billed(i) /\ Open(i) /\ Open(i)'
      BY <1>7, <2>2 DEF AInv
    <3>2. Reconciled(i)' = Reconciled(i)
      BY <1>0 DEF Reconciled
    <3> QED
      BY <1>0, <1>4, <1>6, <2>2, <3>1, <3>2 DEF Billed
  <2> QED
    BY <2>1, <2>2
<1> QED
  BY <1>0, <1>5, <1>8 DEF AInv, ErrorKnown

\* What a settlement does to its call and to the settled column.
SettledNow(i, c, e) ==
    \/ /\ Calls[i].state = "settled" /\ Calls' = Calls /\ settled' = settled
       /\ reply' = "ok" => Calls[i].cost = c
    \/ /\ Calls[i].state # "settled" /\ Calls' = Calls /\ settled' = settled
       /\ c # Unknown /\ settled[Task] + c > MaxLedger /\ reply' # "ok"
    \/ /\ Calls[i].state # "settled" /\ c # Unknown
       /\ Calls'[i].state = "settled" /\ Calls'[i].cost = c
       /\ Calls'[i].outcome = L!Resolve(Calls[i], e)
       /\ settled'[Task] = settled[Task] + c
    \/ /\ Calls[i].state # "settled" /\ c = Unknown /\ settled' = settled
       /\ Calls'[i].state = "unresolved"

\* A settlement writes one call.
LEMMA SettlesOne ==
    ASSUME Sound, NEW i \in 1..Len(Calls), NEW c \in Nat \cup {Unknown}, NEW e,
           L!SettleAttempt(Task, i, c, e)
    PROVE  /\ SettledNow(i, c, e) /\ Len(Calls') = Len(Calls)
           /\ \A j \in 1..Len(Calls) : j # i => Calls'[j] = Calls[j]
<1>1. /\ Calls \in Seq(L!Attempt) /\ attempts \in [Tasks -> Seq(L!Attempt)] /\ Task \in Tasks
      /\ settled \in [Tasks -> 0..MaxLedger] /\ settled[Task] \in Nat /\ MaxLedger \in Nat
  <2>1. settled \in [Tasks -> 0..MaxLedger] /\ attempts \in [Tasks -> Seq(L!Attempt)]
    BY DEF Sound, L!TypeOK
  <2> QED
    BY <2>1, Numbers, TaskRunAssumption
<1>2. CASE attempts' = attempts /\ UNCHANGED settled
  BY <1>1, <1>2 DEF L!SettleAttempt, L!Return, L!Repeated, L!AlreadySettled, SettledNow, Calls,
                    L!Unknown, Unknown
<1>3. ASSUME NEW s \in {"unresolved", "settled"},
             attempts' = [attempts EXCEPT ![Task] = [@ EXCEPT ![i] =
                [amount |-> Calls[i].amount, cost |-> c, state |-> s,
                 outcome |-> L!Resolve(Calls[i], e)]]]
      PROVE  /\ Len(Calls') = Len(Calls) /\ \A j \in 1..Len(Calls) : j # i => Calls'[j] = Calls[j]
             /\ Calls'[i].state = s /\ Calls'[i].cost = c
             /\ Calls'[i].outcome = L!Resolve(Calls[i], e)
  <2> DEFINE a == [amount |-> Calls[i].amount, cost |-> c, state |-> s,
                   outcome |-> L!Resolve(Calls[i], e)]
  <2>1. a.state = s /\ a.cost = c /\ a.outcome = L!Resolve(Calls[i], e)
    OBVIOUS
  <2>2. Calls' = [Calls EXCEPT ![i] = a]
    BY <1>1, <1>3 DEF Calls
  <2> HIDE DEF a
  <2> QED
    BY <1>1, <2>1, <2>2
<1>4. CASE ~L!AlreadySettled(Calls[i]) /\ c # Unknown /\ settled[Task] + c <= MaxLedger
  <2>1. /\ settled' = [settled EXCEPT ![Task] = @ + c]
        /\ attempts' = [attempts EXCEPT ![Task] = [@ EXCEPT ![i] =
                [amount |-> Calls[i].amount, cost |-> c, state |-> "settled",
                 outcome |-> L!Resolve(Calls[i], e)]]]
        \/ (attempts' = attempts /\ UNCHANGED settled)
    BY <1>4 DEF L!SettleAttempt, L!Return, Calls, L!Unknown, Unknown, L!row, L!columns
  <2>2. settled' = [settled EXCEPT ![Task] = @ + c] => settled'[Task] = settled[Task] + c
    BY <1>1
  <2> QED
    BY <1>2, <1>3, <1>4, <2>1, <2>2 DEF SettledNow, L!AlreadySettled
<1>5. CASE ~L!AlreadySettled(Calls[i]) /\ c = Unknown
  <2>1. /\ settled' = settled
        /\ attempts' = [attempts EXCEPT ![Task] = [@ EXCEPT ![i] =
                [amount |-> Calls[i].amount, cost |-> c, state |-> "unresolved",
                 outcome |-> L!Resolve(Calls[i], e)]]]
    BY <1>5 DEF L!SettleAttempt, L!Return, Calls, L!Unknown, Unknown, L!row, L!columns
  <2> QED
    BY <1>3, <1>5, <2>1 DEF SettledNow, L!AlreadySettled
<1>6. CASE L!AlreadySettled(Calls[i]) \/ (c # Unknown /\ settled[Task] + c > MaxLedger)
  <2>1. attempts' = attempts /\ UNCHANGED settled
    BY <1>1, <1>6 DEF L!SettleAttempt, L!Return, L!row, L!columns, Calls, L!Unknown, Unknown
  <2> QED
    BY <1>2, <2>1
<1> QED
  BY <1>2, <1>4, <1>5, <1>6 DEF L!SettleAttempt, Calls, L!Unknown, Unknown

\* The engine settles the call it has open: from then on the call is closed,
\* with its bill, with the host's, or with an error that ends the run.
LEMMA SettleBills == ASSUME AInv, Sound, Sound', SettleCall PROVE AInv'
<1>0. /\ run.place = "settle" /\ LocalsKnown /\ provider' = provider
      /\ L!SettleAttempt(Task, Current, Charge, "invocation")
  BY DEF SettleCall, Sound, IInv, L!Settle
<1>1. run.error = None
  BY <1>0 DEF AInv, ErrorKnown, Ending
<1>2. /\ Current \in 1..Len(Calls) /\ Back \in ProviderCall /\ Back.node = run.node
      /\ Back.usage \in Nat \cup {Unknown} /\ provider[Current] = Back
  <2>1. Current > 0 /\ Back.node = run.node
    BY <1>0 DEF Sound, IInv, CallKnown, Made
  <2>2. Current \in 1..Len(Calls)
    BY <2>1, Numbers
  <2> QED
    BY <2>1, <2>2, Numbers DEF Back
<1>3. Charge = Bill(Current) /\ Charge \in Nat \cup {Unknown}
  BY <1>2 DEF Charge, Bill
<1>4. /\ SettledNow(Current, Charge, "invocation") /\ Len(Calls') = Len(Calls)
      /\ \A j \in 1..Len(Calls) : j # Current => Calls'[j] = Calls[j]
  BY <1>0, <1>2, <1>3, SettlesOne
<1>5. /\ run'.place \notin Made /\ (run'.error # None => run'.place = "finish")
      /\ run'.error = None =>
            /\ reply' = "ok"
            /\ run.node = "decision" => Back.tag = "answer"
  <2>1. ASSUME NEW kind, Fail(kind)
        PROVE  run'.place = "finish" /\ run'.error = kind
    BY <1>0, <2>1 DEF Fail, LocalsKnown, Fields
  <2>2. ASSUME NEW kind, PlanningFails(kind)
        PROVE  run'.place = "planFailed" /\ run'.error = None
    BY <1>0, <1>1, <2>2 DEF PlanningFails, LocalsKnown, Fields
  <2>3. ASSUME NEW p, Go(p)
        PROVE  run'.place = p /\ run'.error = None
    BY <1>0, <1>1, <2>3, Moved
  <2>4. CASE reply' # "ok"
    <3>1. reply' # None
      BY <1>0, SettledTables DEF SettleCall, Sound
    <3> QED
      BY <2>1, <2>4, <3>1 DEF SettleCall, Made
  <2>5. CASE reply' = "ok" /\ run.node = "planner"
    BY <1>1, <2>2, <2>3, <2>5 DEF SettleCall, AfterPlanner, Made
  <2>6. CASE reply' = "ok" /\ run.node = "decision"
    <3>1. ErrorKind(Back.tag) # None
      BY <1>0 DEF ErrorKind, Sound, IInv, CallKnown, None
    <3> QED
      BY <2>1, <2>3, <2>6, <3>1 DEF SettleCall, Made
  <2>7. CASE reply' = "ok" /\ run.node = "tool"
    <3>1. CASE run' = [run EXCEPT !.place = "reserve", !.batch = @ - 1]
      BY <1>0, <1>1, <2>7, <3>1 DEF LocalsKnown, Fields, Made
    <3>2. CASE run' = [BeginInvoke("generator", run.excluded) EXCEPT !.batch = 0]
      BY <1>0, <1>1, <2>7, <3>2 DEF BeginInvoke, LocalsKnown, Fields, Made
    <3>3. CASE \E kind : kind # None /\ Fail(kind)
      BY <2>1, <2>7, <3>3 DEF Made
    <3>4. ErrorKind(Back.tag) # None
      BY <1>0 DEF ErrorKind, Sound, IInv, CallKnown, None
    <3> QED
      BY <2>7, <3>1, <3>2, <3>3, <3>4 DEF SettleCall, AfterTool, None
  <2>8. CASE reply' = "ok" /\ run.node \in {"generator", "critic"}
    <3>0. AfterModel
      BY <2>8 DEF SettleCall
    <3>1. CASE Back.tag = "answer"
      BY <2>1, <2>3, <2>8, <3>0, <3>1 DEF AfterModel, Made
    <3>2. CASE \E n \in 1..MaxBatch : run' = [run EXCEPT !.place = "reserve", !.node = "tool",
                                                         !.batch = n]
      BY <1>0, <1>1, <2>8, <3>2 DEF LocalsKnown, Fields, Made
    <3>3. CASE run' = [run EXCEPT !.place     = "route",
                                  !.attempted = AttemptedAfter(run.model),
                                  !.failures  = @ + 1]
      BY <1>0, <1>1, <2>8, <3>3 DEF LocalsKnown, Fields, Made
    <3>4. CASE Fail(ErrorKind(Back.tag))
      <4>1. ErrorKind(Back.tag) # None
        BY <1>0 DEF ErrorKind, Sound, IInv, CallKnown, None
      <4> QED
        BY <2>1, <2>8, <3>4, <4>1 DEF Made
    <3> QED
      BY <3>0, <3>1, <3>2, <3>3, <3>4 DEF AfterModel
  <2> QED
    BY <2>4, <2>5, <2>6, <2>7, <2>8 DEF SettleCall
<1>6. \A i \in 1..Len(Calls) : ~Open(i)' /\ (Open(i) <=> i = Current)
  BY <1>0, <1>5 DEF Open, Made
<1>7. settled'[Task] \in Nat /\ settled[Task] \in Nat /\ settled[Task] <= MaxLedger
      /\ settled'[Task] >= settled[Task] /\ MaxLedger \in Nat
  BY <1>3, <1>4, Numbers DEF SettledNow
<1>8. ASSUME NEW i \in 1..Len(Calls), i # Current
      PROVE  Billed(i)'
  <2>1. Remembers
    BY <1>0, <1>1 DEF Remembers, None
  <2> QED
    BY <1>0, <1>4, <1>6, <1>7, <1>8, <2>1, BillKept DEF AInv
<1>9. Billed(Current)
  BY <1>2 DEF AInv
<1>10. ASSUME NEW i \in 1..Len(Calls), i = Current
       PROVE  /\ Bill(i)' = Charge /\ Reported(i)' = Reported(i) /\ provider[i] = Back
              /\ Reported(i) = Reported(Current)
  BY <1>0, <1>2, <1>3, <1>10 DEF Bill, Reported
<1>11. Reported(Current) /\ run'.error = None => Charge = Back.usage
  BY <1>2, <1>5 DEF Charge, Reported
<1>12. Charge # Unknown /\ Charge # 0 => Reported(Current) /\ Charge = Back.usage
  BY <1>2, <1>9 DEF Charge, Reported, Billed
<1>13. ASSUME NEW i \in 1..Len(Calls), i = Current
       PROVE  Billed(i)'
  <2>0. Calls[i].state # "unresolved" /\ (Calls[i].state = "settled" => Reconciled(i))
        /\ (Back.tag = "answer" => Back.sent)
    BY <1>2, <1>6, <1>9, <1>13 DEF Billed
  <2>1. provider'[i] = Back /\ ~Open(i)'
    BY <1>0, <1>6, <1>10, <1>13
  <2>2. CASE /\ Calls[i].state = "settled" /\ Calls' = Calls /\ settled' = settled
             /\ reply' = "ok" => Calls[i].cost = Charge
    <3>1. Reconciled(i)' = Reconciled(i)
      BY <2>2 DEF Reconciled
    <3> QED
      BY <1>2, <1>5, <1>10, <1>11, <1>13, <2>0, <2>1, <2>2, <3>1 DEF Billed
  <2>3. CASE /\ Calls[i].state # "settled" /\ Calls' = Calls /\ settled' = settled
             /\ Charge # Unknown /\ settled[Task] + Charge > MaxLedger /\ reply' # "ok"
    <3>1. Charge # 0
      BY <1>7, <2>3
    <3>2. Reported(i)' /\ TooLarge(i)'
      BY <1>0, <1>10, <1>12, <1>13, <2>1, <2>3, <3>1 DEF TooLarge
    <3> QED
      BY <1>2, <1>5, <1>10, <1>13, <2>0, <2>1, <2>3, <3>2 DEF Billed
  <2>4. CASE /\ Charge # Unknown /\ Calls'[i].state = "settled" /\ Calls'[i].cost = Charge
    BY <1>2, <1>6, <1>10, <1>11, <1>13, <2>0, <2>1, <2>4 DEF Billed
  <2>5. CASE Charge = Unknown /\ Calls'[i].state = "unresolved"
    BY <1>2, <1>6, <1>10, <1>11, <1>13, <2>0, <2>1, <2>5 DEF Billed, Reported
  <2> QED
    BY <1>4, <1>13, <2>2, <2>3, <2>4, <2>5 DEF SettledNow
<1> QED
  BY <1>4, <1>5, <1>8, <1>13 DEF AInv, ErrorKnown, Ending

\* The host settles a call that is not settled, with a note; it cannot touch
\* one that has its bill.
LEMMA ReconcileBills == ASSUME AInv, Sound, Sound', HostReconciles PROVE AInv'
<1>1. PICK i \in 1..Len(Calls), c \in Costs :
         Calls[i].state # "settled" /\ L!SettleAttempt(Task, i, c, "reconciliation")
  BY DEF HostReconciles, L!Reconcile
<1>2. c \in Nat /\ c # Unknown
  BY TaskRunAssumption DEF Unknown
<1>3. /\ SettledNow(i, c, "reconciliation") /\ Len(Calls') = Len(Calls)
      /\ \A j \in 1..Len(Calls) : j # i => Calls'[j] = Calls[j]
  BY <1>1, <1>2, SettlesOne
<1>4. run' = run /\ provider' = provider /\ Current' = Current
  BY DEF HostReconciles, Current
<1>5. settled'[Task] \in Nat /\ settled'[Task] >= settled[Task]
  BY <1>1, <1>2, <1>3, Numbers DEF SettledNow
<1>6. \A j \in 1..Len(Calls) : Open(j)' <=> Open(j)
  BY <1>4 DEF Open
<1>7. Remembers
  BY <1>4 DEF Remembers
<1>8. ASSUME NEW j \in 1..Len(Calls), Calls'[j] = Calls[j]
      PROVE  Billed(j)'
  BY <1>4, <1>5, <1>6, <1>7, <1>8, BillKept DEF AInv
<1>9. CASE Calls'[i] = Calls[i]
  BY <1>3, <1>4, <1>8, <1>9 DEF AInv, ErrorKnown
<1>10. CASE Calls'[i].state = "settled" /\ Calls'[i].outcome = L!Resolve(Calls[i], "reconciliation")
  <2>1. Reconciled(i)'
    BY <1>10 DEF Reconciled, L!Resolve
  <2>2. Billed(i)
    BY DEF AInv
  <2>3. Calls[i].cost = Unknown
    BY <1>1 DEF Sound, Costed
  <2>4. ~(Reported(i) /\ Calls[i].cost = provider[i].usage)
    BY <2>3 DEF Reported
  <2>5. Reported(i)' = Reported(i)
    BY <1>4 DEF Reported
  <2>6. Billed(i)'
    BY <1>4, <1>6, <1>10, <2>1, <2>2, <2>4, <2>5 DEF Billed
  <2> QED
    BY <1>3, <1>4, <1>8, <2>6 DEF AInv, ErrorKnown
<1> QED
  BY <1>1, <1>2, <1>3, <1>9, <1>10 DEF SettledNow

\* The accounts are known in every state of a run.
THEOREM AccountsKnown == Spec => []AInv
<1>1. ASSUME Init
      PROVE  AInv
  <2>1. Calls = <<>> /\ run.error = None
    BY <1>1, TaskRunAssumption DEF Init, L!Init, Calls
  <2> QED
    BY <2>1 DEF AInv, ErrorKnown
<1>2. ASSUME AInv, Sound, Sound', [Next]_vars
      PROVE  AInv'
  BY <1>2, PrepareBills, RoundBills, FaultBills, ReserveBills, UnderWayBills, SettleBills,
     ReconcileBills DEF Next, Engine, Call, Host
<1>3. Spec => []Sound
  <2>1. IInv /\ (L!TypeOK /\ L!ColumnsMatch /\ L!CallLimit /\ L!WithinBudget) /\ Costed => Sound
    BY DEF Sound
  <2> QED
    BY <2>1, Inductive, RunKeepsItsBooks, RunIsCosted, PTL
<1> QED
  BY <1>1, <1>2, <1>3, PTL DEF Spec

\* Off the recovery list a run is paid: what providers reported was charged,
\* what was never sent is free, and a cost nobody reported came from the host.
THEOREM PaidOffTheList == Spec => []OffTheListIsPaid
<1>1. ASSUME AInv, Sound
      PROVE  OffTheListIsPaid
  <2> SUFFICES ASSUME Over, Task \notin L!Records, NEW i \in 1..Len(Calls)
               PROVE  \/ Reconciled(i)
                      \/ Reported(i) /\ Calls[i].cost = provider[i].usage
                      \/ ~provider[i].sent /\ Calls[i].cost = 0
    BY DEF OffTheListIsPaid
  <2>1. Calls[i].state = "settled"
    <3>1. Calls[i].state \notin {"pending", "unresolved"}
      BY TaskRunAssumption DEF L!Records, Calls
    <3> QED
      BY <1>1, <3>1, Numbers DEF L!Attempt
  <2>2. Billed(i)
    BY <1>1 DEF AInv
  <2> QED
    BY <2>1, <2>2 DEF Billed, Bill, Reported
<1>2. IInv /\ (L!TypeOK /\ L!ColumnsMatch /\ L!CallLimit /\ L!WithinBudget) /\ Costed => Sound
  BY DEF Sound
<1> QED
  BY <1>1, <1>2, AccountsKnown, Inductive, RunKeepsItsBooks, RunIsCosted, PTL

\* When the run returns its accounts are closed: usage reported before a
\* cancellation, a timeout or a failure is charged, and nothing is left
\* pending but a cost that the store cannot hold.
THEOREM AccountsAreClosed == Spec => []AccountsClosed
<1>1. ASSUME AInv, Sound
      PROVE  AccountsClosed
  <2> SUFFICES ASSUME run.place = "returned", run.error # "storage", NEW i \in 1..Len(Calls)
               PROVE  /\ Reported(i) /\ provider[i].node # "decision" /\ ~Reconciled(i) =>
                           Calls[i].cost = provider[i].usage \/ TooLarge(i)
                      /\ Calls[i].state = "pending" => Reported(i) /\ TooLarge(i)
    BY DEF AccountsClosed
  <2>1. Billed(i) /\ ~Open(i)
    BY <1>1 DEF AInv, Open, Made
  <2>2. Calls[i].state \in {"pending", "unresolved", "settled"}
    BY <1>1, Numbers DEF L!Attempt
  <2>3. Calls[i].state = "pending" => Reported(i) /\ TooLarge(i)
    BY <2>1 DEF Billed
  <2>4. Reported(i) /\ provider[i].node # "decision" => Bill(i) = provider[i].usage /\ Bill(i) # Unknown
    BY DEF Reported, Bill
  <2> QED
    BY <2>1, <2>2, <2>3, <2>4 DEF Billed
<1>2. IInv /\ (L!TypeOK /\ L!ColumnsMatch /\ L!CallLimit /\ L!WithinBudget) /\ Costed => Sound
  BY DEF Sound
<1> QED
  BY <1>1, <1>2, AccountsKnown, Inductive, RunKeepsItsBooks, RunIsCosted, PTL

\* A run that returns without an error has charged what its providers
\* reported, the calls the host had settled before them included.
THEOREM ConflictsAreTold == Spec => []ConflictIsTold
<1>1. ASSUME AInv
      PROVE  ConflictIsTold
  <2> SUFFICES ASSUME run.place = "returned", run.error = None, NEW i \in 1..Len(Calls), Reported(i)
               PROVE  Calls[i].cost = provider[i].usage
    BY DEF ConflictIsTold
  <2>1. Billed(i) /\ ~Open(i)
    BY <1>1 DEF AInv, Open, Made
  <2> QED
    BY <2>1 DEF Billed
<1> QED
  BY <1>1, AccountsKnown, PTL

-----------------------------------------------------------------------------
\* The types of a run.  A kind of error is one the engine knows, and a model
\* is only called again while its node has attempts left.
TInv ==
    /\ run \in RunState
    /\ cancel \in BOOLEAN /\ late \in BOOLEAN
    /\ faults \in 0..MaxFaults /\ reconciles \in 0..MaxReconciles
    /\ run.place \in Calling /\ run.node \in {"generator", "critic"} => run.failures < MaxAttempts
    /\ run.place = "settle" /\ Back.tag = "batch" => run.node = "generator"

\* The places, nodes and errors are what the engine names.
LEMMA Named ==
    /\ {"create", "prepare", "planning", "routePlanner", "planFailed", "fallback",
        "substitute", "validate", "decide", "plan", "execute", "begin", "route", "reserve", "dispatch", "waiting", "settle",
        "evaluate", "judge", "checkpoint", "evaluated", "upgradeStop", "result", "finish",
        "returned", "dropped"} \subseteq Places
    /\ {"decision", "planner", "generator", "critic", "tool"} \subseteq Nodes
    /\ {None, "cancelled", "deadline", "budget", "storage", "model", "protocol", "context",
        "routing", "planning", "plan_validation"} \subseteq Errors
    /\ 0 \in 0..MaxAttempts /\ 0 \in 0..MaxBatch
  BY TaskRunAssumption DEF Places, StorePlaces, Nodes, Errors

\* A step whose record expression is typed.
LEMMA GoTyped ==
    ASSUME run \in RunState, NEW p \in Places, NEW kind \in Errors,
           \/ Go(p) \/ Fail(kind) \/ PlanningFails(kind) \/ Conclude("completed")
           \/ Conclude("human_required")
    PROVE  run' \in RunState
<1>0. {"finish", "planFailed", "result"} \subseteq Places
  BY Named
<1>1. CASE Go(p)
  BY <1>1 DEF Go, RunState
<1>2. CASE Fail(kind)
  BY <1>0, <1>2 DEF Fail, RunState
<1>3. CASE PlanningFails(kind)
  BY <1>0, <1>3 DEF PlanningFails, RunState
<1>4. ASSUME NEW result \in {None, "completed", "human_required"}, Conclude(result)
      PROVE  run' \in RunState
  BY <1>0, <1>4 DEF Conclude, RunState
<1> QED
  BY <1>1, <1>2, <1>3, <1>4

\* invoke() starts with typed locals.
LEMMA BeginTyped ==
    ASSUME run \in RunState, NEW node \in Nodes, NEW avoid \in SUBSET Models
    PROVE  BeginInvoke(node, avoid) \in RunState /\ BeginInvoke(node, avoid).place = "route"
<1>1. "route" \in Places /\ 0 \in 0..MaxAttempts
  BY Named
<1> QED
  BY <1>1 DEF BeginInvoke, RunState

\* What the host and the faults count is bounded by the model.
LEMMA WorldTyped ==
    ASSUME TInv, [Next]_vars
    PROVE  /\ cancel' \in BOOLEAN /\ late' \in BOOLEAN
           /\ faults' \in 0..MaxFaults /\ reconciles' \in 0..MaxReconciles
<1>1. CASE UNCHANGED world
  BY <1>1 DEF world, TInv
<1>2. CASE StoreFails
  BY <1>2, TaskRunAssumption DEF StoreFails, TInv
<1>3. CASE HostCancels \/ DeadlinePasses
  BY <1>3 DEF HostCancels, DeadlinePasses, TInv
<1>4. CASE HostReconciles
  BY <1>4, TaskRunAssumption DEF HostReconciles, TInv
<1> QED
  BY <1>1, <1>2, <1>3, <1>4 DEF Next, vars, Admit, Engine, Prepare, Call, Rounds, Host, CheckResources,
     BeginPlanning, RoutePlanner, SaveFailedPlan, FallBack, ValidatePlan, FixPlan, BeginExecution, Route,
     ReserveCall, Dispatch, SettleCall, Interrupt, ProviderAnswers, Evaluate, Judge,
     CheckpointRound, Decide, StopUpgrade, ReadResult, Finish, EventFails, Drop

\* A run that is not at a call only has to have typed locals.
LEMMA CalmTyped ==
    ASSUME TInv, [Next]_vars, run' \in RunState, run'.place \notin Calling
    PROVE  TInv'
  BY WorldTyped DEF TInv, Calling

\* Where a record goes, and what of it is kept.
LEMMA Placed ==
    ASSUME run \in RunState, NEW p, NEW kind,
           \/ p \notin Calling /\ Go(p)
           \/ Fail(kind) \/ PlanningFails(kind) \/ Conclude(kind)
    PROVE  run'.place \notin Calling
  BY DEF Go, Fail, PlanningFails, Conclude, RunState, Calling

\* The locals stay typed in the preparation.
LEMMA PrepareTyped ==
    ASSUME TInv, [Next]_vars, Prepare \/ Admit
    PROVE  TInv'
<1> USE Named DEF Calling
<1>0. run \in RunState
  BY DEF TInv
<1>1. CASE \E p \in Places \ Calling : Go(p)
  <2> PICK p \in Places \ Calling : Go(p)
    BY <1>1
  <2>1. None \in Errors
    BY DEF Errors
  <2> QED
    BY <1>0, <2>1, GoTyped, Placed, CalmTyped
<1>2. CASE \E kind \in Errors : Fail(kind) \/ PlanningFails(kind)
  BY <1>0, <1>2, GoTyped, Placed, CalmTyped
<1>3. CASE run' = [run EXCEPT !.place = "reserve", !.node = "decision"]
  <2>1. run' \in RunState /\ run'.place = "reserve" /\ run'.node = "decision"
    BY <1>0, <1>3 DEF RunState, Nodes
  <2> QED
    BY <2>1, WorldTyped DEF TInv
<1>4. CASE \E m \in Models : run' = [run EXCEPT !.place = "reserve", !.node = "planner", !.model = m]
  <2>1. run' \in RunState /\ run'.place = "reserve" /\ run'.node = "planner"
    BY <1>0, <1>4 DEF RunState, Nodes
  <2> QED
    BY <2>1, WorldTyped DEF TInv
<1>5. CASE run' = BeginInvoke("generator", {})
  <2>1. run' \in RunState /\ run'.place = "route"
    BY <1>0, <1>5, BeginTyped
  <2> QED
    BY <2>1, CalmTyped
<1>6. Refusal \in Errors /\ run.planError \in Errors
  BY <1>0 DEF Refusal, Errors, RunState
<1>7. CASE CheckResources
  <2>1. \/ \E p \in Places \ Calling : Go(p)
        \/ \E kind \in Errors : Fail(kind)
        \/ run' = [run EXCEPT !.place = "reserve", !.node = "decision"]
    BY <1>6, <1>7 DEF CheckResources
  <2> QED
    BY <1>1, <1>2, <1>3, <2>1
<1>8. CASE RoutePlanner
  <2>1. \/ PlanningFails("planning")
        \/ \E m \in Models : run' = [run EXCEPT !.place = "reserve", !.node = "planner", !.model = m]
    BY <1>8 DEF RoutePlanner, Candidates
  <2>2. "planning" \in Errors
    BY DEF Errors
  <2> QED
    BY <1>2, <1>4, <2>1, <2>2
<1>9. CASE SaveFailedPlan \/ FallBack
  BY <1>1, <1>2, <1>6, <1>9 DEF SaveFailedPlan, FallBack
<1>10. CASE ValidatePlan
  <2>1. "plan_validation" \in Errors
    BY DEF Errors
  <2> QED
    BY <1>1, <1>2, <1>10, <2>1 DEF ValidatePlan
<1>11. CASE Admit \/ BeginPlanning \/ FixPlan
  BY <1>1, <1>11 DEF Admit, BeginPlanning, FixPlan
<1> QED
  BY <1>5, <1>7, <1>8, <1>9, <1>10, <1>11 DEF Prepare, BeginExecution

\* The locals stay typed in the rounds.
LEMMA RoundTyped ==
    ASSUME TInv, IInv, [Next]_vars, Rounds \/ EventFails \/ Drop \/ StoreFails
    PROVE  TInv'
<1> USE Named DEF Calling
<1>0. run \in RunState
  BY DEF TInv
<1>1. CASE \E p \in Places \ Calling : Go(p)
  <2> PICK p \in Places \ Calling : Go(p)
    BY <1>1
  <2>1. None \in Errors
    BY DEF Errors
  <2> QED
    BY <1>0, <2>1, GoTyped, Placed, CalmTyped
<1>2. CASE \E kind \in {"protocol", "cancelled", "deadline"} : Fail(kind)
  <2>1. {"protocol", "cancelled", "deadline"} \subseteq Errors
    BY DEF Errors
  <2> QED
    BY <1>0, <1>2, <2>1, GoTyped, Placed, CalmTyped
<1>3. CASE Conclude("completed") \/ Conclude("human_required")
  <2>1. None \in Errors /\ "finish" \in Places
    BY DEF Errors
  <2> QED
    BY <1>0, <1>3, <2>1, GoTyped, Placed, CalmTyped
<1>4. CASE Evaluate
  <2>0. run.model \in Models
    BY <1>4 DEF Evaluate, IInv, LocalsKnown
  <2>1. CASE \E det \in {"pass", "revise"} : run' = [run EXCEPT !.place = "checkpoint", !.verdict = det]
    <3>1. run' \in RunState /\ run'.place = "checkpoint"
      BY <1>0, <2>1 DEF RunState
    <3> QED
      BY <3>1, CalmTyped
  <2>2. CASE run' = BeginInvoke("critic", IF DifferentCritic THEN {run.model} ELSE {})
    <3>1. (IF DifferentCritic THEN {run.model} ELSE {}) \in SUBSET Models
      BY <2>0
    <3> DEFINE avoid == IF DifferentCritic THEN {run.model} ELSE {}
    <3>2. run' = BeginInvoke("critic", avoid) /\ avoid \in SUBSET Models
      BY <2>2, <3>1
    <3> HIDE DEF avoid
    <3>3. run' \in RunState /\ run'.place = "route"
      BY <1>0, <3>2, BeginTyped
    <3> QED
      BY <3>3, CalmTyped
  <2> QED
    BY <1>4, <2>1, <2>2 DEF Evaluate
<1>5. CASE Judge
  <2>1. CASE \E v \in {"pass", "revise", "stop"} : run' = [run EXCEPT !.place = "checkpoint", !.verdict = v]
    <3>1. run' \in RunState /\ run'.place = "checkpoint"
      BY <1>0, <2>1 DEF RunState
    <3> QED
      BY <3>1, CalmTyped
  <2> QED
    BY <1>2, <1>5, <2>1 DEF Judge
<1>6. CASE Decide
  <2>1. ASSUME NEW excluded \in SUBSET Models, NEW floor \in Nat, run.round # MaxRounds,
               NextRound(excluded, floor)
        PROVE  TInv'
    <3>1. run.round + 1 \in 1..MaxRounds
      BY <1>0, <2>1, TaskRunAssumption DEF RunState
    <3> DEFINE begun == BeginInvoke("generator", excluded)
    <3>2. /\ begun \in RunState /\ begun.place = "route" /\ begun.round = run.round
          /\ run' = [begun EXCEPT !.round = @ + 1, !.excluded = excluded, !.floor = floor]
      BY <1>0, <2>1, BeginTyped DEF NextRound, BeginInvoke, RunState
    <3> HIDE DEF begun
    <3>3. run' \in RunState /\ run'.place = "route"
      BY <3>1, <3>2, <2>1 DEF RunState
    <3> QED
      BY <3>3, CalmTyped
  <2>2. run.model \in Models /\ run.excluded \in SUBSET Models
    BY <1>0, <1>6 DEF Decide, IInv, LocalsKnown, Judging, RunState
  <2>3. NextFloor \in Nat /\ MinQuality \in Nat /\ run.excluded \cup {run.model} \in SUBSET Models
    BY <2>2, TaskRunAssumption DEF NextFloor
  <2> QED
    BY <1>3, <1>6, <2>1, <2>3 DEF Decide
<1>7. CASE StoreFails
  <2>1. run' \in RunState /\ run'.place \in {"returned", "finish"}
    <3>1. PICK p \in {"returned", "finish"} : run' = [run EXCEPT !.place = p, !.error = "storage"]
      BY <1>0, <1>7 DEF StoreFails, RunState
    <3>2. p \in Places /\ "storage" \in Errors
      BY Named
    <3> QED
      BY <1>0, <3>1, <3>2 DEF RunState
  <2> QED
    BY <2>1, CalmTyped
<1>8. CASE CheckpointRound \/ ReadResult \/ Finish \/ Drop
  BY <1>1, <1>8 DEF CheckpointRound, ReadResult, Finish, Drop
<1>9. CASE StopUpgrade
  BY <1>3, <1>9 DEF StopUpgrade
<1>10. CASE EventFails
  BY <1>2, <1>10 DEF EventFails
<1> QED
  BY <1>4, <1>5, <1>6, <1>7, <1>8, <1>9, <1>10 DEF Rounds

\* The router is asked while there are attempts left.
LEMMA RouteTyped == ASSUME TInv, [Next]_vars, Route PROVE TInv'
<1> USE Named DEF Calling
<1>0. run \in RunState
  BY DEF TInv
<1>1. CASE \E kind \in {"model", "context", "cancelled", "deadline", "routing"} : Fail(kind)
  BY <1>0, <1>1, GoTyped, Placed, CalmTyped
<1>2. CASE Go("upgradeStop")
  <2>1. None \in Errors /\ "upgradeStop" \in Places
    BY DEF Errors
  <2> QED
    BY <1>0, <1>2, <2>1, GoTyped, Placed, CalmTyped
<1>3. CASE \E m \in Models : run' = [run EXCEPT !.place = "reserve", !.model = m]
  <2>1. /\ run' \in RunState /\ run'.place = "reserve" /\ run'.failures = run.failures
        /\ run'.node = run.node
    BY <1>0, <1>3 DEF RunState
  <2>2. CASE run.failures < MaxAttempts
    BY <2>1, <2>2, WorldTyped DEF TInv
  <2>3. CASE ~(run.failures < MaxAttempts)
    <3>1. run.failures >= MaxAttempts
      BY <1>0, <2>3, TaskRunAssumption DEF RunState
    <3>2. Fail("model")
      BY <2>3, <3>1 DEF Route
    <3> QED
      BY <1>1, <3>2
  <2> QED
    BY <2>2, <2>3
<1> QED
  BY <1>1, <1>2, <1>3 DEF Route, Candidates

\* A call that is granted, sent or comes back keeps the locals of its node.
LEMMA WaitTyped ==
    ASSUME TInv, IInv, [Next]_vars, run.place \in Calling,
           NEW p \in {"dispatch", "waiting", "settle"}, Go(p),
           p = "settle" /\ Back'.tag = "batch" => run.node = "generator"
    PROVE  TInv'
<1>0. run \in RunState /\ p \in Places
  BY Named DEF TInv
<1>1. /\ run' \in RunState /\ run'.place = p /\ run'.failures = run.failures
      /\ run'.node = run.node
  BY <1>0 DEF Go, RunState
<1> QED
  BY <1>1, WorldTyped DEF TInv, Calling

\* The store refuses with an error the engine knows.
LEMMA ReserveTyped == ASSUME TInv, IInv, [Next]_vars, ReserveCall PROVE TInv'
<1> USE Named
<1>0. run \in RunState /\ run.place \in Calling
  BY DEF TInv, ReserveCall, Calling
<1>1. CASE reply' = "ok"
  BY <1>0, <1>1, WaitTyped DEF ReserveCall
<1>2. CASE reply' # "ok"
  <2>1. reply' \in {"storage", "cancelled", "budget"} /\ Fail(reply')
    BY <1>2 DEF ReserveCall, L!Reserve, L!Return
  <2>2. reply' \in Errors /\ "finish" \in Places
    BY <2>1
  <2> QED
    BY <1>0, <2>1, <2>2, GoTyped, Placed, CalmTyped
<1> QED
  BY <1>1, <1>2

\* Only a generator asks for tools.
LEMMA UnderWayTyped ==
    ASSUME TInv, IInv, [Next]_vars, Dispatch \/ ProviderAnswers \/ Interrupt
    PROVE  TInv'
<1>0. run \in RunState /\ run.place \in Calling /\ run.place \in {"dispatch", "waiting"}
  BY DEF TInv, Dispatch, ProviderAnswers, Interrupt, Calling
<1>1. CASE Go("waiting")
  BY <1>0, <1>1, WaitTyped
<1>2. ASSUME NEW tag, NEW usage, BringBack(tag, usage), tag = "batch" => run.node = "generator"
      PROVE  TInv'
  <2>1. Current \in 1..Len(provider) /\ provider \in Seq(ProviderCall)
    BY <1>0 DEF IInv, CallKnown, Linked, Current, Made
  <2>2. Back \in ProviderCall
    BY <2>1 DEF Back
  <2> DEFINE y == [Back EXCEPT !.tag = tag, !.usage = usage]
  <2>3. y.tag = tag
    BY <2>2 DEF ProviderCall
  <2>4. provider' = [provider EXCEPT ![Current] = y]
    BY <1>2, <2>1, <2>2 DEF BringBack, Back, ProviderCall
  <2> HIDE DEF y
  <2>5. Back'.tag = tag
    BY <2>1, <2>3, <2>4 DEF Back, Current
  <2> QED
    BY <1>0, <1>2, <2>5, WaitTyped DEF BringBack
<1>3. CASE \E tag \in {"cancelled", "deadline"} : \E usage : BringBack(tag, usage)
  BY <1>2, <1>3
<1>4. CASE ProviderAnswers
  <2>1. PICK tag \in Tags(run.node) : \E usage : BringBack(tag, usage)
    BY <1>4 DEF ProviderAnswers
  <2>2. tag = "batch" => run.node = "generator"
    BY DEF Tags
  <2> QED
    BY <1>2, <2>1, <2>2
<1> QED
  BY <1>1, <1>3, <1>4 DEF Dispatch, Unsent, Interrupt

\* What a settled call leads to is typed: a model is tried again after one
\* failure more, at most as many as the limit.
LEMMA SettleTyped == ASSUME TInv, IInv, [Next]_vars, SettleCall PROVE TInv'
<1> USE Named DEF Calling
<1>0. run \in RunState /\ run.place = "settle"
  BY DEF TInv, SettleCall
<1>1. Back.tag \in AllTags \ {None} /\ (Back.tag = "batch" => run.node = "generator")
  <2>1. Current \in 1..Len(provider) /\ provider \in Seq(ProviderCall) /\ Back.tag # None
    BY <1>0 DEF IInv, CallKnown, Linked, Current, Made
  <2>2. Back \in ProviderCall
    BY <2>1 DEF Back
  <2> QED
    BY <1>0, <2>1, <2>2 DEF ProviderCall, TInv
<1>2. Back.tag \notin {"answer", "batch"} =>
         /\ ErrorKind(Back.tag) \in {"protocol", "model", "cancelled", "deadline"}
         /\ Back.tag \in {"invalid", "model", "cancelled", "deadline"}
  BY <1>1 DEF ErrorKind, AllTags
<1>3. CASE \E kind \in Errors : Fail(kind) \/ PlanningFails(kind)
  BY <1>0, <1>3, GoTyped, Placed, CalmTyped
<1>4. CASE \E p \in Places \ Calling : Go(p)
  <2> PICK p \in Places \ Calling : Go(p)
    BY <1>4
  <2>1. None \in Errors
    BY DEF Errors
  <2> QED
    BY <1>0, <2>1, GoTyped, Placed, CalmTyped
<1>5. CASE reply' # "ok"
  <2>1. reply' \in {"storage", "budget"} /\ Fail(reply')
    BY <1>5 DEF SettleCall, L!Settle, L!SettleAttempt, L!Return, L!Repeated
  <2>2. reply' \in Errors
    BY <2>1
  <2> QED
    BY <1>3, <2>1, <2>2
<1>6. CASE reply' = "ok" /\ run.node = "planner"
  <2>1. \/ Go("validate")
        \/ \E kind \in {"plan_validation", "planning", "model", "cancelled", "deadline"} :
              PlanningFails(kind)
    BY <1>1, <1>2, <1>6 DEF SettleCall, AfterPlanner
  <2> QED
    BY <1>3, <1>4, <2>1
<1>7. CASE reply' = "ok" /\ run.node = "decision"
  <2>1. \/ Go("plan")
        \/ \E kind \in {"protocol", "model", "cancelled", "deadline"} : Fail(kind)
    BY <1>1, <1>2, <1>7 DEF SettleCall
  <2> QED
    BY <1>3, <1>4, <2>1
<1>8. CASE reply' = "ok" /\ run.node = "tool"
  <2>1. \/ \E kind \in {"protocol", "model", "cancelled", "deadline"} : Fail(kind)
        \/ Back.tag = "answer" /\ AfterTool
    BY <1>1, <1>2, <1>8 DEF SettleCall
  <2>2. CASE run.batch > 1 /\ run' = [run EXCEPT !.place = "reserve", !.batch = @ - 1]
    <3>1. run.batch - 1 \in 0..MaxBatch
      BY <1>0, <2>2, TaskRunAssumption DEF RunState
    <3>2. run' \in RunState /\ run'.place = "reserve" /\ run'.node = "tool"
      BY <1>0, <1>8, <2>2, <3>1 DEF RunState
    <3> QED
      BY <3>2, WorldTyped DEF TInv
  <2>3. CASE run' = [BeginInvoke("generator", run.excluded) EXCEPT !.batch = 0]
    <3> DEFINE begun == BeginInvoke("generator", run.excluded)
    <3>1. run.excluded \in SUBSET Models
      BY <1>0 DEF RunState
    <3>2. begun \in RunState /\ begun.place = "route"
      BY <1>0, <3>1, BeginTyped
    <3>3. run' = [begun EXCEPT !.batch = 0]
      BY <2>3
    <3> HIDE DEF begun
    <3>4. run' \in RunState /\ run'.place = "route"
      BY <3>2, <3>3 DEF RunState
    <3> QED
      BY <3>4, CalmTyped
  <2> QED
    BY <1>3, <2>1, <2>2, <2>3 DEF AfterTool
<1>9. CASE reply' = "ok" /\ run.node \in {"generator", "critic"}
  <2>1. \/ Fail("context") \/ Go("judge") \/ Go("evaluate")
        \/ \E n \in 1..MaxBatch : run' = [run EXCEPT !.place = "reserve", !.node = "tool", !.batch = n]
        \/ run' = [run EXCEPT !.place = "route", !.attempted = AttemptedAfter(run.model),
                              !.failures = @ + 1]
        \/ \E kind \in {"protocol", "model", "cancelled", "deadline"} : Fail(kind)
    BY <1>1, <1>2, <1>9 DEF SettleCall, AfterModel
  <2>2. CASE \E n \in 1..MaxBatch : run' = [run EXCEPT !.place = "reserve", !.node = "tool", !.batch = n]
    <3>1. PICK n \in 1..MaxBatch : run' = [run EXCEPT !.place = "reserve", !.node = "tool", !.batch = n]
      BY <2>2
    <3>2. n \in 0..MaxBatch
      BY TaskRunAssumption
    <3>3. run' \in RunState /\ run'.place = "reserve" /\ run'.node = "tool"
      BY <1>0, <3>1, <3>2 DEF RunState
    <3> QED
      BY <3>3, WorldTyped DEF TInv
  <2>3. CASE run' = [run EXCEPT !.place = "route", !.attempted = AttemptedAfter(run.model),
                                !.failures = @ + 1]
    <3>1. run.failures + 1 \in 0..MaxAttempts
      BY <1>0, <1>9, TaskRunAssumption DEF TInv, RunState
    <3>2. AttemptedAfter(run.model) \in SUBSET Models
      BY <1>0, <1>9 DEF AttemptedAfter, RunState, IInv, LocalsKnown
    <3>3. run' \in RunState /\ run'.place = "route"
      BY <1>0, <2>3, <3>1, <3>2 DEF RunState
    <3> QED
      BY <3>3, CalmTyped
  <2> QED
    BY <1>3, <1>4, <2>1, <2>2, <2>3
<1> QED
  BY <1>5, <1>6, <1>7, <1>8, <1>9 DEF SettleCall

\* The host does not touch the locals of a run.
LEMMA HostTyped ==
    ASSUME TInv, [Next]_vars, UNCHANGED <<run, provider>>
    PROVE  TInv'
  BY WorldTyped DEF TInv, Back, Current

\* Every variable of a run keeps its type.
THEOREM RunTypeCorrect == Spec => []TypeOK
<1>1. Init => TInv
  <2> SUFFICES ASSUME Init
               PROVE  TInv
    OBVIOUS
  <2> USE Named
  <2>1. run \in RunState /\ run.place = "create"
    BY TaskRunAssumption DEF Init, RunState
  <2>2. cancel \in BOOLEAN /\ late \in BOOLEAN
    BY DEF Init
  <2>3. faults \in 0..MaxFaults /\ reconciles \in 0..MaxReconciles
    BY TaskRunAssumption DEF Init
  <2> QED
    BY <2>1, <2>2, <2>3 DEF TInv, Calling
<1>2. ASSUME TInv, IInv, [Next]_vars
      PROVE  TInv'
  <2>1. CASE UNCHANGED <<run, provider>>
    BY <1>2, <2>1, HostTyped
  <2>2. CASE HostCancels \/ DeadlinePasses \/ HostReconciles \/ UNCHANGED vars
    BY <2>1, <2>2 DEF HostCancels, DeadlinePasses, HostReconciles, vars
  <2> QED
    BY <1>2, <2>2, PrepareTyped, RoundTyped, RouteTyped, ReserveTyped, UnderWayTyped, SettleTyped
       DEF Next, Engine, Call, Host
<1>3. ASSUME TInv, IInv, L!TypeOK
      PROVE  TypeOK
  BY <1>3 DEF TypeOK, TInv, IInv, LocalsKnown, Linked, Backed
<1>4. L!TypeOK /\ L!ColumnsMatch /\ L!CallLimit /\ L!WithinBudget => L!TypeOK
  OBVIOUS
<1> QED
  BY <1>1, <1>2, <1>3, <1>4, Inductive, RunKeepsItsBooks, PTL DEF Spec
=============================================================================
