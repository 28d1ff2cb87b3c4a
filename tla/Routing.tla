------------------------------ MODULE Routing ------------------------------
(***************************************************************************)
(* What a task demands and which model is asked: the demand is assessed    *)
(* from the host's facts and a decision model (assessment.rs, decision.rs),*)
(* the evidence about the models is captured with the plan                 *)
(* (router/profiles.rs, router/rankings.rs), and every later call is       *)
(* routed on what was captured (router.rs, router/selection.rs), while     *)
(* hosts go on giving feedback and rankings expire.                        *)
(*                                                                         *)
(* Probabilities and qualities are integers, parts of Unit, rounded down   *)
(* where the code rounds an f64.  There is one task, its requests are all  *)
(* of one size, and every model has one version.                           *)
(***************************************************************************)
EXTENDS Totals, FiniteSets, Sequences
LOCAL INSTANCE Functions

CONSTANTS
    None, Failed,           \* no value; a preparation that failed
    Models, Id,             \* the candidates and the order of their ids
    Class, Cost,            \* execution class and estimated cost by model
    Acceptance,             \* global prior quality by model
    Merit,                  \* what capability, reliability, ... add to its score
    Nodes, RoleType,        \* nodes of the plan and the type each is profiled as
    Allowed,                \* by node, the models the task's other constraints admit
    Types, General, Parents,        \* task types and the parents some of them have
    Profiles, Weights,      \* configured evidence; weights by type and by default
    Entries, Published, Expires,    \* an external ranking and its window
    Unit, DefaultWeight,    \* probability 1; weight of a prior without profile
    Selection, MaxCallCost, \* the task's SelectionPolicy and limit per call
    CostScale,              \* by node, one over the reference of costs
    Rules, Questions, Policy,       \* assessment rules, decision questions, policy
    Submissions, Assessments, Requests,     \* inputs
    MaxTime, MaxSamples, MaxRoutes          \* bounds

VARIABLES
    now,        \* the clock the ranking's window is compared with
    live,       \* host feedback by model, type and node: accepted and samples
    task,       \* the task's demand and its RoutingSnapshot, once prepared
    routes      \* the saved requests (route_inputs) with the model chosen

vars == <<now, live, task, routes>>

Classes == 0..2                 \* ExecutionClass, in its derived order
Keys    == Models \X Types \X Nodes

ASSUME ModelsAssumption ==
    /\ IsFiniteSet(Models)
    /\ Id \in [Models -> Nat] /\ \A m, n \in Models : Id[m] = Id[n] => m = n
    /\ Class \in [Models -> Classes]
    /\ Cost \in [Models -> Nat]
    /\ Merit \in [Models -> Int]
    /\ Unit \in Nat \ {0}
    /\ Acceptance \in [Models -> 0..Unit]

ASSUME EvidenceAssumption ==
    /\ None \notin Types
    /\ RoleType \in [Nodes -> Types]
    /\ DefaultWeight \in Nat \ {0}
    /\ \A p \in Profiles : /\ p.prior \in 0..Unit /\ p.weight \in Nat \ {0}
                           /\ p.samples \in Nat /\ p.accepted \in 0..p.samples
    /\ \A e \in Entries : e.contribution \in Nat
    /\ None \in DOMAIN Weights
    /\ \A k \in DOMAIN Weights : Weights[k].quality \in Nat /\ Weights[k].cost \in Nat

ASSUME TaskAssumption ==
    /\ Allowed \in [Nodes -> SUBSET Models]
    /\ CostScale \in [Nodes -> Nat]
    /\ Selection \in [minimum : Nat, target : Nat, factor : Nat]
    /\ \A rule \in Rules \cup Policy : rule.class \in Classes
    /\ \A s \in Submissions : s.minimum \in Classes
    /\ \A r \in Requests : r.node \in Nodes /\ r.floor \in Nat
    /\ MaxTime \in Nat

-----------------------------------------------------------------------------
Greater(a, b) == IF a >= b THEN a ELSE b

\* Defects for the mutation runs: each has the shape of the definition it
\* stands in for.
AnyOf(S)             == CHOOSE c \in S : TRUE
AboveTargetLost(q)   == IF q > Selection.target THEN 0 ELSE 10 * q
CostOfBudget(r, m)   == (10 * Cost[m]) \div Greater(r.available, 1)
PosteriorOfPrior(prior, weight, accepted, samples) ==
    (weight * prior + Unit * accepted) \div weight

-----------------------------------------------------------------------------
(***************************************************************************)
(* Demand.                                                                 *)
(***************************************************************************)
\* matches_rule: a value carries its kind, and the wrong kind never matches.
Matches(observed, op, expected) ==
    \/ op = "eq" /\ observed.kind = expected.kind /\ observed.value = expected.value
    \/ /\ op \in {"gte", "gt"}
       /\ observed.kind = "integer" /\ expected.kind = "integer"
       /\ \/ observed.value > expected.value
          \/ op = "gte" /\ observed.value = expected.value
    \/ /\ op = "contains"
       /\ observed.kind = "set" /\ expected.kind = "string"
       /\ expected.value \in observed.value

\* A fact that was not observed matches nothing.
Matched(facts) ==
    {rule \in Rules : /\ rule.fact \in DOMAIN facts
                      /\ Matches(facts[rule.fact], rule.op, rule.value)}

\* Every question is answered once, with a distribution; the outcomes of a
\* score question are free.
ValidFor(signals) ==
    /\ Len(signals) = Cardinality(DOMAIN Questions)
    /\ {signals[i].question : i \in DOMAIN signals} = DOMAIN Questions
    /\ \A i \in DOMAIN signals :
          LET p == signals[i].probabilities
              q == Questions[signals[i].question]
          IN  /\ DOMAIN p # {} /\ \A o \in DOMAIN p : p[o] \in 0..Unit
              /\ SumFunction(p) = Unit
              /\ q.kind # "score" => DOMAIN p = q.outcomes
              /\ signals[i].value \in q.outcomes

\* The policy's rules whose outcome is probable enough.
Advised(signals) ==
    {rule \in Policy : \E i \in DOMAIN signals :
        /\ signals[i].question = rule.question
        /\ rule.outcome \in DOMAIN signals[i].probabilities
        /\ signals[i].probabilities[rule.outcome] >= rule.probability}

Highest(S) == CHOOSE c \in S : \A d \in S : c >= d

\* Without a decision model there are no signals.
Demand(submission, signals) ==
    Highest({submission.minimum}
              \cup {rule.class : rule \in Matched(submission.facts)}
              \cup {rule.class : rule \in Advised(signals)})

-----------------------------------------------------------------------------
(***************************************************************************)
(* Evidence.                                                               *)
(***************************************************************************)
\* The first of the type, its ancestors and General that is in S.
Nearest(type, S) ==
    LET up[n \in 0..Cardinality(Types)] ==
            IF n = 0 THEN type
            ELSE IF up[n - 1] \in DOMAIN Parents THEN Parents[up[n - 1]] ELSE General
        at == {n \in 0..Cardinality(Types) : up[n] \in S}
    IN  IF at = {} THEN None ELSE up[CHOOSE n \in at : \A k \in at : n <= k]

Posterior(prior, weight, accepted, samples) ==
    (weight * prior + Unit * accepted) \div (weight + samples)

\* Feedback replaces the counts of the profile with its key, whose prior
\* stays; without a profile the prior is the global one.
Quality(m, node) ==
    LET configured(k) == {p \in Profiles : p.model = m /\ p.type = k /\ p.node = node}
        judged == {k \in Types : live[<<m, k, node>>].samples > 0}
        k      == Nearest(RoleType[node], judged \cup {t \in Types : configured(t) # {}})
        fresh  == live[<<m, k, node>>]
    IN  CASE k = None -> Acceptance[m]
          [] k # None /\ configured(k) = {} ->
                Posterior(Acceptance[m], DefaultWeight, fresh.accepted, fresh.samples)
          [] OTHER ->
                LET p == CHOOSE p \in configured(k) : TRUE
                IN  IF k \in judged
                    THEN Posterior(p.prior, p.weight, fresh.accepted, fresh.samples)
                    ELSE Posterior(p.prior, p.weight, p.accepted, p.samples)

Contribution(m, node) ==
    LET exact == {e \in Entries : e.model = m /\ e.type = RoleType[node] /\ e.node = node}
    IN  IF exact = {} \/ now < Published \/ now >= Expires
        THEN 0 ELSE (CHOOSE e \in exact : TRUE).contribution

\* RoutingSnapshot::capture_with_metrics
Capture(class) ==
    [class   |-> class,
     quality |-> [node \in Nodes |-> [m \in Models |-> Quality(m, node)]],
     ranking |-> [node \in Nodes |-> [m \in Models |-> Contribution(m, node)]]]

-----------------------------------------------------------------------------
(***************************************************************************)
(* Choice.  The task's preferences do not apply to a critic.               *)
(***************************************************************************)
Required(r) == IF r.node = "critic" THEN r.floor ELSE Greater(r.floor, Selection.minimum)

Eligible(s, r) ==
    {m \in Allowed[r.node] \ r.excluded :
        /\ Class[m] >= s.class
        /\ Cost[m] <= r.available /\ Cost[m] <= MaxCallCost
        /\ s.quality[r.node][m] >= Required(r)}

\* In tenths: beyond the target, quality counts by the factor only.
QualityValue(q) ==
    10 * Lesser(q, Selection.target) + Selection.factor * Excess(q, Selection.target)

\* Cost over the task's reference, or for a critic over its limit per call.
CostShare(r, m) == CostScale[r.node] * Cost[m]

Score(s, r, m) ==
    LET q == s.quality[r.node][m]
        w == Weights[Nearest(RoleType[r.node], DOMAIN Weights \ {None})]
    IN  w.quality * (IF r.node = "critic" THEN 10 * q ELSE QualityValue(q))
        + Merit[m] - w.cost * CostShare(r, m)

RankingOf(s, node, m) == s.ranking[node][m]

\* Score, ranking, cost, id: the first that differs decides.
Preference(s, r, m) == <<Score(s, r, m), RankingOf(s, r.node, m), -Cost[m], -Id[m]>>

Above(a, b) == \E i \in 1..4 : a[i] > b[i] /\ \A j \in 1..i - 1 : a[j] = b[j]

Choice(s, r) ==
    LET fit == Eligible(s, r)
    IN  IF fit = {} THEN None
        ELSE CHOOSE m \in fit : \A n \in fit \ {m} :
                                Above(Preference(s, r, m), Preference(s, r, n))
-----------------------------------------------------------------------------
Init ==
    /\ now = 0
    /\ live = [k \in Keys |-> [accepted |-> 0, samples |-> 0]]
    /\ task = None
    /\ routes = {}

\* prepare_submission: the decision, the assessment, the metrics and the
\* snapshot, saved together with the plan.
Prepare(submission, signals) ==
    /\ task = None
    /\ IF signals = <<>> \/ ValidFor(signals)
       THEN task' = [submission |-> submission, signals |-> signals,
                     snapshot   |-> Capture(Demand(submission, signals))]
       ELSE task' = Failed
    /\ UNCHANGED <<now, live, routes>>

\* reserve_model: the request is saved with the reservation it leads to.
Route(r) ==
    /\ task \notin {None, Failed}
    /\ Cardinality(routes) < MaxRoutes
    /\ routes' = routes \cup {[request |-> r, model |-> Choice(task.snapshot, r)]}
    /\ UNCHANGED <<now, live, task>>

\* Feedback on other tasks, as read_metrics counts it (module Feedback).
FeedbackArrives(k, accepted) ==
    /\ SumFunction([j \in Keys |-> live[j].samples]) < MaxSamples
    /\ live' = [live EXCEPT ![k] =
          [accepted |-> IF accepted THEN live[k].accepted + 1 ELSE live[k].accepted,
           samples  |-> live[k].samples + 1]]
    /\ UNCHANGED <<now, task, routes>>

TimePasses ==
    /\ now < MaxTime
    /\ now' = now + 1
    /\ UNCHANGED <<live, task, routes>>

Next ==
    \/ \E submission \in Submissions, signals \in Assessments : Prepare(submission, signals)
    \/ \E r \in Requests : Route(r)
    \/ \E k \in Keys, accepted \in BOOLEAN : FeedbackArrives(k, accepted)
    \/ TimePasses

Spec == Init /\ [][Next]_vars

-----------------------------------------------------------------------------
TypeOK ==
    /\ now \in 0..MaxTime
    /\ live \in [Keys -> [accepted : Nat, samples : Nat]]
    /\ \A k \in Keys : live[k].accepted <= live[k].samples
    /\ task \notin {None, Failed} =>
          /\ task.snapshot.class \in Classes
          /\ task.snapshot.quality \in [Nodes -> [Models -> 0..Unit]]
          /\ task.snapshot.ranking \in [Nodes -> [Models -> Nat]]
    /\ \A d \in routes : d.model \in Models \cup {None}

\* usage.md: neither the host's minimum nor what a matched rule or the
\* decision policy demands is ever lowered, whatever model is asked.
ClassHolds ==
    \A d \in routes : d.model # None =>
        LET demanded == {task.submission.minimum}
                          \cup {rule.class : rule \in Matched(task.submission.facts)
                                                \cup Advised(task.signals)}
        IN  \A c \in demanded : Class[d.model] >= c

\* usage.md: the task's value of a model decides.  A budget, a floor or
\* exclusions that only take other candidates away do not change the
\* choice, and rankings decide between equals only.
OnlyValueDecides ==
    \A d \in routes : d.model # None =>
        LET s   == task.snapshot
            fit == Eligible(s, d.request)
            unranked == [s EXCEPT !.ranking = [node \in Nodes |-> [m \in Models |-> 0]]]
        IN  /\ \A r \in Requests :
                  r.node = d.request.node /\ Eligible(s, r) \subseteq fit
                          /\ d.model \in Eligible(s, r)
                      => Choice(s, r) = d.model
            /\ Score(s, d.request, Choice(unranked, d.request)) = Score(s, d.request, d.model)

\* The model that was chosen would have been chosen with better evidence
\* too: neither the target nor the floor can turn quality against it.
BetterQualityNeverHurts ==
    \A d \in routes : d.model # None =>
        LET s == task.snapshot
            node == d.request.node
            raised(q) == [s EXCEPT !.quality[node][d.model] = q]
        IN  \A q \in {s.quality[node][m] : m \in Models} \cup {Selection.target, Unit} :
                q >= s.quality[node][d.model] => Choice(raised(q), d.request) = d.model
=============================================================================
