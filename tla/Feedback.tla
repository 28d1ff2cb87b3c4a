------------------------------ MODULE Feedback ------------------------------
(***************************************************************************)
(* Evaluation records, host feedback and the metrics read from them        *)
(* (src/src/store/feedback.rs, src/src/store/metrics.rs), on the same      *)
(* tables as the ledger: a record may be written while its task runs,      *)
(* feedback once it has ended, and both are tied to attempts the ledger    *)
(* knows.  As in Ledger the callers are arbitrary and each call is one     *)
(* transaction.                                                            *)
(*                                                                         *)
(* A candidate's text is left out but for whether it has its checksum; the *)
(* events and latencies are left out.                                      *)
(***************************************************************************)
EXTENDS Integers, Sequences, FiniteSets, Functions

CONSTANTS
    Tasks, Budgets, Amounts, Costs, MaxCalls, MaxLedger, Phases,  \* Ledger
    Models,        \* model id with its version, as frozen in route evidence
    RoleOf,        \* the profile role the task maps each node to
    Artifacts,     \* artifact ids
    Ids,           \* feedback ids
    Versions,      \* evaluator versions
    Acceptance     \* acceptance.version of each task's effective plan

VARIABLES
    status, total, settled, reserved, calls, plan, checkpoint, attempts, reply,
    routes,        \* attempts.metadata, by task and attempt
    records,       \* the evaluations table, by artifact id
    feedback,      \* the feedback table, in the order of its ids
    acknowledged   \* the feedback the host was told is recorded

L == INSTANCE Ledger

tables == <<status, total, settled, reserved, calls, plan, checkpoint, attempts>>
ledger == <<tables, reply>>
vars   == <<ledger, routes, records, feedback, acknowledged>>

Nodes == {"generator", "critic", "planner"}    \* of model attempts
Tool  == [node |-> "tool", model |-> "unknown"]
Route == [node : Nodes, model : Models]
Kinds == {"business_acceptance", "critic_correctness"}
None  == <<>>

\* An EvaluationRecord without its artifact id; a critic verdict is <<>> or
\* <<the critic's attempt, what it said>>.
Record == [task    : Tasks,
           attempt : 1..MaxCalls,
           det     : {"pass", "revise"},
           critic  : {None} \cup ((1..MaxCalls) \X {"pass", "revise"})]

Payload == [id : Ids, task : Tasks, artifact : Artifacts, kind : Kinds,
            version : Versions, accepted : BOOLEAN]
Key     == [model : Models, role : {RoleOf[n] : n \in Nodes}, version : Versions]

ASSUME FeedbackAssumption ==
    /\ IsFiniteSet(Tasks)
    /\ MaxCalls \in Nat /\ MaxLedger \in Nat
    /\ Budgets \subseteq 0..MaxLedger /\ Amounts \subseteq Nat /\ Costs \subseteq Nat
    /\ "planned" \in Phases
    /\ DOMAIN RoleOf = Nodes
    /\ Acceptance \in [Tasks -> Versions]

Init ==
    /\ L!Init
    /\ routes       = [t \in Tasks |-> <<>>]
    /\ records      = [a \in Artifacts |-> None]
    /\ feedback     = <<>>
    /\ acknowledged = {}

\* A call of this module that writes nothing, and what it leaves alone when
\* it does write.
Answer(kind) ==
    /\ L!Return(kind)
    /\ UNCHANGED <<routes, records, feedback>>

Done ==
    /\ reply' = "ok"
    /\ UNCHANGED <<tables, routes>>

Rows == {feedback[k] : k \in 1..Len(feedback)}

-----------------------------------------------------------------------------
\* Defects for the mutation runs: each has the shape of the definition it
\* stands in for.
RoleFitsAny(t, i, critic)     == i \in 1..Len(routes[t]) /\ routes[t][i].node \in Nodes
EndedLoosely(t)              == status[t] # "absent"
RevisionOfArtifacts           == Cardinality({f.payload.artifact : f \in Rows})
UnresolvedOnly(a)             == IF a.state = "unresolved" THEN a.amount ELSE 0

\* profile_key: the attempt is one of the task's and its node can be judged
\* this way.
RoleFits(t, i, critic) ==
    /\ i \in 1..Len(routes[t])
    /\ routes[t][i].node = IF critic THEN "critic" ELSE "generator"

\* A saved candidate is immutable; only its absent critic verdict may come.
MayReplace(old, new) ==
    old.critic = None /\ [new EXCEPT !.critic = None] = old

Conflicts(old, new) == old \notin {None, new} /\ ~MayReplace(old, new)

Running(t) == status[t] = "running"
Ended(t)   == status[t] \in L!Terminal

SameFeedback(saved, f) == saved = f

\* The attempt that feedback f is about.
Judged(f) == IF f.kind = "critic_correctness" THEN records[f.artifact].critic[1]
                                              ELSE records[f.artifact].attempt

ProfileKey(f) ==
    LET route == routes[f.task][Judged(f)]
    IN  [model |-> route.model, role |-> RoleOf[route.node], version |-> f.version]

-----------------------------------------------------------------------------
\* The calls of the ledger that these tables depend on.  The metadata of an
\* attempt is written with it.
RunTask(t) ==
    /\ \/ \E b \in Budgets : L!CreateSubmission(t, b)
       \/ L!SavePlan(t, "planned")
       \/ \E s \in L!Terminal : L!Finish(t, s)
       \/ \E i \in 1..Len(attempts[t]) :
             \/ \E c \in Costs \cup {L!Unknown} : L!Settle(t, i, c)
             \/ \E c \in Costs : L!Reconcile(t, i, c, TRUE)
    /\ UNCHANGED <<routes, records, feedback, acknowledged>>

ReserveFor(t, route) ==
    /\ \E amount \in Amounts : L!Reserve(t, amount)
    /\ routes' = IF reply' = "ok" THEN [routes EXCEPT ![t] = Append(@, route)] ELSE routes
    /\ UNCHANGED <<records, feedback, acknowledged>>

\* record_evaluation; intact is whether the artifact's text has its
\* checksum.
RecordEvaluation(artifact, new, intact) ==
    LET old == records[artifact]
    IN  /\ \/ /\ ~intact
              /\ Answer("evaluation")
           \/ /\ intact /\ status[new.task] = "absent"
              /\ Answer("storage")
           \/ /\ intact /\ status[new.task] # "absent"
              /\ \/ ~Running(new.task)
                 \/ ~RoleFits(new.task, new.attempt, FALSE)
                 \/ new.critic # None /\ ~RoleFits(new.task, new.critic[1], TRUE)
                 \/ Conflicts(old, new)
              /\ Answer("evaluation")
           \/ /\ intact
              /\ Running(new.task)
              /\ RoleFits(new.task, new.attempt, FALSE)
              /\ new.critic # None => RoleFits(new.task, new.critic[1], TRUE)
              /\ ~Conflicts(old, new)
              /\ records' = [records EXCEPT ![artifact] = new]
              /\ Done
              /\ UNCHANGED feedback
        /\ UNCHANGED acknowledged

\* feedback_key's conditions, in its order.
Refused(f) ==
    LET record == records[f.artifact]
        critic == f.kind = "critic_correctness"
    IN  IF \/ record = None
           \/ record.task # f.task
           \/ ~Ended(f.task)
           \/ plan[f.task] # "planned"
           \/ f.version # Acceptance[f.task]
           \/ critic /\ record.critic = None
        THEN "feedback"
        ELSE IF ~RoleFits(f.task, Judged(f), critic) THEN "evaluation"
        ELSE IF \E saved \in Rows : /\ saved.payload.artifact = f.artifact
                                     /\ saved.payload.kind = f.kind
             THEN "feedback" ELSE "ok"

\* record_feedback: repeating what is saved succeeds and adds nothing.
SaveFeedback(f) ==
    LET same == {saved \in Rows : saved.payload.id = f.id}
    IN  \/ /\ same # {}
           /\ \E saved \in same :
                 Answer(IF SameFeedback(saved.payload, f) THEN "ok" ELSE "feedback")
        \/ /\ same = {}
           /\ Refused(f) # "ok"
           /\ Answer(Refused(f))
        \/ /\ same = {}
           /\ Refused(f) = "ok"
           /\ feedback' = Append(feedback, [payload |-> f, key |-> ProfileKey(f)])
           /\ Done
           /\ UNCHANGED records

RecordFeedback(f) ==
    /\ SaveFeedback(f)
    /\ acknowledged' = IF reply' = "ok" THEN acknowledged \cup {f} ELSE acknowledged

\* The host drops the call: the worker may still commit it.
RecordFeedbackUnanswered(f) ==
    /\ SaveFeedback(f)
    /\ UNCHANGED acknowledged

-----------------------------------------------------------------------------
\* read_metrics, one read transaction.
Revision == Len(feedback)

Quality ==
    LET groups == {<<f.key, f.payload.kind>> : f \in Rows}
        In(g)  == {f \in Rows : <<f.key, f.payload.kind>> = g}
    IN  [g \in groups |-> [accepted |-> Cardinality({f \in In(g) : f.payload.accepted}),
                           samples  |-> Cardinality(In(g))]]

\* What an attempt without a cost adds to unresolved_reserved.
UnresolvedReserved(a) == IF a.cost = L!Unknown THEN a.amount ELSE 0
KnownCost(a)          == IF a.cost = L!Unknown THEN 0 ELSE a.cost

CallStatistics ==
    LET All    == {c \in Tasks \X (1..MaxCalls) : c[2] <= Len(attempts[c[1]])}
        Of(g)  == {c \in All : routes[c[1]][c[2]] = g}
        groups == {routes[c[1]][c[2]] : c \in All}
    IN  [g \in groups |->
           [attempts            |-> Cardinality(Of(g)),
            known_cost          |->
                SumFunction([c \in Of(g) |-> KnownCost(attempts[c[1]][c[2]])]),
            unresolved_reserved |->
                SumFunction([c \in Of(g) |-> UnresolvedReserved(attempts[c[1]][c[2]])])]]

-----------------------------------------------------------------------------
Next ==
    \/ \E t \in Tasks : RunTask(t)
    \/ \E t \in Tasks, route \in Route \cup {Tool} : ReserveFor(t, route)
    \/ \E artifact \in Artifacts, new \in Record, intact \in BOOLEAN :
          RecordEvaluation(artifact, new, intact)
    \/ \E f \in Payload : RecordFeedback(f) \/ RecordFeedbackUnanswered(f)

Spec == Init /\ [][Next]_vars

-----------------------------------------------------------------------------
TypeOK ==
    /\ L!TypeOK
    /\ routes \in [Tasks -> Seq(Route \cup {Tool})]
    /\ records \in [Artifacts -> Record \cup {None}]
    /\ feedback \in Seq([payload : Payload, key : Key])
    /\ acknowledged \subseteq Payload

\* A candidate that was saved keeps its deterministic evidence and the
\* first verdict of a critic, whoever writes to it again; and what a host
\* has judged stays as it was judged: feedback is only accepted when
\* nothing, a late critic verdict included, can be added to the record.
RecordsFinal ==
    [][\A a \in Artifacts : records[a] # None =>
          /\ [records'[a] EXCEPT !.critic = None] = [records[a] EXCEPT !.critic = None]
          /\ \/ records[a].critic # None
             \/ \E f \in Rows : f.payload.artifact = a
             => records'[a] = records[a]]_vars

\* Every judgement the host was told is recorded is counted, once per artifact
\* and kind although calls are repeated after a lost answer, and credited to
\* the model that did the work: business acceptance to the attempt that
\* generated the artifact, correctness to the critic that judged it, both of
\* the task the feedback names.
CreditedOnce ==
    /\ acknowledged \subseteq {f.payload : f \in Rows}
    /\ Cardinality({<<f.payload.artifact, f.payload.kind>> : f \in Rows}) = Len(feedback)
    /\ \A f \in Rows :
          LET record == records[f.payload.artifact]
              work   == routes[record.task][Judged(f.payload)]
          IN  /\ record.task = f.payload.task
              /\ f.key.model = work.model
              /\ work.node = IF f.payload.kind = "critic_correctness" THEN "critic"
                                                                      ELSE "generator"

\* The revision that a task's plan pins identifies the quality samples it
\* was routed with: while it stays the same, so do they.
RevisionIdentifiesQuality ==
    [][/\ Revision' >= Revision
       /\ Revision' = Revision => Quality' = Quality]_vars

\* The costs in the metrics, grouped by node and model, are the ledger's:
\* known costs add up to what tasks have settled, unknown ones stay visible
\* with all that is still reserved for them.
MetricsBalance ==
    LET groups == DOMAIN CallStatistics
    IN  /\ SumFunction([g \in groups |-> CallStatistics[g].known_cost]) = SumFunction(settled)
        /\ SumFunction([g \in groups |-> CallStatistics[g].unresolved_reserved])
              = SumFunction(reserved)
=============================================================================
