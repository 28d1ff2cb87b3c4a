--------------------------- MODULE FeedbackProofs ---------------------------
(***************************************************************************)
(* Evaluation records and feedback for any number of tasks, models,        *)
(* artifacts, feedback ids and evaluator versions, whoever calls.          *)
(*                                                                         *)
(* The argument: feedback is accepted only for a record whose task has     *)
(* ended.  Statuses that have ended stay so, routes are only appended to,  *)
(* and a record is written only while its task runs, so what a judgement   *)
(* was credited to never changes after it was accepted; and the pair of    *)
(* artifact and kind it is filed under is new.                             *)
(*                                                                         *)
(* The metrics: every call of this module leaves the ledger's columns      *)
(* alone or is a call of the ledger, whose invariant therefore holds here. *)
(* A column is a sum over the calls of a task; summing over all calls by   *)
(* task, or by node and model, gives the same.                             *)
(***************************************************************************)
EXTENDS Feedback, FiniteSetTheorems, TLAPS

\* The tables of this module, and the one column of the ledger they read.
Typed ==
    /\ status \in [Tasks -> L!Statuses]
    /\ routes \in [Tasks -> Seq(Route \cup {Tool})]
    /\ records \in [Artifacts -> Record \cup {None}]
    /\ feedback \in Seq([payload : Payload, key : Key])
    /\ acknowledged \subseteq Payload

Critic(p) == p.kind = "critic_correctness"

\* What stays true of a judgement p that was saved under key.
Judgement(p, key) ==
    /\ records[p.artifact] # None
    /\ records[p.artifact].task = p.task
    /\ Critic(p) => records[p.artifact].critic # None
    /\ Ended(p.task)
    /\ RoleFits(p.task, Judged(p), Critic(p))
    /\ key = ProfileKey(p)

Filed    == {<<f.payload.artifact, f.payload.kind>> : f \in Rows}
Payloads == {f.payload : f \in Rows}

Counted == IsFiniteSet(Filed) /\ Cardinality(Filed) = Len(feedback)

IInv ==
    /\ Typed
    /\ \A f \in Rows : Judgement(f.payload, f.key)
    /\ Counted
    /\ acknowledged \subseteq Payloads

-----------------------------------------------------------------------------
\* What no call takes back.
Onward ==
    /\ status' \in [Tasks -> L!Statuses]
    /\ \A t \in Tasks : Ended(t) => status'[t] \in L!Terminal
    /\ routes' \in [Tasks -> Seq(Route \cup {Tool})]
    /\ \A t \in Tasks : \A i \in 1..Len(routes[t]) :
          i \in 1..Len(routes'[t]) /\ routes'[t][i] = routes[t][i]

\* What a call does to the tables: nothing, a candidate, or a judgement.
Quiet ==
    /\ UNCHANGED <<records, feedback>>
    /\ acknowledged' \subseteq acknowledged \cup Payloads

Writes(a, new) ==
    /\ Running(new.task)
    /\ ~Conflicts(records[a], new)
    /\ records' = [records EXCEPT ![a] = new]
    /\ UNCHANGED <<feedback, acknowledged>>

Counts(f) ==
    /\ Refused(f) = "ok"
    /\ feedback' = Append(feedback, [payload |-> f, key |-> ProfileKey(f)])
    /\ acknowledged' \subseteq acknowledged \cup {f}
    /\ UNCHANGED <<records, routes, status>>

\* A settlement and a reconciliation have nothing to do with a status.
LEMMA SettleKeepsStatus ==
    ASSUME NEW t, NEW i, NEW c, NEW e, L!SettleAttempt(t, i, c, e)
    PROVE  status' = status
  BY DEF L!SettleAttempt, L!Return, L!row, L!columns

\* The ledger's calls made for a task.
LEMMA RunTaskStep ==
    ASSUME Typed, NEW t \in Tasks, RunTask(t)
    PROVE  Onward /\ Quiet
<1>1. UNCHANGED <<routes, records, feedback, acknowledged>>
  BY DEF RunTask
<1>2. \/ status' = status
      \/ status[t] = "absent" /\ status' = [status EXCEPT ![t] = "running"]
      \/ \E s \in L!Terminal : status' = [status EXCEPT ![t] = s]
  <2>1. CASE \E b \in Budgets : L!CreateSubmission(t, b)
    BY <2>1 DEF L!CreateSubmission, L!Return, L!row
  <2>2. CASE L!SavePlan(t, "planned")
    BY <2>2 DEF L!SavePlan, L!Return, L!row
  <2>3. CASE \E s \in L!Terminal : L!Finish(t, s)
    BY <2>3 DEF L!Finish
  <2>4. CASE \E i \in 1..Len(attempts[t]), c \in Costs \cup {L!Unknown} : L!Settle(t, i, c)
    BY <2>4, SettleKeepsStatus DEF L!Settle
  <2>5. CASE \E i \in 1..Len(attempts[t]), c \in Costs : L!Reconcile(t, i, c, TRUE)
    BY <2>5, SettleKeepsStatus DEF L!Reconcile
  <2> QED
    BY <2>1, <2>2, <2>3, <2>4, <2>5 DEF RunTask
<1>3. status' \in [Tasks -> L!Statuses] /\ \A u \in Tasks : Ended(u) => status'[u] \in L!Terminal
  BY <1>2 DEF Typed, L!Statuses, L!Terminal, Ended
<1> QED
  BY <1>1, <1>3 DEF Onward, Quiet, Typed

\* A reservation appends the route of its attempt.
LEMMA ReserveForStep ==
    ASSUME Typed, NEW t \in Tasks, NEW r \in Route \cup {Tool}, ReserveFor(t, r)
    PROVE  Onward /\ Quiet
<1>1. UNCHANGED <<status, records, feedback, acknowledged>>
  BY DEF ReserveFor, L!Reserve, L!Return, L!row
<1>2. routes[t] \in Seq(Route \cup {Tool}) /\ routes \in [Tasks -> Seq(Route \cup {Tool})]
  BY DEF Typed
<1>3. CASE routes' = routes
  BY <1>1, <1>3 DEF Onward, Quiet, Typed, Ended
<1>4. CASE routes' = [routes EXCEPT ![t] = Append(@, r)]
  <2> DEFINE q == Append(routes[t], r)
  <2>1. /\ q \in Seq(Route \cup {Tool})
        /\ \A i \in 1..Len(routes[t]) : i \in 1..Len(q) /\ q[i] = routes[t][i]
    BY <1>2
  <2>2. \A u \in Tasks : routes'[u] = IF u = t THEN q ELSE routes[u]
    BY <1>2, <1>4
  <2>3. routes' = [routes EXCEPT ![t] = q]
    BY <1>4
  <2> HIDE DEF q
  <2>4. routes' \in [Tasks -> Seq(Route \cup {Tool})]
    BY <1>2, <2>1, <2>3
  <2>5. \A u \in Tasks : \A i \in 1..Len(routes[u]) :
           i \in 1..Len(routes'[u]) /\ routes'[u][i] = routes[u][i]
    BY <2>1, <2>2
  <2> QED
    BY <1>1, <2>4, <2>5 DEF Onward, Quiet, Typed, Ended
<1> QED
  BY <1>3, <1>4 DEF ReserveFor

\* A call that leaves statuses and routes alone takes nothing back.
LEMMA TablesKept == Typed /\ UNCHANGED <<status, routes>> => Onward
  BY DEF Typed, Onward, Ended

\* An evaluation is refused or written.
LEMMA EvaluationStep ==
    ASSUME Typed, NEW a \in Artifacts, NEW new \in Record, NEW intact \in BOOLEAN,
           RecordEvaluation(a, new, intact)
    PROVE  Onward /\ (Quiet \/ Writes(a, new))
<1>1. UNCHANGED <<status, routes, acknowledged, feedback>>
  BY DEF RecordEvaluation, Answer, Done, tables, L!Return, L!row
<1>2. records' = records \/ Writes(a, new)
  BY <1>1 DEF RecordEvaluation, Answer, Writes
<1> QED
  BY <1>1, <1>2, TablesKept DEF Quiet

\* Feedback is refused, known already, or counted; the host is told that it
\* is recorded only when it is.
LEMMA FeedbackStep ==
    ASSUME Typed, NEW f \in Payload, RecordFeedback(f) \/ RecordFeedbackUnanswered(f)
    PROVE  Onward /\ (Quiet \/ Counts(f))
<1>1. acknowledged' = acknowledged \/ (acknowledged' = acknowledged \cup {f} /\ reply' = "ok")
  BY DEF RecordFeedback, RecordFeedbackUnanswered
<1>2. SaveFeedback(f)
  BY DEF RecordFeedback, RecordFeedbackUnanswered
<1>3. UNCHANGED <<status, routes, records>>
  BY <1>2 DEF SaveFeedback, Answer, Done, tables, L!Return, L!row
<1>4. CASE feedback' = feedback /\ (reply' = "ok" => f \in Payloads)
  BY <1>1, <1>3, <1>4, TablesKept DEF Quiet
<1>5. CASE ~(feedback' = feedback /\ (reply' = "ok" => f \in Payloads))
  <2>1. Refused(f) = "ok" /\ feedback' = Append(feedback, [payload |-> f, key |-> ProfileKey(f)])
    BY <1>2, <1>5 DEF SaveFeedback, Answer, L!Return, SameFeedback, Payloads
  <2> QED
    BY <1>1, <1>3, <2>1, TablesKept DEF Counts
<1> QED
  BY <1>4, <1>5

\* Every call goes onward and has one of these effects.
LEMMA StepEffect ==
    ASSUME Typed, [Next]_vars
    PROVE  /\ Onward
           /\ \/ Quiet
              \/ \E a \in Artifacts, new \in Record : Writes(a, new)
              \/ \E f \in Payload : Counts(f)
<1>1. CASE UNCHANGED vars
  BY <1>1, TablesKept DEF vars, ledger, tables, Quiet
<1>2. CASE Next
  BY <1>2, RunTaskStep, ReserveForStep, EvaluationStep, FeedbackStep DEF Next
<1> QED
  BY <1>1, <1>2

-----------------------------------------------------------------------------
\* A record that was judged is not written again: its task has ended.
LEMMA JudgedRecordKept ==
    ASSUME NEW p, NEW key, Judgement(p, key),
           NEW a, NEW new, Writes(a, new), records \in [Artifacts -> Record \cup {None}],
           a \in Artifacts, p.artifact \in Artifacts
    PROVE  records'[p.artifact] = records[p.artifact]
<1>1. CASE p.artifact # a
  BY <1>1 DEF Writes
<1>2. CASE p.artifact = a
  <2>1. /\ records[a] # None /\ records[a].task = p.task
        /\ status[p.task] \in L!Terminal /\ status[new.task] = "running"
    BY <1>2 DEF Judgement, Writes, Ended, Running
  <2>2. new.task # records[a].task
    BY <2>1 DEF L!Terminal
  <2>3. new = records[a] \/ [new EXCEPT !.critic = None] = records[a]
    BY <2>1 DEF Writes, Conflicts, MayReplace
  <2>4. [new EXCEPT !.critic = None].task = new.task
    OBVIOUS
  <2> QED
    BY <2>2, <2>3, <2>4
<1> QED
  BY <1>1, <1>2

\* A judgement stays what it was as long as its record does.
LEMMA JudgementKept ==
    ASSUME NEW p \in Payload, NEW key, Judgement(p, key), Onward,
           records'[p.artifact] = records[p.artifact]
    PROVE  Judgement(p, key)'
<1> DEFINE i == Judged(p)
<1>1. Judged(p)' = i
  BY DEF Judged
<1>2. p.task \in Tasks
  BY DEF Payload
<1>3. i \in 1..Len(routes'[p.task]) /\ routes'[p.task][i] = routes[p.task][i]
  BY <1>2 DEF Onward, Judgement, RoleFits
<1>4. ProfileKey(p)' = ProfileKey(p)
  BY <1>1, <1>3 DEF ProfileKey
<1>5. RoleFits(p.task, Judged(p), Critic(p))'
  BY <1>1, <1>3 DEF Judgement, RoleFits, Critic
<1>6. Ended(p.task)'
  BY <1>2 DEF Onward, Judgement, Ended
<1> QED
  BY <1>4, <1>5, <1>6 DEF Judgement, Critic

\* Accepted feedback is a judgement, and its artifact and kind are new.
LEMMA AcceptedIsJudgement ==
    ASSUME NEW f \in Payload, Refused(f) = "ok"
    PROVE  Judgement(f, ProfileKey(f)) /\ <<f.artifact, f.kind>> \notin Filed
<1>1. /\ records[f.artifact] # None
      /\ records[f.artifact].task = f.task
      /\ Ended(f.task)
      /\ Critic(f) => records[f.artifact].critic # None
      /\ RoleFits(f.task, Judged(f), Critic(f))
  BY DEF Refused, Critic
<1>2. ~\E saved \in Rows : /\ saved.payload.artifact = f.artifact
                           /\ saved.payload.kind = f.kind
  BY DEF Refused
<1> QED
  BY <1>1, <1>2 DEF Judgement, Filed

\* The key of accepted feedback names a model and a role.
LEMMA KeyTyped ==
    ASSUME NEW f \in Payload, Typed, Judgement(f, ProfileKey(f))
    PROVE  ProfileKey(f) \in Key
<1> DEFINE r == routes[f.task][Judged(f)]
<1>1. r \in Route \cup {Tool} /\ r.node \in Nodes
  BY DEF Judgement, RoleFits, Typed, Payload, Nodes
<1>2. r \in Route
  BY <1>1 DEF Tool, Nodes
<1>3. r.model \in Models /\ r.node \in Nodes /\ f.version \in Versions
  BY <1>2 DEF Route, Payload
<1> HIDE DEF r
<1> QED
  BY <1>3 DEF ProfileKey, Key, r

\* The rows after one more.
LEMMA RowsAppended ==
    ASSUME NEW S, feedback \in Seq(S), NEW x \in S, feedback' = Append(feedback, x)
    PROVE  /\ Rows' = Rows \cup {x}
           /\ Len(feedback') = Len(feedback) + 1
           /\ feedback' \in Seq(S)
<1>1. /\ Len(feedback') = Len(feedback) + 1 /\ Len(feedback) \in Nat
      /\ feedback' \in Seq(S)
      /\ \A k \in 1..Len(feedback) : feedback'[k] = feedback[k]
      /\ feedback'[Len(feedback) + 1] = x
  OBVIOUS
<1>2. 1..(Len(feedback) + 1) = 1..Len(feedback) \cup {Len(feedback) + 1}
  BY <1>1
<1> QED
  BY <1>1, <1>2 DEF Rows

\* A row holds a payload that names an artifact.
LEMMA RowsTyped ==
    ASSUME Typed, NEW f \in Rows
    PROVE  f.payload \in Payload /\ f.payload.artifact \in Artifacts
<1> DEFINE S == [payload : Payload, key : Key]
<1>1. feedback \in Seq(S)
  BY DEF Typed
<1>2. f \in S
  <2> HIDE DEF S
  <2> QED
    BY <1>1 DEF Rows
<1>3. f.payload \in Payload
  BY <1>2
<1> QED
  BY <1>3 DEF Payload

-----------------------------------------------------------------------------
\* The invariant is inductive.
THEOREM Inductive == Spec => []IInv
<1>1. ASSUME Init
      PROVE  IInv
  <2>1. Rows = {} /\ Len(feedback) = 0 /\ acknowledged = {}
    BY <1>1 DEF Init, Rows
  <2>2. Filed = {} /\ Payloads = {}
    BY <2>1 DEF Filed, Payloads
  <2>3. Typed
    BY <1>1 DEF Init, L!Init, Typed, L!Statuses
  <2> QED
    BY <2>1, <2>2, <2>3, FS_EmptySet DEF IInv, Counted
<1>2. ASSUME IInv, [Next]_vars
      PROVE  IInv'
  <2>0. Typed /\ Onward
    BY <1>2, StepEffect DEF IInv
  <2>1. \A f \in Rows : f.payload \in Payload /\ f.payload.artifact \in Artifacts
    BY <2>0, RowsTyped
  <2>2. ASSUME UNCHANGED feedback,
               \A f \in Rows : records'[f.payload.artifact] = records[f.payload.artifact],
               records' \in [Artifacts -> Record \cup {None}],
               acknowledged' \subseteq acknowledged \cup Payloads
        PROVE  IInv'
    <3>1. Rows' = Rows /\ Filed' = Filed /\ Payloads' = Payloads
      BY <2>2 DEF Rows, Filed, Payloads
    <3>2. acknowledged' \subseteq Payloads'
      BY <1>2, <2>2, <3>1 DEF IInv
    <3>3. Payloads \subseteq Payload
      BY <2>1 DEF Payloads
    <3>4. Typed'
      BY <2>0, <2>2, <3>1, <3>2, <3>3 DEF Typed, Onward
    <3>5. ASSUME NEW f \in Rows
          PROVE  Judgement(f.payload, f.key)'
      BY <1>2, <2>0, <2>1, <2>2, JudgementKept DEF IInv
    <3>6. Counted'
      BY <1>2, <2>2, <3>1 DEF IInv, Counted
    <3> QED
      BY <3>1, <3>2, <3>4, <3>5, <3>6 DEF IInv
  <2>3. CASE Quiet
    BY <2>0, <2>2, <2>3 DEF Quiet, Typed
  <2>4. ASSUME NEW a \in Artifacts, NEW new \in Record, Writes(a, new)
        PROVE  IInv'
    <3>1. records \in [Artifacts -> Record \cup {None}]
      BY <2>0 DEF Typed
    <3>2. \A f \in Rows : records'[f.payload.artifact] = records[f.payload.artifact]
      BY <1>2, <2>1, <2>4, <3>1, JudgedRecordKept DEF IInv
    <3>3. records' \in [Artifacts -> Record \cup {None}]
      BY <2>4, <3>1 DEF Writes
    <3> QED
      BY <2>2, <2>4, <3>2, <3>3 DEF Writes
  <2>5. ASSUME NEW p \in Payload, Counts(p)
        PROVE  IInv'
    <3> DEFINE x == [payload |-> p, key |-> ProfileKey(p)]
    <3>1. Judgement(p, ProfileKey(p)) /\ <<p.artifact, p.kind>> \notin Filed
      BY <2>5, AcceptedIsJudgement DEF Counts
    <3>2. x \in [payload : Payload, key : Key]
      BY <2>0, <3>1, KeyTyped
    <3>3. x.payload = p /\ x.key = ProfileKey(p)
      OBVIOUS
    <3>4. feedback' = Append(feedback, x) /\ feedback \in Seq([payload : Payload, key : Key])
      BY <2>0, <2>5 DEF Counts, Typed
    <3> HIDE DEF x
    <3>5. /\ Rows' = Rows \cup {x}
          /\ Len(feedback') = Len(feedback) + 1
          /\ feedback' \in Seq([payload : Payload, key : Key])
      BY <3>2, <3>4, RowsAppended
    <3>6. Filed' = Filed \cup {<<p.artifact, p.kind>>} /\ Payloads' = Payloads \cup {p}
      BY <3>3, <3>5 DEF Filed, Payloads
    <3>7. acknowledged' \subseteq Payloads' /\ acknowledged' \subseteq Payload
      BY <1>2, <2>5, <3>6 DEF IInv, Counts, Typed
    <3>8. Typed'
      BY <2>0, <2>5, <3>5, <3>7 DEF Typed, Onward, Counts
    <3>9. Counted'
      BY <1>2, <3>1, <3>5, <3>6, FS_AddElement DEF IInv, Counted
    <3>10. ASSUME NEW f \in Rows'
           PROVE  Judgement(f.payload, f.key)'
      <4>1. records' = records
        BY <2>5 DEF Counts
      <4>2. f.payload \in Payload /\ Judgement(f.payload, f.key)
        BY <1>2, <2>1, <3>1, <3>3, <3>5 DEF IInv
      <4> QED
        BY <2>0, <4>1, <4>2, JudgementKept
    <3> QED
      BY <3>7, <3>8, <3>9, <3>10 DEF IInv
  <2> QED
    BY <1>2, <2>0, <2>3, <2>4, <2>5, StepEffect
<1> QED
  BY <1>1, <1>2, PTL DEF Spec

\* Every judgement the host was told is recorded is counted once, and
\* credited to the attempt that did the work.
THEOREM CreditIsRight == Spec => []CreditedOnce
<1>1. ASSUME IInv
      PROVE  CreditedOnce
  <2>1. ASSUME NEW f \in Rows
        PROVE  LET record == records[f.payload.artifact]
                   work   == routes[record.task][Judged(f.payload)]
               IN  /\ record.task = f.payload.task
                   /\ f.key.model = work.model
                   /\ work.node = IF f.payload.kind = "critic_correctness" THEN "critic"
                                                                           ELSE "generator"
    <3>1. Judgement(f.payload, f.key)
      BY <1>1 DEF IInv
    <3> QED
      BY <3>1 DEF Judgement, RoleFits, ProfileKey, Critic
  <2>2. /\ acknowledged \subseteq {f.payload : f \in Rows}
        /\ Cardinality({<<f.payload.artifact, f.payload.kind>> : f \in Rows}) = Len(feedback)
    BY <1>1 DEF IInv, Counted, Filed, Payloads
  <2> QED
    BY <2>1, <2>2 DEF CreditedOnce
<1> QED
  BY <1>1, Inductive, PTL

\* A candidate keeps its evidence and the first verdict of a critic, and what
\* was judged is not written again.
THEOREM RecordsAreFinal == Spec => RecordsFinal
<1> DEFINE Final == \A a \in Artifacts : records[a] # None =>
          /\ [records'[a] EXCEPT !.critic = None] = [records[a] EXCEPT !.critic = None]
          /\ \/ records[a].critic # None
             \/ \E f \in Rows : f.payload.artifact = a
             => records'[a] = records[a]
<1>1. ASSUME IInv, [Next]_vars
      PROVE  Final
  <2>1. CASE records' = records
    BY <2>1
  <2>2. ASSUME NEW b \in Artifacts, NEW new \in Record, Writes(b, new)
        PROVE  Final
    <3>0. records \in [Artifacts -> Record \cup {None}]
      BY <1>1 DEF IInv, Typed
    <3>1. ASSUME NEW a \in Artifacts, records[a] # None
          PROVE  [records'[a] EXCEPT !.critic = None] = [records[a] EXCEPT !.critic = None]
      <4>1. CASE records'[a] = records[a]
        BY <4>1
      <4>2. CASE records'[a] # records[a]
        <5>1. a = b /\ records'[a] = new
          BY <2>2, <3>0, <4>2 DEF Writes
        <5>2. [new EXCEPT !.critic = None] = records[a]
          BY <2>2, <3>1, <4>2, <5>1 DEF Writes, Conflicts, MayReplace
        <5>3. [[new EXCEPT !.critic = None] EXCEPT !.critic = None] = [new EXCEPT !.critic = None]
          BY DEF Record
        <5> QED
          BY <5>1, <5>2, <5>3
      <4> QED
        BY <4>1, <4>2
    <3>2. ASSUME NEW a \in Artifacts, records[a] # None, records[a].critic # None
          PROVE  records'[a] = records[a]
      BY <2>2, <3>0, <3>2 DEF Writes, Conflicts, MayReplace
    <3>3. ASSUME NEW f \in Rows
          PROVE  records'[f.payload.artifact] = records[f.payload.artifact]
      <4>1. f.payload.artifact \in Artifacts
        BY <1>1, RowsTyped DEF IInv
      <4>2. Judgement(f.payload, f.key)
        BY <1>1 DEF IInv
      <4> QED
        BY <2>2, <3>0, <4>1, <4>2, JudgedRecordKept
    <3> QED
      BY <3>1, <3>2, <3>3
  <2> QED
    BY <1>1, <2>1, <2>2, StepEffect DEF IInv, Quiet, Counts
<1> QED
  BY <1>1, Inductive, PTL DEF Spec, RecordsFinal

\* While the revision stays the same, so do the quality samples, and it never
\* goes back.
THEOREM RevisionPinsQuality == Spec => RevisionIdentifiesQuality
<1>1. ASSUME IInv, [Next]_vars
      PROVE  Revision' >= Revision /\ (Revision' = Revision => Quality' = Quality)
  <2>0. feedback \in Seq([payload : Payload, key : Key]) /\ Len(feedback) \in Nat
    BY <1>1 DEF IInv, Typed
  <2>1. CASE feedback' = feedback
    BY <2>0, <2>1 DEF Revision, Quality, Rows
  <2>2. CASE \E p \in Payload : Counts(p)
    <3>1. Len(feedback') = Len(feedback) + 1
      BY <2>0, <2>2 DEF Counts
    <3> QED
      BY <2>0, <3>1 DEF Revision
  <2> QED
    BY <1>1, <2>1, <2>2, StepEffect DEF IInv, Quiet, Writes
<1> QED
  BY <1>1, Inductive, PTL DEF Spec, RevisionIdentifiesQuality

-----------------------------------------------------------------------------
(***************************************************************************)
(* The books.  The calls of this module leave the columns of the ledger    *)
(* alone, or are calls of the ledger.                                      *)
(***************************************************************************)
Book == INSTANCE LedgerProofs

\* A reply is all that changes.
RepliesOnly == UNCHANGED tables /\ reply' \in L!Replies

\* The two instances of the ledger are one ledger.
LEMMA SameBook ==
    /\ L!Next <=> Book!Next
    /\ L!Init <=> Book!Init
    /\ L!TypeOK <=> Book!TypeOK
    /\ L!Replies = Book!Replies
<1>1. L!Next <=> Book!Next
  BY DEF L!Next, Book!Next, L!CreateSubmission, Book!CreateSubmission, L!SavePlan, Book!SavePlan,
         L!Checkpoint, Book!Checkpoint, L!Finish, Book!Finish, L!Reserve, Book!Reserve,
         L!Settle, Book!Settle, L!Reconcile, Book!Reconcile, L!SettleAttempt, Book!SettleAttempt,
         L!Return, Book!Return, L!row, Book!row, L!columns, Book!columns,
         L!Available, Book!Available, L!Excess, Book!Excess, L!HasRoom, Book!HasRoom,
         L!Accepts, Book!Accepts, L!AlreadySettled, Book!AlreadySettled, L!Repeated, Book!Repeated,
         L!Release, Book!Release, L!Overrun, Book!Overrun, L!Resolve, Book!Resolve,
         L!Unknown, Book!Unknown, L!Terminal, Book!Terminal
<1>2. L!Init <=> Book!Init
  BY DEF L!Init, Book!Init
<1>3. L!Replies = Book!Replies
  BY DEF L!Replies, Book!Replies
<1>4. L!TypeOK <=> Book!TypeOK
  BY <1>3 DEF L!TypeOK, Book!TypeOK, L!Statuses, Book!Statuses, L!Terminal, Book!Terminal,
         L!Attempt, Book!Attempt, L!Evidence, Book!Evidence, L!Unknown, Book!Unknown
<1> QED
  BY <1>1, <1>2, <1>3, <1>4

\* Every call is one of the ledger's, or replies only.
LEMMA CallsOfTheLedger ==
    ASSUME [Next]_vars, reply \in L!Replies
    PROVE  L!Next \/ RepliesOnly
<1>1. CASE UNCHANGED vars
  BY <1>1 DEF vars, ledger, tables, RepliesOnly
<1>2. ASSUME NEW t \in Tasks, RunTask(t)
      PROVE  L!Next
  BY <1>2, FeedbackAssumption DEF RunTask, L!Next
<1>3. ASSUME NEW t \in Tasks, NEW route \in Route \cup {Tool}, ReserveFor(t, route)
      PROVE  L!Next
  BY <1>3 DEF ReserveFor, L!Next
<1>4. ASSUME NEW kind \in L!Replies, Answer(kind) \/ Done
      PROVE  RepliesOnly
  BY <1>4 DEF Answer, Done, L!Return, L!row, L!columns, tables, RepliesOnly, L!Replies
<1>5. ASSUME NEW a \in Artifacts, NEW new \in Record, NEW intact \in BOOLEAN,
             RecordEvaluation(a, new, intact)
      PROVE  RepliesOnly
  BY <1>4, <1>5 DEF RecordEvaluation, L!Replies
<1>6. ASSUME NEW f \in Payload, RecordFeedback(f) \/ RecordFeedbackUnanswered(f)
      PROVE  RepliesOnly
  <2>1. Refused(f) \in L!Replies
    BY DEF Refused, L!Replies
  <2> QED
    BY <1>4, <1>6, <2>1 DEF RecordFeedback, RecordFeedbackUnanswered, SaveFeedback, L!Replies
<1> QED
  BY <1>1, <1>2, <1>3, <1>5, <1>6 DEF Next

\* What holds of the ledger for arbitrary callers holds among these.
LEMMA BooksKept == Spec => []Book!IInv
<1>0. Book!LedgerAssumption
  BY FeedbackAssumption DEF Book!LedgerAssumption
<1>1. Init => Book!IInv
  BY <1>0, SameBook, Book!InitInvariant DEF Init
<1>2. ASSUME Book!IInv, [Next]_vars
      PROVE  Book!IInv'
  <2>1. reply \in L!Replies
    BY <1>2, SameBook DEF Book!IInv, Book!TypeOK
  <2>2. CASE L!Next
    BY <1>0, <1>2, <2>2, SameBook, Book!StepInvariant
  <2>3. CASE RepliesOnly
    <3>1. Book!TypeOK'
      BY <1>2, <2>3, SameBook DEF RepliesOnly, tables, Book!IInv, Book!TypeOK
    <3> QED
      BY <1>0, <1>2, <2>3, <3>1, Book!QuietStep DEF RepliesOnly, tables
  <2> QED
    BY <1>2, <2>1, <2>2, <2>3, CallsOfTheLedger
<1> QED
  BY <1>1, <1>2, PTL DEF Spec

\* The types of the tables: a route is kept with every attempt, a record
\* names an attempt, and a judgement a model and a role.
THEOREM TypeCorrect == Spec => []TypeOK
<1>1. IInv /\ Book!IInv => TypeOK
  BY SameBook DEF IInv, Typed, Book!IInv, TypeOK
<1> QED
  BY <1>1, Inductive, BooksKept, PTL

-----------------------------------------------------------------------------
(***************************************************************************)
(* Sums over finite sets.  SumFunction takes the members in the order    *)
(* CHOOSE gives them; the lemmas show that the order does not matter.      *)
(***************************************************************************)
Sum(f, S) == SumFunctionOnSet(f, S)

First(s) == CHOOSE x \in s : TRUE
Rest(s)  == s \ {First(s)}

\* g is the iteration that defines a sum, on the members of P.
Iterates(g, f, P) ==
    g = [s \in P |-> IF s = {} THEN 0 ELSE f[First(s)] + g[Rest(s)]]

\* A set that is not empty has a first member, and one less without it.
LEMMA RestIsSmaller ==
    ASSUME NEW s, IsFiniteSet(s), s # {}
    PROVE  /\ First(s) \in s /\ Rest(s) \subseteq s /\ IsFiniteSet(Rest(s))
           /\ Cardinality(Rest(s)) = Cardinality(s) - 1
           /\ Cardinality(s) \in Nat /\ Cardinality(Rest(s)) \in Nat
<1>1. First(s) \in s
  BY DEF First
<1>2. IsFiniteSet(Rest(s)) /\ Cardinality(Rest(s)) = Cardinality(s) - 1
  BY <1>1, FS_RemoveElement, Zenon DEF Rest
<1>3. Cardinality(s) \in Nat /\ Cardinality(Rest(s)) \in Nat
  BY <1>2, FS_CardinalityType, Zenon
<1> QED
  BY <1>1, <1>2, <1>3 DEF Rest

\* Induction over finite sets, by their size: T is what holds of the
\* subsets of S.
LEMMA SizeInduction ==
    ASSUME NEW S, IsFiniteSet(S), NEW T,
           \A s \in SUBSET S : (\A r \in SUBSET S : Cardinality(r) < Cardinality(s) => r \in T)
                                   => s \in T
    PROVE  \A s \in SUBSET S : s \in T
<1> DEFINE Bad == {Cardinality(s) : s \in {s \in SUBSET S : s \notin T}}
<1>0. Book!LedgerAssumption
  BY FeedbackAssumption DEF Book!LedgerAssumption
<1>1. \A s \in SUBSET S : Cardinality(s) \in Nat
  BY FS_Subset, FS_CardinalityType
<1>2. Bad \subseteq Nat
  BY <1>1
<1> SUFFICES ASSUME Bad # {}
             PROVE  FALSE
  OBVIOUS
<1>3. PICK k \in Bad : \A j \in Bad : k <= j
  <2> HIDE DEF Bad
  <2> QED
    BY <1>0, <1>2, Book!LeastMember, Zenon
<1>4. PICK s \in SUBSET S : s \notin T /\ k = Cardinality(s)
  BY <1>3
<1>5. \A r \in SUBSET S : Cardinality(r) < Cardinality(s) => r \in T
  <2> SUFFICES ASSUME NEW r \in SUBSET S, r \notin T, Cardinality(r) < Cardinality(s)
               PROVE  FALSE
    OBVIOUS
  <2>1. Cardinality(r) \in Bad
    OBVIOUS
  <2>2. k <= Cardinality(r)
    BY <1>3, <2>1
  <2> QED
    BY <1>1, <1>4, <2>2
<1> QED
  BY <1>4, <1>5

\* The iteration exists.
LEMMA IterationExists ==
    ASSUME NEW f, NEW S, IsFiniteSet(S)
    PROVE  \E g : Iterates(g, f, SUBSET S)
<1> DEFINE Small(k) == {s \in SUBSET S : Cardinality(s) <= k}
           T == {k \in Nat : \E g : Iterates(g, f, Small(k))}
<1>0. Book!LedgerAssumption
  BY FeedbackAssumption DEF Book!LedgerAssumption
<1>1. \A s \in SUBSET S : IsFiniteSet(s) /\ Cardinality(s) \in Nat
  BY FS_Subset, FS_CardinalityType
<1>2. 0 \in T
  <2>1. \A s \in Small(0) : s = {}
    BY <1>1, FS_EmptySet
  <2>2. Iterates([s \in Small(0) |-> 0], f, Small(0))
    BY <2>1 DEF Iterates
  <2> QED
    BY <2>2
<1>3. ASSUME NEW k \in Nat, k \in T
      PROVE  k + 1 \in T
  <2>1. PICK g : Iterates(g, f, Small(k))
    BY <1>3
  <2>2. PICK h : h = [s \in Small(k + 1) |-> IF s = {} THEN 0 ELSE f[First(s)] + g[Rest(s)]]
    OBVIOUS
  <2>3. /\ \A s \in Small(k + 1) : s # {} => Rest(s) \in Small(k)
        /\ \A s \in Small(k) : s \in Small(k + 1)
    BY <1>1, RestIsSmaller
  <2> HIDE DEF Small
  <2>4. \A s \in Small(k) : h[s] = g[s]
    BY <2>1, <2>2, <2>3 DEF Iterates
  <2>5. [s \in Small(k + 1) |-> IF s = {} THEN 0 ELSE f[First(s)] + g[Rest(s)]]
           = [s \in Small(k + 1) |-> IF s = {} THEN 0 ELSE f[First(s)] + h[Rest(s)]]
    BY <2>3, <2>4
  <2>6. Iterates(h, f, Small(k + 1))
    BY <2>2, <2>5 DEF Iterates
  <2> QED
    BY <2>6
<1>4. Cardinality(S) \in Nat /\ Cardinality(S) \in T
  <2> HIDE DEF T
  <2>1. Cardinality(S) \in Nat
    BY FS_CardinalityType
  <2> QED
    BY <1>0, <1>2, <1>3, <2>1, Book!SetInduction
<1>5. Small(Cardinality(S)) = SUBSET S
  BY FS_Subset
<1> QED
  BY <1>4, <1>5

\* Iterations over two sets agree on the subsets of both.
LEMMA IterationsAgree ==
    ASSUME NEW e, NEW f, NEW g, NEW h, NEW R, NEW S, NEW Q, IsFiniteSet(Q), Q \subseteq R, Q \subseteq S,
           Iterates(g, e, SUBSET R), Iterates(h, f, SUBSET S), \A x \in Q : e[x] = f[x]
    PROVE  g[Q] = h[Q]
<1> DEFINE T == {s \in SUBSET Q : g[s] = h[s]}
<1>1. ASSUME NEW s \in SUBSET Q,
             \A r \in SUBSET Q : Cardinality(r) < Cardinality(s) => r \in T
      PROVE  s \in T
  <2>1. /\ g[s] = IF s = {} THEN 0 ELSE e[First(s)] + g[Rest(s)]
        /\ h[s] = IF s = {} THEN 0 ELSE f[First(s)] + h[Rest(s)]
    BY DEF Iterates
  <2>2. CASE s # {}
    <3>1. /\ First(s) \in s /\ Rest(s) \subseteq s
          /\ Cardinality(Rest(s)) = Cardinality(s) - 1
          /\ Cardinality(s) \in Nat
      BY <2>2, FS_Subset, RestIsSmaller
    <3>2. Rest(s) \in T
      BY <1>1, <3>1
    <3> QED
      BY <2>1, <2>2, <3>1, <3>2
  <2> QED
    BY <2>1, <2>2
<1> HIDE DEF T
<1>2. Q \in T
  BY <1>1, SizeInduction, Zenon
<1> QED
  BY <1>2 DEF T

\* A sum is the last value of its iteration.
LEMMA SumIsIteration ==
    ASSUME NEW f, NEW S, IsFiniteSet(S)
    PROVE  \E g : Iterates(g, f, SUBSET S) /\ Sum(f, S) = g[S]
<1> DEFINE it == CHOOSE g : Iterates(g, f, SUBSET S)
<1>1. Sum(f, S) = it[S]
  BY DEF Sum, SumFunctionOnSet, FoldFunctionOnSet, MapThenFoldSet, Iterates, First, Rest
<1>2. Iterates(it, f, SUBSET S)
  BY IterationExists
<1> QED
  BY <1>1, <1>2

\* The sum of nothing.
LEMMA SumEmpty ==
    ASSUME NEW f
    PROVE  Sum(f, {}) = 0
<1>1. PICK g : Iterates(g, f, SUBSET {}) /\ Sum(f, {}) = g[{}]
  BY SumIsIteration, FS_EmptySet
<1>2. g[{}] = 0
  BY <1>1 DEF Iterates
<1> QED
  BY <1>1, <1>2

\* Functions that agree on a set have the same sum over it.
LEMMA SumSame ==
    ASSUME NEW e, NEW f, NEW S, IsFiniteSet(S), \A x \in S : e[x] = f[x]
    PROVE  Sum(e, S) = Sum(f, S)
<1>1. PICK g : Iterates(g, e, SUBSET S) /\ Sum(e, S) = g[S]
  BY SumIsIteration
<1>2. PICK h : Iterates(h, f, SUBSET S) /\ Sum(f, S) = h[S]
  BY SumIsIteration
<1> QED
  BY <1>1, <1>2, IterationsAgree

\* The first member and the rest.
LEMMA SumFirst ==
    ASSUME NEW f, NEW S, IsFiniteSet(S), S # {}
    PROVE  Sum(f, S) = f[First(S)] + Sum(f, Rest(S))
<1>1. Rest(S) \subseteq S /\ IsFiniteSet(Rest(S))
  BY RestIsSmaller
<1>2. PICK g : Iterates(g, f, SUBSET S) /\ Sum(f, S) = g[S]
  BY SumIsIteration
<1>3. PICK h : Iterates(h, f, SUBSET Rest(S)) /\ Sum(f, Rest(S)) = h[Rest(S)]
  BY <1>1, SumIsIteration
<1>4. g[Rest(S)] = h[Rest(S)]
  BY <1>1, <1>2, <1>3, IterationsAgree
<1>5. g[S] = f[First(S)] + g[Rest(S)]
  BY <1>2 DEF Iterates
<1> QED
  BY <1>2, <1>3, <1>4, <1>5

\* A sum of integers is one.
LEMMA SumType ==
    ASSUME NEW f, NEW S, IsFiniteSet(S), \A x \in S : f[x] \in Int
    PROVE  Sum(f, S) \in Int
<1> DEFINE T == {s \in SUBSET S : Sum(f, s) \in Int}
<1>1. ASSUME NEW s \in SUBSET S,
             \A r \in SUBSET S : Cardinality(r) < Cardinality(s) => r \in T
      PROVE  s \in T
  <2>1. CASE s = {}
    BY <2>1, SumEmpty
  <2>2. CASE s # {}
    <3>1. IsFiniteSet(s)
      BY FS_Subset
    <3>2. /\ First(s) \in S /\ Rest(s) \in SUBSET S
          /\ Cardinality(Rest(s)) < Cardinality(s)
      BY <2>2, <3>1, RestIsSmaller
    <3>3. Sum(f, Rest(s)) \in Int
      BY <1>1, <3>2
    <3> QED
      BY <2>2, <3>1, <3>2, <3>3, SumFirst
  <2> QED
    BY <2>1, <2>2
<1> HIDE DEF T
<1>2. S \in T
  BY <1>1, SizeInduction, Zenon
<1> QED
  BY <1>2 DEF T

\* Any member and the others: the order does not matter.
LEMMA SumRemove ==
    ASSUME NEW f, NEW S, IsFiniteSet(S), \A x \in S : f[x] \in Int, NEW y \in S
    PROVE  Sum(f, S) = f[y] + Sum(f, S \ {y})
<1> DEFINE T == {s \in SUBSET S : \A x \in s : Sum(f, s) = f[x] + Sum(f, s \ {x})}
<1>1. ASSUME NEW s \in SUBSET S,
             \A r \in SUBSET S : Cardinality(r) < Cardinality(s) => r \in T
      PROVE  s \in T
  <2> SUFFICES ASSUME NEW x \in s
               PROVE  Sum(f, s) = f[x] + Sum(f, s \ {x})
    OBVIOUS
  <2> DEFINE z == First(s)
  <2>1. IsFiniteSet(s)
    BY FS_Subset
  <2>2. /\ z \in s /\ Rest(s) = s \ {z} /\ Sum(f, s) = f[z] + Sum(f, s \ {z})
        /\ Cardinality(s \ {z}) < Cardinality(s)
    <3>1. /\ z \in s /\ Cardinality(Rest(s)) = Cardinality(s) - 1 /\ Cardinality(s) \in Nat
          /\ Sum(f, s) = f[z] + Sum(f, Rest(s))
      BY <2>1, SumFirst, RestIsSmaller
    <3> QED
      BY <3>1 DEF Rest
  <2>3. CASE x = z
    BY <2>2, <2>3
  <2>4. CASE x # z
    <3>1. /\ IsFiniteSet(s \ {x}) /\ Cardinality(s \ {x}) < Cardinality(s)
          /\ IsFiniteSet((s \ {x}) \ {z})
      <4>1. IsFiniteSet(s \ {x}) /\ Cardinality(s \ {x}) = Cardinality(s) - 1
        BY <2>1, FS_RemoveElement, Zenon
      <4>2. Cardinality(s) \in Nat /\ IsFiniteSet((s \ {x}) \ {z})
        BY <2>1, <4>1, FS_CardinalityType, FS_Subset
      <4> QED
        BY <4>1, <4>2
    <3> HIDE DEF z
    <3>2. Sum(f, s \ {z}) = f[x] + Sum(f, (s \ {z}) \ {x})
      BY <1>1, <2>2, <2>4
    <3>3. Sum(f, s \ {x}) = f[z] + Sum(f, (s \ {x}) \ {z})
      BY <1>1, <2>2, <2>4, <3>1
    <3>4. (s \ {z}) \ {x} = (s \ {x}) \ {z}
      OBVIOUS
    <3>5. f[x] \in Int /\ f[z] \in Int /\ Sum(f, (s \ {x}) \ {z}) \in Int
      BY <2>2, <3>1, SumType
    <3>6. Sum(f, s \ {z}) = f[x] + Sum(f, (s \ {x}) \ {z})
      BY <3>2, <3>4
    <3> QED
      BY <2>2, <3>3, <3>5, <3>6
  <2> QED
    BY <2>3, <2>4
<1> HIDE DEF T
<1>2. S \in T
  BY <1>1, SizeInduction, Zenon
<1> QED
  BY <1>2 DEF T

\* Changing one value changes the sum by as much.
LEMMA SumUpdate ==
    ASSUME NEW e, NEW f, NEW S, IsFiniteSet(S), NEW y \in S,
           \A x \in S : e[x] \in Int /\ f[x] \in Int,
           \A x \in S : x # y => e[x] = f[x]
    PROVE  Sum(f, S) = Sum(e, S) + f[y] - e[y]
<1>1. IsFiniteSet(S \ {y})
  BY FS_Subset
<1>2. Sum(e, S \ {y}) = Sum(f, S \ {y}) /\ Sum(f, S \ {y}) \in Int
  BY <1>1, SumSame, SumType
<1>3. Sum(f, S) = f[y] + Sum(f, S \ {y}) /\ Sum(e, S) = e[y] + Sum(e, S \ {y})
  BY SumRemove
<1> QED
  BY <1>2, <1>3

\* A sum of zeros is zero.
LEMMA SumOfZeros ==
    ASSUME NEW f, NEW S, IsFiniteSet(S), \A x \in S : f[x] = 0
    PROVE  Sum(f, S) = 0
<1> DEFINE T == {s \in SUBSET S : Sum(f, s) = 0}
<1>1. ASSUME NEW s \in SUBSET S,
             \A r \in SUBSET S : Cardinality(r) < Cardinality(s) => r \in T
      PROVE  s \in T
  <2>1. CASE s = {}
    BY <2>1, SumEmpty
  <2>2. CASE s # {}
    <3>1. IsFiniteSet(s)
      BY FS_Subset
    <3>2. /\ First(s) \in S /\ Rest(s) \in SUBSET S
          /\ Cardinality(Rest(s)) < Cardinality(s)
      BY <2>2, <3>1, RestIsSmaller
    <3> QED
      BY <1>1, <2>2, <3>1, <3>2, SumFirst
  <2> QED
    BY <2>1, <2>2
<1> HIDE DEF T
<1>2. S \in T
  BY <1>1, SizeInduction, Zenon
<1> QED
  BY <1>2 DEF T

\* A sum in groups is the sum of all.
LEMMA SumInGroups ==
    ASSUME NEW f, NEW C, IsFiniteSet(C), \A c \in C : f[c] \in Int,
           NEW G, IsFiniteSet(G), NEW r, \A c \in C : r[c] \in G
    PROVE  Sum([g \in G |-> Sum(f, {c \in C : r[c] = g})], G) = Sum(f, C)
<1> DEFINE Grouped(s) == [g \in G |-> Sum(f, {c \in s : r[c] = g})]
           T == {s \in SUBSET C : Sum(Grouped(s), G) = Sum(f, s)}
<1>0. \A s \in SUBSET C : \A g \in G : Grouped(s)[g] \in Int
  <2> SUFFICES ASSUME NEW s \in SUBSET C, NEW g \in G
               PROVE  Sum(f, {c \in s : r[c] = g}) \in Int
    OBVIOUS
  <2>1. IsFiniteSet({c \in s : r[c] = g})
    BY FS_Subset
  <2> QED
    BY <2>1, SumType
<1>1. ASSUME NEW s \in SUBSET C,
             \A q \in SUBSET C : Cardinality(q) < Cardinality(s) => q \in T
      PROVE  s \in T
  <2>0. IsFiniteSet(s)
    BY FS_Subset
  <2>1. CASE s = {}
    <3>1. \A g \in G : Grouped(s)[g] = 0
      BY <2>1, SumEmpty
    <3>2. Sum(Grouped(s), G) = 0
      <4> HIDE DEF Grouped
      <4> QED
        BY <3>1, SumOfZeros
    <3> QED
      BY <2>1, <3>2, SumEmpty
  <2>2. CASE s # {}
    <3> DEFINE y == First(s)
               q == s \ {y}
    <3>1. /\ y \in s /\ q \in SUBSET C /\ Cardinality(q) < Cardinality(s)
          /\ Sum(f, s) = f[y] + Sum(f, q)
      <4>1. /\ y \in s /\ Cardinality(Rest(s)) = Cardinality(s) - 1 /\ Cardinality(s) \in Nat
            /\ Sum(f, s) = f[y] + Sum(f, Rest(s))
        BY <2>0, <2>2, SumFirst, RestIsSmaller
      <4> QED
        BY <4>1 DEF Rest
    <3> HIDE DEF y
    <3>2. Sum(Grouped(q), G) = Sum(f, q)
      BY <1>1, <3>1
    <3>3. \A g \in G : g # r[y] => Grouped(s)[g] = Grouped(q)[g]
      <4> SUFFICES ASSUME NEW g \in G, g # r[y]
                   PROVE  {c \in s : r[c] = g} = {c \in q : r[c] = g}
        BY Zenon
      <4> QED
        OBVIOUS
    <3>4. Grouped(s)[r[y]] = f[y] + Grouped(q)[r[y]]
      <4> DEFINE M == {c \in s : r[c] = r[y]}
      <4>1. IsFiniteSet(M) /\ y \in M /\ \A c \in M : f[c] \in Int
        BY <2>0, <3>1, FS_Subset
      <4>2. M \ {y} = {c \in q : r[c] = r[y]}
        OBVIOUS
      <4>3. r[y] \in G
        BY <3>1
      <4>4. Sum(f, M) = f[y] + Sum(f, M \ {y})
        <5> HIDE DEF M
        <5> QED
          BY <4>1, SumRemove
      <4> QED
        BY <4>2, <4>3, <4>4
    <3>5. r[y] \in G /\ f[y] \in Int
      BY <3>1
    <3>6. /\ \A g \in G : Grouped(s)[g] \in Int /\ Grouped(q)[g] \in Int
      BY <1>0, <3>1
    <3>7. Sum(f, q) \in Int
      BY <3>1, FS_Subset, SumType
    <3> HIDE DEF Grouped, q
    <3>8. Sum(Grouped(s), G) = Sum(Grouped(q), G) + Grouped(s)[r[y]] - Grouped(q)[r[y]]
      BY <3>3, <3>5, <3>6, SumUpdate
    <3> QED
      BY <3>1, <3>2, <3>4, <3>5, <3>6, <3>7, <3>8
  <2> QED
    BY <2>1, <2>2
<1> HIDE DEF T
<1>2. C \in T
  BY <1>1, SizeInduction, Zenon
<1> QED
  BY <1>2 DEF T

\* The operator of the metrics is such a sum.
LEMMA SumOfFunction ==
    ASSUME NEW f
    PROVE  SumFunction(f) = Sum(f, DOMAIN f)
BY DEF SumFunction, Sum

-----------------------------------------------------------------------------
(***************************************************************************)
(* The metrics.                                                            *)
(***************************************************************************)
Cells(t) == {t} \X (1..Len(attempts[t]))
All      == {c \in Tasks \X (1..MaxCalls) : c[2] <= Len(attempts[c[1]])}

\* The sum over a task's calls, by their numbers.
LEMMA SumIsTotal ==
    ASSUME NEW t, NEW n \in Nat, NEW f, NEW h,
           \A i \in 1..n : h[i] \in Nat /\ h[i] = f[<<t, i>>]
    PROVE  Sum(f, {t} \X (1..n)) = Book!Total(h, n)
<1> DEFINE S == {m \in Nat : m <= n => Sum(f, {t} \X (1..m)) = Book!Total(h, m)}
<1>0. Book!LedgerAssumption
  BY FeedbackAssumption DEF Book!LedgerAssumption
<1>1. 0 \in S
  <2>1. {t} \X (1..0) = {}
    OBVIOUS
  <2> QED
    BY <1>0, <2>1, SumEmpty, Book!TotalZero
<1>2. ASSUME NEW m \in Nat, m \in S
      PROVE  m + 1 \in S
  <2>1. CASE m + 1 <= n
    <3> DEFINE P == {t} \X (1..(m + 1))
    <3>1. /\ <<t, m + 1>> \in P /\ P \ {<<t, m + 1>>} = {t} \X (1..m)
          /\ \A x \in P : f[x] \in Int
      BY <2>1
    <3>2. IsFiniteSet(P)
      <4>1. IsFiniteSet({t})
        BY FS_Singleton
      <4>2. m + 1 \in Int
        OBVIOUS
      <4>3. IsFiniteSet(1..(m + 1))
        BY <4>2, FS_Interval
      <4> QED
        BY <4>1, <4>3, FS_Product
    <3> HIDE DEF P
    <3>3. Sum(f, P) = f[<<t, m + 1>>] + Sum(f, {t} \X (1..m))
      BY <3>1, <3>2, SumRemove
    <3>4. Book!Total(h, m + 1) = Book!Total(h, m) + h[m + 1]
      BY <1>0, Book!TotalStep
    <3>5. Book!Total(h, m) \in Nat
      <4>0. \A i \in 1..m : i \in 1..n
        BY <2>1
      <4>1. \A i \in 1..m : h[i] \in Nat
        BY <4>0
      <4> QED
        BY <1>0, <4>1, Book!TotalType
    <3>6. Sum(f, {t} \X (1..m)) = Book!Total(h, m)
      BY <1>2, <2>1
    <3>7. f[<<t, m + 1>>] = h[m + 1] /\ h[m + 1] \in Nat
      BY <2>1
    <3> QED
      BY <3>3, <3>4, <3>5, <3>6, <3>7 DEF P
  <2> QED
    BY <2>1
<1> HIDE DEF S
<1>3. n \in S
  BY <1>0, <1>1, <1>2, Book!SetInduction
<1> QED
  BY <1>3 DEF S

\* What a group of calls sums up to is what their tasks sum up to.
LEMMA SumByTask ==
    ASSUME Book!IInv, NEW f, NEW column,
           \A t \in Tasks : /\ column[t] = Sum(f, Cells(t))
                           /\ \A i \in 1..Len(attempts[t]) : f[<<t, i>>] \in Nat
    PROVE  /\ IsFiniteSet(All) /\ \A c \in All : f[c] \in Int
           /\ Sum(f, All) = Sum(column, Tasks)
<1>0. \A t \in Tasks : Len(attempts[t]) \in 0..MaxCalls
  BY FeedbackAssumption DEF Book!IInv, Book!CallLimit, Book!TypeOK
<1>1. IsFiniteSet(All)
  <2>1. IsFiniteSet(Tasks \X (1..MaxCalls))
    <3>1. IsFiniteSet(1..MaxCalls)
      BY FeedbackAssumption, FS_Interval
    <3> QED
      BY <3>1, FeedbackAssumption, FS_Product
  <2> QED
    BY <2>1, FS_Subset DEF All
<1>2. \A c \in All : c[1] \in Tasks /\ f[c] \in Int
  BY DEF All
<1> DEFINE r == [c \in All |-> c[1]]
           g == [t \in Tasks |-> Sum(f, {c \in All : r[c] = t})]
<1>3. Sum(g, Tasks) = Sum(f, All)
  <2>1. \A c \in All : r[c] \in Tasks
    BY <1>2
  <2> HIDE DEF r
  <2> QED
    BY <1>1, <1>2, <2>1, FeedbackAssumption, SumInGroups
<1>4. \A t \in Tasks : g[t] = column[t]
  <2> SUFFICES ASSUME NEW t \in Tasks
               PROVE  {c \in All : r[c] = t} = Cells(t)
    BY Zenon
  <2>1. ASSUME NEW c \in All, c[1] = t
        PROVE  c \in Cells(t)
    <3>1. c = <<t, c[2]>> /\ c[2] \in 1..MaxCalls /\ c[2] <= Len(attempts[t])
      BY <2>1 DEF All
    <3>2. c[2] \in 1..Len(attempts[t])
      BY <1>0, <3>1
    <3> QED
      BY <3>1, <3>2 DEF Cells
  <2>2. ASSUME NEW c \in Cells(t)
        PROVE  c \in All /\ c[1] = t
    BY <1>0, FeedbackAssumption DEF All, Cells
  <2> QED
    BY <2>1, <2>2
<1> HIDE DEF g
<1>5. Sum(g, Tasks) = Sum(column, Tasks)
  BY <1>4, FeedbackAssumption, SumSame
<1> QED
  BY <1>1, <1>2, <1>3, <1>5

\* What the calls of a task cost, and what is held for those whose cost is
\* not known, are its columns in the ledger.
LEMMA ColumnsByCall ==
    ASSUME Book!IInv, NEW t \in Tasks, NEW known, NEW held
    PROVE  (\A i \in 1..Len(attempts[t]) :
                /\ known[<<t, i>>] = KnownCost(attempts[t][i])
                /\ held[<<t, i>>] = UnresolvedReserved(attempts[t][i]))
           => /\ settled[t] = Sum(known, Cells(t)) /\ reserved[t] = Sum(held, Cells(t))
              /\ \A i \in 1..Len(attempts[t]) : /\ known[<<t, i>>] \in Nat
                                                 /\ held[<<t, i>>] \in Nat
<1>0. SUFFICES ASSUME \A i \in 1..Len(attempts[t]) :
                         /\ known[<<t, i>>] = KnownCost(attempts[t][i])
                         /\ held[<<t, i>>] = UnresolvedReserved(attempts[t][i])
               PROVE  /\ settled[t] = Sum(known, Cells(t)) /\ reserved[t] = Sum(held, Cells(t))
                      /\ \A i \in 1..Len(attempts[t]) : /\ known[<<t, i>>] \in Nat
                                                         /\ held[<<t, i>>] \in Nat
  OBVIOUS
<1> DEFINE s == attempts[t]
           paid == [i \in 1..Len(s) |-> Book!Paid(s[i])]
           kept == [i \in 1..Len(s) |-> Book!Held(s[i])]
<1>1. /\ s \in Seq(Book!Attempt) /\ Len(s) \in Nat
      /\ settled[t] = Book!TotalPaid(s) /\ reserved[t] = Book!TotalHeld(s)
      /\ \A i \in 1..Len(s) : s[i].state = "settled" <=> s[i].cost # Book!Unknown
  BY DEF Book!IInv, Book!TypeOK, Book!CostsKnown, Book!ColumnsMatch
<1> HIDE DEF s
<1>2. ASSUME NEW i \in 1..Len(s)
      PROVE  /\ paid[i] \in Nat /\ paid[i] = KnownCost(s[i])
             /\ kept[i] \in Nat /\ kept[i] = UnresolvedReserved(s[i])
  <2>1. s[i] \in Book!Attempt /\ (s[i].state = "settled" <=> s[i].cost # Book!Unknown)
    BY <1>1
  <2>2. /\ s[i].amount \in Nat /\ s[i].cost \in Nat \cup {Book!Unknown}
        /\ Book!Unknown = L!Unknown
    BY <2>1 DEF Book!Attempt, Book!Unknown, L!Unknown
  <2> QED
    BY <2>1, <2>2 DEF Book!Paid, Book!Held, KnownCost, UnresolvedReserved
<1>3. /\ Book!TotalPaid(s) = Book!Total(paid, Len(s))
      /\ Book!TotalHeld(s) = Book!Total(kept, Len(s))
  BY DEF Book!TotalPaid, Book!TotalHeld
<1> HIDE DEF paid, kept
<1>4. \A i \in 1..Len(s) : /\ paid[i] \in Nat /\ paid[i] = known[<<t, i>>]
                          /\ kept[i] \in Nat /\ kept[i] = held[<<t, i>>]
  BY <1>0, <1>2 DEF s
<1>5. PICK n \in Nat : n = Len(s)
  BY <1>1
<1>6. /\ \A i \in 1..n : paid[i] \in Nat /\ paid[i] = known[<<t, i>>]
      /\ \A i \in 1..n : kept[i] \in Nat /\ kept[i] = held[<<t, i>>]
  BY <1>4, <1>5
<1>7. Sum(known, {t} \X (1..n)) = Book!Total(paid, n)
  <2>1. PICK h : h = paid
    OBVIOUS
  <2>2. \A i \in 1..n : h[i] \in Nat /\ h[i] = known[<<t, i>>]
    BY <1>6, <2>1
  <2>3. Sum(known, {t} \X (1..n)) = Book!Total(h, n)
    BY <2>2, SumIsTotal
  <2> QED
    BY <2>1, <2>3
<1>8. Sum(held, {t} \X (1..n)) = Book!Total(kept, n)
  <2>1. PICK h : h = kept
    OBVIOUS
  <2>2. \A i \in 1..n : h[i] \in Nat /\ h[i] = held[<<t, i>>]
    BY <1>6, <2>1
  <2>3. Sum(held, {t} \X (1..n)) = Book!Total(h, n)
    BY <2>2, SumIsTotal
  <2> QED
    BY <2>1, <2>3
<1> QED
  BY <1>1, <1>3, <1>4, <1>5, <1>7, <1>8 DEF s, Cells

\* The costs in the metrics, over all nodes and models, are the ledger's.
THEOREM MetricsAreTheLedger == Spec => []MetricsBalance
<1>1. ASSUME Book!IInv
      PROVE  MetricsBalance
  <2> DEFINE known  == [c \in All |-> KnownCost(attempts[c[1]][c[2]])]
             held   == [c \in All |-> UnresolvedReserved(attempts[c[1]][c[2]])]
             route  == [c \in All |-> routes[c[1]][c[2]]]
             groups == {route[c] : c \in All}
             Of(g)  == {c \in All : route[c] = g}
  <2>1. DOMAIN settled = Tasks /\ DOMAIN reserved = Tasks
    BY <1>1 DEF Book!IInv, Book!TypeOK
  <2>2. ASSUME NEW t \in Tasks
        PROVE  /\ settled[t] = Sum(known, Cells(t)) /\ reserved[t] = Sum(held, Cells(t))
               /\ \A i \in 1..Len(attempts[t]) : /\ known[<<t, i>>] \in Nat
                                                  /\ held[<<t, i>>] \in Nat
    <3>1. Len(attempts[t]) \in 0..MaxCalls
      BY <1>1, FeedbackAssumption DEF Book!IInv, Book!CallLimit, Book!TypeOK
    <3>2. \A i \in 1..Len(attempts[t]) : <<t, i>> \in All
      BY <3>1, FeedbackAssumption DEF All
    <3>3. \A i \in 1..Len(attempts[t]) :
             /\ known[<<t, i>>] = KnownCost(attempts[t][i])
             /\ held[<<t, i>>] = UnresolvedReserved(attempts[t][i])
      BY <3>2
    <3> HIDE DEF known, held
    <3> QED
      BY <1>1, <3>3, ColumnsByCall
  <2>3. /\ IsFiniteSet(All) /\ IsFiniteSet(groups)
        /\ \A c \in All : known[c] \in Int /\ held[c] \in Int /\ route[c] \in groups
        /\ Sum(known, All) = Sum(settled, Tasks) /\ Sum(held, All) = Sum(reserved, Tasks)
    <3> HIDE DEF known, held
    <3>1. /\ IsFiniteSet(All) /\ \A c \in All : known[c] \in Int
          /\ Sum(known, All) = Sum(settled, Tasks)
      BY <1>1, <2>2, SumByTask
    <3>2. /\ \A c \in All : held[c] \in Int
          /\ Sum(held, All) = Sum(reserved, Tasks)
      <4>1. \A t \in Tasks : /\ reserved[t] = Sum(held, Cells(t))
                             /\ \A i \in 1..Len(attempts[t]) : held[<<t, i>>] \in Nat
        BY <2>2
      <4> QED
        BY <1>1, <4>1, SumByTask
    <3>3. IsFiniteSet(groups)
      <4>1. route \in Surjection(All, groups)
        BY DEF Surjection
      <4> QED
        BY <3>1, <4>1, FS_Surjection
    <3> QED
      BY <3>1, <3>2, <3>3
  <2>4. /\ DOMAIN CallStatistics = groups
        /\ \A g \in groups : /\ CallStatistics[g].known_cost = Sum(known, Of(g))
                              /\ CallStatistics[g].unresolved_reserved = Sum(held, Of(g))
    <3>1. groups = {routes[c[1]][c[2]] : c \in All}
      OBVIOUS
    <3>2. \A g : Of(g) = {c \in All : routes[c[1]][c[2]] = g}
      OBVIOUS
    <3>3. \A g : /\ SumFunction([c \in Of(g) |-> KnownCost(attempts[c[1]][c[2]])])
                       = Sum(known, Of(g))
                  /\ SumFunction([c \in Of(g) |-> UnresolvedReserved(attempts[c[1]][c[2]])])
                       = Sum(held, Of(g))
      <4> SUFFICES ASSUME NEW g
                   PROVE  /\ SumFunction([c \in Of(g) |-> KnownCost(attempts[c[1]][c[2]])])
                                = Sum(known, Of(g))
                          /\ SumFunction([c \in Of(g) |->
                                               UnresolvedReserved(attempts[c[1]][c[2]])])
                                = Sum(held, Of(g))
        OBVIOUS
      <4> DEFINE e == [c \in Of(g) |-> KnownCost(attempts[c[1]][c[2]])]
                 f == [c \in Of(g) |-> UnresolvedReserved(attempts[c[1]][c[2]])]
      <4>1. /\ DOMAIN e = Of(g) /\ DOMAIN f = Of(g)
            /\ \A c \in Of(g) : e[c] = known[c] /\ f[c] = held[c]
        OBVIOUS
      <4>2. IsFiniteSet(Of(g))
        BY <2>3, FS_Subset
      <4> HIDE DEF e, f, known, held, Of
      <4>3. Sum(e, Of(g)) = Sum(known, Of(g)) /\ Sum(f, Of(g)) = Sum(held, Of(g))
        BY <4>1, <4>2, SumSame
      <4>4. SumFunction(e) = Sum(e, Of(g)) /\ SumFunction(f) = Sum(f, Of(g))
        BY <4>1, SumOfFunction
      <4> QED
        BY <4>3, <4>4 DEF e, f
    <3> HIDE DEF known, held, route, groups, Of
    <3>4. CallStatistics = [g \in groups |->
             [attempts            |-> Cardinality(Of(g)),
              known_cost          |->
                 SumFunction([c \in Of(g) |-> KnownCost(attempts[c[1]][c[2]])]),
              unresolved_reserved |->
                 SumFunction([c \in Of(g) |-> UnresolvedReserved(attempts[c[1]][c[2]])])]]
      BY <3>1, <3>2 DEF CallStatistics, All
    <3> QED
      BY <3>3, <3>4
  <2> HIDE DEF known, held, route, groups
  <2>5. /\ Sum([g \in groups |-> Sum(known, {c \in All : route[c] = g})], groups)
              = Sum(known, All)
        /\ Sum([g \in groups |-> Sum(held, {c \in All : route[c] = g})], groups)
              = Sum(held, All)
    BY <2>3, SumInGroups
  <2>6. /\ [g \in groups |-> CallStatistics[g].known_cost]
              = [g \in groups |-> Sum(known, {c \in All : route[c] = g})]
        /\ [g \in groups |-> CallStatistics[g].unresolved_reserved]
              = [g \in groups |-> Sum(held, {c \in All : route[c] = g})]
    BY <2>4
  <2>7. /\ SumFunction([g \in groups |-> CallStatistics[g].known_cost]) = Sum(known, All)
        /\ SumFunction([g \in groups |-> CallStatistics[g].unresolved_reserved])
              = Sum(held, All)
    BY <2>5, <2>6, SumOfFunction
  <2> QED
    BY <2>1, <2>3, <2>4, <2>7, SumOfFunction DEF MetricsBalance
<1> QED
  BY <1>1, BooksKept, PTL
=============================================================================
