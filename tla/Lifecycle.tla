------------------------------ MODULE Lifecycle ------------------------------
(***************************************************************************)
(* Admission, concurrency slots and graceful close of one Engine           *)
(* (src/src/engine.rs).  Runs are run_input futures: they register under   *)
(* the lifecycle lock, queue for a slot, create their task's row, execute, *)
(* write the final status and let go of everything in the order Rust drops *)
(* their locals.  Closers are close() calls, serialised by close_gate,     *)
(* which host queries hold too.  A host may drop any of these futures at   *)
(* an await; a database operation that was already sent to the SQLite      *)
(* worker then happens or not, but never after a later one.                *)
(*                                                                         *)
(* What a run does between its row and its result is module TaskRun; here  *)
(* it ends with one of the outcomes run_input tells apart.                 *)
(***************************************************************************)
EXTENDS Integers, Sequences, FiniteSets

CONSTANTS
    Runs,            \* run_input calls
    Tasks,           \* task ids
    TaskOf,          \* the id each run submits; two runs may submit the same
    Closers,         \* close() calls, each of which may be repeated
    Queries,         \* recovery_records, record_feedback, evaluations, metrics
    MaxConcurrency,  \* config.max_concurrency
    Disturbed,       \* bound: runs that may be cancelled, dropped or too late
    MaxAbandons,     \* bound: close() futures the host drops
    MaxCloseFails    \* bound: times SQLite refuses to close

ASSUME LifecycleAssumption ==
    /\ TaskOf \in [Runs -> Tasks]
    /\ MaxConcurrency \in Nat \ {0}
    /\ Disturbed \subseteq Runs
    /\ MaxAbandons \in Nat
    /\ MaxCloseFails \in Nat
    /\ Closers \cap Queries = {}
    /\ "free" \notin Closers \cup Queries

VARIABLES
    closing, closed, active,   \* Lifecycle, behind its mutex
    permits, slotsClosed,      \* the slots semaphore
    queue,                     \* its waiters, first come first served
    notified,                  \* the permit stored in drained: Notify
    gate,                      \* who holds close_gate, or "free"
    run,                       \* where each run is
    outcome,                   \* what each run returned
    cancelled,                 \* runs whose token the host cancelled
    stopped,                   \* runs whose token close() cancelled
    expired,                   \* runs whose deadline less finalization passed
    row,                       \* the task rows: status and the run that made it
    closer,                    \* where each close() is
    query,                     \* where each query is
    connected, locked,         \* the SQLite connection and the file lock
    abandons, closeFails       \* how often the bounded faults happened

lifecycle == <<closing, closed, active>>
slots     == <<permits, slotsClosed, queue>>
progress  == <<run, outcome>>
tokens    == <<cancelled, stopped, expired>>
database  == <<connected, locked>>
host      == <<query, abandons, closeFails>>
vars      == <<lifecycle, slots, notified, gate, progress, tokens, row, closer,
               database, host>>

Free  == "free"
None  == "none"
NoRow == [status |-> "absent", owner |-> None]

Results  == {"completed", "failed", "cancelled"}
Outcomes == Results \cup {None, "closed", "queue_cancelled", "queue_deadline",
                          "rejected", "storage", "abandoned"}

\* Where a run's deadline matters, where its future can be dropped, and
\* where it uses the database.
Admission == {"queued", "admitting"}
Working   == {"admitting", "executing", "finishing"}
Awaiting  == Working \cup {"queued"}

Init ==
    /\ closing = FALSE /\ closed = FALSE /\ active = {}
    /\ permits = MaxConcurrency /\ slotsClosed = FALSE /\ queue = <<>>
    /\ notified = FALSE
    /\ gate = Free
    /\ run = [r \in Runs |-> "idle"] /\ outcome = [r \in Runs |-> None]
    /\ cancelled = {} /\ stopped = {} /\ expired = {}
    /\ row = [t \in Tasks |-> NoRow]
    /\ closer = [c \in Closers |-> "idle"]
    /\ connected = TRUE /\ locked = TRUE
    /\ query = [q \in Queries |-> "idle"]
    /\ abandons = 0 /\ closeFails = 0

-----------------------------------------------------------------------------
\* A run moves to a place, or to a place with its outcome known.
Goto(r, place)         == /\ run' = [run EXCEPT ![r] = place]
                          /\ UNCHANGED outcome
Leave(r, place, result) == /\ run' = [run EXCEPT ![r] = place]
                           /\ outcome' = [outcome EXCEPT ![r] = result]

TokenCancelled(r) == r \in cancelled \cup stopped
CanAcquire(r)     == permits > 0 /\ Head(queue) = r
LeaveQueue(r)     ==
    \E i \in 1..Len(queue) :
       /\ queue[i] = r
       /\ queue' = SubSeq(queue, 1, i - 1) \o SubSeq(queue, i + 1, Len(queue))

\* Defects for the mutation runs: each has the shape of the definition it
\* stands in for.
TaskExistsNever(t) == FALSE
DrainedAlways      == TRUE
AcquireForFree(r) ==
    /\ run[r] = "queued"
    /\ ~TokenCancelled(r)
    /\ ~slotsClosed
    /\ CanAcquire(r)
    /\ LeaveQueue(r)
    /\ Goto(r, "admitting")
    /\ UNCHANGED <<lifecycle, permits, slotsClosed, notified, gate, tokens, row,
                   closer, database, host>>
ReleaseSlotLeaking(r) ==
    /\ run[r] = "leaving"
    /\ Goto(r, "unregistering")
    /\ UNCHANGED <<lifecycle, slots, notified, gate, tokens, row, closer,
                   database, host>>
UnregisterQuietly(r) ==
    /\ run[r] = "unregistering"
    /\ active' = active \ {r}
    /\ Goto(r, "returned")
    /\ UNCHANGED <<closing, closed, slots, notified, gate, tokens, row, closer,
                   database, host>>
GraceTimeoutAbandoningRuns(c) ==
    /\ closer[c] = "grace"
    /\ ~notified
    /\ stopped' = stopped \cup active
    /\ closer'  = [closer EXCEPT ![c] = "closeStore"]
    /\ UNCHANGED <<lifecycle, slots, notified, gate, progress, cancelled, expired,
                   row, database, host>>
CleanupTimeoutKeepingGate(c) ==
    /\ closer[c] = "cleanup"
    /\ ~notified
    /\ closer' = [closer EXCEPT ![c] = "idle"]
    /\ UNCHANGED <<lifecycle, slots, notified, gate, progress, tokens, row,
                   database, host>>

MayRegister   == ~closing
TaskExists(t) == row[t] # NoRow
Drained       == active = {}

-----------------------------------------------------------------------------
\* run_input up to its slot.  Registration and closing share one lock.
Register(r) ==
    /\ run[r] = "idle"
    /\ \/ /\ ~MayRegister
          /\ Leave(r, "returned", "closed")
          /\ UNCHANGED <<active, queue>>
       \/ /\ MayRegister
          /\ active' = active \cup {r}
          /\ queue'  = Append(queue, r)
          /\ Goto(r, "queued")
    /\ UNCHANGED <<closing, closed, permits, slotsClosed, notified, gate, tokens,
                   row, closer, database, host>>

\* The select is biased: cancellation first, then the permit or the closed
\* semaphore, the timer last.
Acquire(r) ==
    /\ run[r] = "queued"
    /\ ~TokenCancelled(r)
    /\ ~slotsClosed
    /\ CanAcquire(r)
    /\ permits' = permits - 1
    /\ LeaveQueue(r)
    /\ Goto(r, "admitting")
    /\ UNCHANGED <<lifecycle, slotsClosed, notified, gate, tokens, row, closer,
                   database, host>>

StopQueueing(r) ==
    /\ run[r] = "queued"
    /\ \/ /\ TokenCancelled(r)
          /\ Leave(r, "unregistering", "queue_cancelled")
       \/ /\ ~TokenCancelled(r)
          /\ slotsClosed
          /\ Leave(r, "unregistering", "closed")
       \/ /\ ~TokenCancelled(r)
          /\ ~slotsClosed
          /\ ~CanAcquire(r)
          /\ r \in expired
          /\ Leave(r, "unregistering", "queue_deadline")
    /\ LeaveQueue(r)
    /\ UNCHANGED <<lifecycle, permits, slotsClosed, notified, gate, tokens, row,
                   closer, database, host>>

\* The task is validated again, then create_submission refuses an id that
\* has a row; every error returns before anything is written.
CreateRow(r) ==
    /\ connected
    /\ r \notin expired
    /\ ~TaskExists(TaskOf[r])
    /\ row' = [row EXCEPT ![TaskOf[r]] = [status |-> "running", owner |-> r]]

Admit(r) ==
    /\ run[r] = "admitting"
    /\ \/ /\ CreateRow(r)
          /\ Goto(r, "executing")
       \/ /\ Leave(r, "leaving", "rejected")
          /\ UNCHANGED row
    /\ UNCHANGED <<lifecycle, slots, notified, gate, tokens, closer, database, host>>

\* Preparation and execution end; the error kind is "cancelled" only when
\* the token is.
EndExecution(r) ==
    /\ run[r] = "executing"
    /\ \E result \in Results :
          /\ result = "cancelled" => TokenCancelled(r)
          /\ Leave(r, "finishing", result)
    /\ UNCHANGED <<lifecycle, slots, notified, gate, tokens, row, closer, database, host>>

\* store.finish with the status of the result; when it fails the run
\* returns the storage error and the row stays as it was.
WriteStatus(r) ==
    /\ connected
    /\ row' = [row EXCEPT ![TaskOf[r]].status = outcome[r]]

Finish(r) ==
    /\ run[r] = "finishing"
    /\ \/ /\ WriteStatus(r)
          /\ Goto(r, "leaving")
       \/ /\ Leave(r, "leaving", "storage")
          /\ UNCHANGED row
    /\ UNCHANGED <<lifecycle, slots, notified, gate, tokens, closer, database, host>>

\* The locals drop in reverse order: the permit, then the ActiveRun, which
\* unregisters and then notifies.
ReleaseSlot(r) ==
    /\ run[r] = "leaving"
    /\ permits' = permits + 1
    /\ Goto(r, "unregistering")
    /\ UNCHANGED <<lifecycle, slotsClosed, queue, notified, gate, tokens, row, closer,
                   database, host>>

Unregister(r) ==
    /\ run[r] = "unregistering"
    /\ active' = active \ {r}
    /\ Goto(r, "notifying")
    /\ UNCHANGED <<closing, closed, slots, notified, gate, tokens, row, closer,
                   database, host>>

NotifyDrained(r) ==
    /\ run[r] = "notifying"
    /\ notified' = TRUE
    /\ Goto(r, "returned")
    /\ UNCHANGED <<lifecycle, slots, gate, tokens, row, closer, database, host>>

-----------------------------------------------------------------------------
\* The host and the clock.
HostCancel(r) ==
    /\ run[r] \in Awaiting
    /\ cancelled' = cancelled \cup {r}
    /\ UNCHANGED <<lifecycle, slots, notified, gate, progress, stopped, expired, row,
                   closer, database, host>>

Expire(r) ==
    /\ run[r] \in Admission
    /\ expired' = expired \cup {r}
    /\ UNCHANGED <<lifecycle, slots, notified, gate, progress, cancelled, stopped, row,
                   closer, database, host>>

\* The host drops the future; what the worker was asked to do may be done.
Abandon(r) ==
    /\ run[r] \in Awaiting
    /\ \/ run[r] = "admitting" /\ CreateRow(r)
       \/ run[r] = "finishing" /\ WriteStatus(r)
       \/ UNCHANGED row
    /\ IF run[r] = "queued" THEN /\ LeaveQueue(r)
                                 /\ Leave(r, "unregistering", "abandoned")
                            ELSE /\ Leave(r, "leaving", "abandoned")
                                 /\ UNCHANGED queue
    /\ UNCHANGED <<lifecycle, permits, slotsClosed, notified, gate, tokens, closer,
                   database, host>>

-----------------------------------------------------------------------------
\* close().
MoveCloser(c, place) == closer' = [closer EXCEPT ![c] = place]
ReturnFromClose(c)   == /\ MoveCloser(c, "idle")
                        /\ gate' = Free

Call(c) ==
    /\ closer[c] = "idle"
    /\ ~closed
    /\ MoveCloser(c, "gate")
    /\ UNCHANGED <<lifecycle, slots, notified, gate, progress, tokens, row, database, host>>

BeginClose(c) ==
    /\ closer[c] = "gate"
    /\ gate = Free
    /\ \/ /\ closed
          /\ MoveCloser(c, "idle")
          /\ UNCHANGED <<closing, gate>>
       \/ /\ ~closed
          /\ closing' = TRUE
          /\ gate' = c
          /\ MoveCloser(c, "closeSlots")
    /\ UNCHANGED <<closed, active, slots, notified, progress, tokens, row, database, host>>

CloseSlots(c) ==
    /\ closer[c] = "closeSlots"
    /\ slotsClosed' = TRUE
    /\ MoveCloser(c, "checkGrace")
    /\ UNCHANGED <<lifecycle, permits, queue, notified, gate, progress, tokens, row,
                   database, host>>

\* wait_drained: look at the registrations, wait for a notification, look
\* again.
Check(c) ==
    /\ closer[c] \in {"checkGrace", "checkCleanup"}
    /\ MoveCloser(c, CASE Drained                              -> "closeStore"
                       [] ~Drained /\ closer[c] = "checkGrace"   -> "grace"
                       [] ~Drained /\ closer[c] = "checkCleanup" -> "cleanup")
    /\ UNCHANGED <<lifecycle, slots, notified, gate, progress, tokens, row, database, host>>

Wake(c) ==
    /\ closer[c] \in {"grace", "cleanup"}
    /\ notified
    /\ notified' = FALSE
    /\ MoveCloser(c, IF closer[c] = "grace" THEN "checkGrace" ELSE "checkCleanup")
    /\ UNCHANGED <<lifecycle, slots, gate, progress, tokens, row, database, host>>

\* A timeout polls the wait before its timer.
GraceTimeout(c) ==
    /\ closer[c] = "grace"
    /\ ~notified
    /\ stopped' = stopped \cup active
    /\ MoveCloser(c, "checkCleanup")
    /\ UNCHANGED <<lifecycle, slots, notified, gate, progress, cancelled, expired,
                   row, database, host>>

CleanupTimeout(c) ==
    /\ closer[c] = "cleanup"
    /\ ~notified
    /\ ReturnFromClose(c)
    /\ UNCHANGED <<lifecycle, slots, notified, progress, tokens, row, database, host>>

\* store.close: SQLite closes (or already has), then the file lock goes.
CloseConnection(c) ==
    /\ closer[c] = "closeStore"
    /\ connected' = FALSE
    /\ MoveCloser(c, "unlock")
    /\ UNCHANGED <<lifecycle, slots, notified, gate, progress, tokens, row, locked, host>>

CloseFails(c) ==
    /\ closer[c] = "closeStore"
    /\ connected
    /\ closeFails < MaxCloseFails
    /\ closeFails' = closeFails + 1
    /\ ReturnFromClose(c)
    /\ UNCHANGED <<lifecycle, slots, notified, progress, tokens, row, database,
                   query, abandons>>

Unlock(c) ==
    /\ closer[c] = "unlock"
    /\ locked' = FALSE
    /\ closed' = TRUE
    /\ ReturnFromClose(c)
    /\ UNCHANGED <<closing, active, slots, notified, progress, tokens, row, connected,
                   host>>

\* The host drops a close() that waits.
AbandonClose(c) ==
    /\ closer[c] \in {"gate", "grace", "cleanup", "closeStore"}
    /\ abandons < MaxAbandons
    /\ abandons' = abandons + 1
    /\ IF closer[c] = "gate" THEN MoveCloser(c, "idle") /\ UNCHANGED gate
                             ELSE ReturnFromClose(c)
    /\ \/ closer[c] = "closeStore" /\ connected' = FALSE
       \/ UNCHANGED connected
    /\ UNCHANGED <<lifecycle, slots, notified, progress, tokens, row, locked, query,
                   closeFails>>

-----------------------------------------------------------------------------
\* A query holds close_gate across its database call.
BeginQuery(q) ==
    /\ query[q] = "idle"
    /\ gate = Free
    /\ \/ /\ closing
          /\ query' = [query EXCEPT ![q] = "closed"]
          /\ UNCHANGED gate
       \/ /\ ~closing
          /\ query' = [query EXCEPT ![q] = "querying"]
          /\ gate' = q
    /\ UNCHANGED <<lifecycle, slots, notified, progress, tokens, row, closer, database,
                   abandons, closeFails>>

EndQuery(q) ==
    /\ query[q] = "querying"
    /\ query' = [query EXCEPT ![q] = "done"]
    /\ gate' = Free
    /\ UNCHANGED <<lifecycle, slots, notified, progress, tokens, row, closer, database,
                   abandons, closeFails>>

-----------------------------------------------------------------------------
RunStep(r)    == \/ Register(r) \/ Acquire(r) \/ StopQueueing(r) \/ Admit(r)
                 \/ EndExecution(r) \/ Finish(r)
                 \/ ReleaseSlot(r) \/ Unregister(r) \/ NotifyDrained(r)
RunFault(r)   == HostCancel(r) \/ Expire(r) \/ Abandon(r)
CloserStep(c) == \/ Call(c) \/ BeginClose(c) \/ CloseSlots(c) \/ Check(c) \/ Wake(c)
                 \/ GraceTimeout(c) \/ CleanupTimeout(c)
                 \/ CloseConnection(c) \/ CloseFails(c) \/ Unlock(c)
                 \/ AbandonClose(c)
QueryStep(q)  == BeginQuery(q) \/ EndQuery(q)

Next ==
    \/ \E r \in Runs : RunStep(r)
    \/ \E r \in Disturbed : RunFault(r)
    \/ \E c \in Closers : CloserStep(c)
    \/ \E q \in Queries : QueryStep(q)

Spec == Init /\ [][Next]_vars

\* What the runtime keeps polling: a run that has registered, a close() that
\* was called and has not failed, a query that holds the gate.  The gate is
\* a fair mutex, hence strong fairness for those that wait for it.
RunFairness(r) ==
    /\ WF_vars(Acquire(r) \/ StopQueueing(r) \/ Admit(r) \/ EndExecution(r))
    /\ WF_vars(Finish(r) \/ ReleaseSlot(r) \/ Unregister(r) \/ NotifyDrained(r))
CloserFairness(c) ==
    /\ SF_vars(BeginClose(c))
    /\ WF_vars(CloseSlots(c) \/ Check(c) \/ Wake(c) \/ GraceTimeout(c)
               \/ CleanupTimeout(c) \/ CloseConnection(c) \/ CloseFails(c) \/ Unlock(c))

FairSpec ==
    /\ Spec
    /\ \A r \in Runs : RunFairness(r)
    /\ \A c \in Closers : CloserFairness(c)
    /\ \A q \in Queries : WF_vars(EndQuery(q))

\* A host that has begun to close calls close() again until it succeeds.
RetryingSpec == FairSpec /\ \A c \in Closers : WF_vars(closing /\ Call(c))

-----------------------------------------------------------------------------
RunPlaces    == {"idle", "queued", "admitting", "executing", "finishing", "leaving",
                 "unregistering", "notifying", "returned"}
CloserPlaces == {"idle", "gate", "closeSlots", "checkGrace", "grace", "checkCleanup",
                 "cleanup", "closeStore", "unlock"}
HoldsGate(c) == closer[c] \notin {"idle", "gate"}

TypeOK ==
    /\ closing \in BOOLEAN /\ closed \in BOOLEAN /\ active \subseteq Runs
    /\ permits \in 0..MaxConcurrency /\ slotsClosed \in BOOLEAN /\ queue \in Seq(Runs)
    /\ notified \in BOOLEAN
    /\ gate \in {Free} \cup Closers \cup Queries
    /\ run \in [Runs -> RunPlaces]
    /\ outcome \in [Runs -> Outcomes]
    /\ cancelled \subseteq Runs /\ stopped \subseteq Runs /\ expired \subseteq Runs
    /\ row \in [Tasks -> [status : Results \cup {"absent", "running"},
                          owner  : Runs \cup {None}]]
    /\ closer \in [Closers -> CloserPlaces]
    /\ query \in [Queries -> {"idle", "querying", "done", "closed"}]
    /\ connected \in BOOLEAN /\ locked \in BOOLEAN
    /\ abandons \in 0..MaxAbandons /\ closeFails \in 0..MaxCloseFails

\* A slot is never lost or given out twice, however runs are cancelled,
\* dropped or rejected on the way, so config.max_concurrency bounds the runs
\* between admission and their final status.
SlotsConserved ==
    permits + Cardinality({r \in Runs : run[r] \in Working \cup {"leaving"}}) = MaxConcurrency

\* The database is open as long as anybody may still write to it or read
\* from it: close waits for every run, those it has cancelled included, and
\* for a query that is under way.
StoreOutlivesUsers ==
    ~connected => /\ \A r \in Runs : run[r] \notin Working
                  /\ \A q \in Queries : query[q] # "querying"

\* The file lock is given up last, after the connection, and never by a
\* close that timed out, failed or was dropped.  Another engine that then
\* opens the database finds rows that say running only where this one's host
\* dropped the run or its final write failed.
HandoverClean ==
    ~locked => /\ ~connected /\ closing
               /\ \A t \in Tasks : row[t].status = "running"
                     => outcome[row[t].owner] \in {"abandoned", "storage"}

\* A task row belongs to the run that created it: a duplicate submission is
\* refused without touching it, and only its owner, once, ends it.
RowKept ==
    [][\A t \in Tasks : row[t] # NoRow /\ row'[t] # row[t]
          => /\ row'[t].owner = row[t].owner
             /\ row[t].status = "running"
             /\ run[row[t].owner] = "finishing"]_vars

\* close() reports cleanup_timeout only while some run has not let go; a
\* notification is never lost between looking and waiting.
CleanupTimeoutHonest ==
    [][\A c \in Closers : closer[c] = "cleanup" /\ closer'[c] = "idle"
          => abandons' # abandons \/ \E r \in Runs : run[r] \notin {"idle", "returned"}]_vars

\* A run that has registered returns, without counting on its deadline:
\* slots come back from runs that end, fail, are cancelled or are dropped.
RunReturns == \A r \in Runs : run[r] = "queued" ~> run[r] = "returned"

\* Retried, a shutdown that has begun completes: neither timeouts nor
\* dropped or failed attempts leave the engine half closed for ever.
ShutdownCompletes == closing ~> closed /\ ~locked
=============================================================================
