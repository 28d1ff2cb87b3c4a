-------------------------- MODULE LifecycleProofs --------------------------
(***************************************************************************)
(* Admission and shutdown for any number of runs, tasks, close() calls and *)
(* queries, any concurrency, and any number of faults.                     *)
(*                                                                         *)
(* The argument: the registrations are the runs between their registration *)
(* and the drop of their ActiveRun; no run registers once closing is set;  *)
(* one holder of the gate at a time.  So a closer that has seen no         *)
(* registration stays alone, and what it closes has no users.  A row       *)
(* belongs to the run that is about to end it, and a closer waits only     *)
(* where somebody is still going to notify it.                             *)
(***************************************************************************)
EXTENDS Lifecycle, FiniteSetTheorems, TLAPS

Holders      == {r \in Runs : run[r] \in Working \cup {"leaving"}}
Registered   == Awaiting \cup {"leaving", "unregistering"}
Ended        == {"leaving", "unregistering", "notifying", "returned"}
Owning       == {"executing", "finishing"}
EmptyPlaces  == {"closeStore", "unlock"}
WaitPlaces   == {"grace", "cleanup"}

\* Permits, the runs that hold one, and the registrations.
SlotsKnown ==
    /\ IsFiniteSet(Holders)
    /\ SlotsConserved
    /\ active = {r \in Runs : run[r] \in Registered}

\* Who holds the gate, and what that says.
GateKnown ==
    /\ \A c \in Closers : HoldsGate(c) => gate = c /\ closing
    /\ \A q \in Queries : query[q] = "querying" => gate = q

\* What a closer past its wait, and the closed connection, can rely on.
Emptied ==
    /\ \A c \in Closers : closer[c] \in EmptyPlaces => active = {}
    /\ \A c \in Closers : closer[c] = "unlock" => ~connected
    /\ ~connected => /\ closing /\ active = {}
                     /\ \A q \in Queries : query[q] # "querying"
    /\ ~locked => ~connected

\* A run that will end a row owns it, and a row that says running has an
\* owner that will end it, was dropped or could not write.
RowsKnown ==
    /\ \A r \in Runs : run[r] \in Owning
          => row[TaskOf[r]] = [status |-> "running", owner |-> r]
    /\ \A r \in Runs : run[r] = "finishing" => outcome[r] \in Results
    /\ \A t \in Tasks : row[t].status = "running"
          => LET r == row[t].owner
             IN  /\ r \in Runs /\ TaskOf[r] = t
                 /\ \/ run[r] \in Owning
                    \/ run[r] \in Ended /\ outcome[r] \in {"abandoned", "storage"}

\* A closer that waits will be notified.
WaitKnown ==
    \A c \in Closers : closer[c] \in WaitPlaces =>
        \/ active # {}
        \/ notified
        \/ \E r \in Runs : run[r] = "notifying"

IInv == TypeOK /\ SlotsKnown /\ GateKnown /\ Emptied /\ RowsKnown /\ WaitKnown

-----------------------------------------------------------------------------
\* An engine that has just been made satisfies the invariant.
LEMMA InitInvariant == LifecycleAssumption /\ Init => IInv
<1> SUFFICES ASSUME LifecycleAssumption, Init
             PROVE  IInv
  OBVIOUS
<1>1. TypeOK
  <2>1. /\ run \in [Runs -> RunPlaces] /\ outcome \in [Runs -> Outcomes]
        /\ closer \in [Closers -> CloserPlaces]
        /\ query \in [Queries -> {"idle", "querying", "done", "closed"}]
    BY DEF Init, RunPlaces, Outcomes, CloserPlaces
  <2>2. row \in [Tasks -> [status : Results \cup {"absent", "running"},
                          owner  : Runs \cup {None}]]
    BY DEF Init, NoRow
  <2>3. /\ permits \in 0..MaxConcurrency /\ queue \in Seq(Runs)
        /\ abandons \in 0..MaxAbandons /\ closeFails \in 0..MaxCloseFails
    BY DEF Init, LifecycleAssumption
  <2> QED
    BY <2>1, <2>2, <2>3 DEF Init, TypeOK
<1>2. SlotsKnown
  <2>1. Holders = {}
    BY DEF Init, Holders, Working
  <2>2. active = {r \in Runs : run[r] \in Registered}
    BY DEF Init, Registered, Awaiting, Working
  <2>3. IsFiniteSet(Holders) /\ Cardinality(Holders) = 0
    BY <2>1, FS_EmptySet
  <2>4. permits + Cardinality(Holders) = MaxConcurrency
    BY <2>3 DEF Init, LifecycleAssumption
  <2> QED
    BY <2>2, <2>3, <2>4 DEF SlotsKnown, SlotsConserved, Holders
<1>3. GateKnown /\ Emptied /\ WaitKnown
  BY DEF Init, GateKnown, HoldsGate, Emptied, EmptyPlaces, WaitKnown, WaitPlaces
<1>4. RowsKnown
  BY DEF Init, RowsKnown, Owning, NoRow
<1> QED
  BY <1>1, <1>2, <1>3, <1>4 DEF IInv

-----------------------------------------------------------------------------
\* Registrations and permits follow the runs, whatever they do.
LEMMA SlotsStep ==
    ASSUME LifecycleAssumption, IInv, [Next]_vars
    PROVE  SlotsKnown'
<1> USE DEF lifecycle, slots, progress, tokens, database, host, Goto, Leave
<1>0. /\ run \in [Runs -> RunPlaces]
      /\ permits \in Nat
      /\ MaxConcurrency \in Nat
  BY DEF IInv, TypeOK, LifecycleAssumption
<1>1. /\ IsFiniteSet(Holders)
      /\ permits + Cardinality(Holders) = MaxConcurrency
      /\ active = {r \in Runs : run[r] \in Registered}
  BY DEF IInv, SlotsKnown, SlotsConserved, Holders
<1>2. ASSUME Holders' = Holders, permits' = permits,
             active' = {r \in Runs : run'[r] \in Registered}
      PROVE  SlotsKnown'
  BY <1>1, <1>2 DEF SlotsKnown, SlotsConserved, Holders
<1>3. ASSUME NEW r \in Runs, Register(r)
      PROVE  SlotsKnown'
  <2>1. Holders' = Holders /\ permits' = permits
    BY <1>0, <1>3 DEF Register, Holders, Working
  <2>2. active' = {s \in Runs : run'[s] \in Registered}
    BY <1>0, <1>1, <1>3 DEF Register, Registered, Awaiting, Working
  <2> QED
    BY <1>2, <2>1, <2>2
<1>4. ASSUME NEW r \in Runs, Acquire(r)
      PROVE  SlotsKnown'
  <2>1. r \notin Holders /\ Holders' = Holders \cup {r}
    BY <1>0, <1>4 DEF Acquire, Holders, Working
  <2>2. permits' = permits - 1
    BY <1>4 DEF Acquire
  <2>3. active' = {s \in Runs : run'[s] \in Registered}
    BY <1>0, <1>1, <1>4 DEF Acquire, Registered, Awaiting, Working
  <2>4. /\ IsFiniteSet(Holders')
        /\ Cardinality(Holders') = Cardinality(Holders) + 1
    BY <1>1, <2>1, FS_AddElement
  <2>5. Cardinality(Holders) \in Nat
    BY <1>1, FS_CardinalityType
  <2> QED
    BY <1>0, <1>1, <2>2, <2>3, <2>4, <2>5 DEF SlotsKnown, SlotsConserved, Holders
<1>5. ASSUME NEW r \in Runs, ReleaseSlot(r)
      PROVE  SlotsKnown'
  <2>1. r \in Holders /\ Holders' = Holders \ {r}
    BY <1>0, <1>5 DEF ReleaseSlot, Holders, Working
  <2>2. permits' = permits + 1
    BY <1>5 DEF ReleaseSlot
  <2>3. active' = {s \in Runs : run'[s] \in Registered}
    BY <1>0, <1>1, <1>5 DEF ReleaseSlot, Registered, Awaiting, Working
  <2>4. /\ IsFiniteSet(Holders')
        /\ Cardinality(Holders') = Cardinality(Holders) - 1
    BY <1>1, <2>1, FS_RemoveElement
  <2>5. Cardinality(Holders) \in Nat
    BY <1>1, FS_CardinalityType
  <2> QED
    BY <1>0, <1>1, <2>2, <2>3, <2>4, <2>5 DEF SlotsKnown, SlotsConserved, Holders
<1>6. ASSUME NEW r \in Runs, Unregister(r)
      PROVE  SlotsKnown'
  <2>1. Holders' = Holders /\ permits' = permits
    BY <1>0, <1>6 DEF Unregister, Holders, Working
  <2>2. active' = {s \in Runs : run'[s] \in Registered}
    BY <1>0, <1>1, <1>6 DEF Unregister, Registered, Awaiting, Working
  <2> QED
    BY <1>2, <2>1, <2>2
<1>7. ASSUME NEW r \in Runs,
             StopQueueing(r) \/ Admit(r) \/ EndExecution(r) \/ Finish(r) \/ NotifyDrained(r)
             \/ Abandon(r)
      PROVE  SlotsKnown'
  <2>1. Holders' = Holders /\ permits' = permits
    BY <1>0, <1>7 DEF StopQueueing, Admit, EndExecution, Finish, NotifyDrained, Abandon,
                      Awaiting, Holders, Working
  <2>2. active' = {s \in Runs : run'[s] \in Registered}
    BY <1>0, <1>1, <1>7 DEF StopQueueing, Admit, EndExecution, Finish, NotifyDrained, Abandon,
                            Registered, Awaiting, Working
  <2> QED
    BY <1>2, <2>1, <2>2
<1>8. ASSUME UNCHANGED <<run, permits, active>>
      PROVE  SlotsKnown'
  BY <1>1, <1>2, <1>8 DEF Holders
<1>9. ASSUME NEW r \in Runs, HostCancel(r) \/ Expire(r)
      PROVE  SlotsKnown'
  BY <1>8, <1>9 DEF HostCancel, Expire
<1>10. ASSUME NEW c \in Closers, CloserStep(c)
       PROVE  SlotsKnown'
  BY <1>8, <1>10 DEF CloserStep, Call, BeginClose, CloseSlots, Check, Wake, GraceTimeout,
       CleanupTimeout, CloseConnection, CloseFails, Unlock, AbandonClose
<1>11. ASSUME NEW q \in Queries, QueryStep(q)
       PROVE  SlotsKnown'
  BY <1>8, <1>11 DEF QueryStep, BeginQuery, EndQuery
<1>12. CASE UNCHANGED vars
  BY <1>8, <1>12 DEF vars
<1> QED
  BY <1>3, <1>4, <1>5, <1>6, <1>7, <1>9, <1>10, <1>11, <1>12 DEF Next, RunStep, RunFault

\* Whatever holds a permit can give it back.
LEMMA RoomForPermit ==
    ASSUME IInv, LifecycleAssumption, NEW r \in Runs, run[r] = "leaving"
    PROVE  permits + 1 \in 0..MaxConcurrency
<1>1. r \in Holders
  BY DEF Holders
<1>2. IsFiniteSet(Holders) /\ permits + Cardinality(Holders) = MaxConcurrency
  BY DEF IInv, SlotsKnown, SlotsConserved, Holders
<1>3. Cardinality(Holders) \in Nat /\ Cardinality(Holders) # 0
  BY <1>1, <1>2, FS_CardinalityType, FS_EmptySet
<1>4. permits \in Nat /\ MaxConcurrency \in Nat
  BY DEF IInv, TypeOK, LifecycleAssumption
<1> QED
  BY <1>2, <1>3, <1>4

\* A queue without one of its members is a queue.
LEMMA QueueKept ==
    ASSUME NEW r \in Runs, queue \in Seq(Runs), LeaveQueue(r)
    PROVE  queue' \in Seq(Runs)
<1>1. PICK i \in 1..Len(queue) :
         queue' = SubSeq(queue, 1, i - 1) \o SubSeq(queue, i + 1, Len(queue))
  BY DEF LeaveQueue
<1>2. SubSeq(queue, 1, i - 1) \in Seq(Runs) /\ SubSeq(queue, i + 1, Len(queue)) \in Seq(Runs)
  OBVIOUS
<1> QED
  BY <1>1, <1>2

\* Every step keeps the types: what could leave them is a permit too many,
\* a queue that loses a member and a status that is no result.
LEMMA TypeStep ==
    ASSUME LifecycleAssumption, IInv, [Next]_vars
    PROVE  TypeOK'
<1> USE DEF lifecycle, slots, progress, tokens, database, host, Goto, Leave, TypeOK,
            RunPlaces, Outcomes, Results
<1>0. TypeOK /\ RowsKnown
  BY DEF IInv
<1>1. ASSUME NEW r \in Runs, Register(r)
      PROVE  TypeOK'
  <2>1. queue' \in Seq(Runs)
    <3>1. queue' = queue \/ queue' = Append(queue, r)
      BY <1>1 DEF Register
    <3>2. queue \in Seq(Runs)
      BY <1>0
    <3> QED
      BY <3>1, <3>2
  <2>2. run' \in [Runs -> RunPlaces] /\ outcome' \in [Runs -> Outcomes]
    <3>1. \/ run' = [run EXCEPT ![r] = "returned"] /\ outcome' = [outcome EXCEPT ![r] = "closed"]
          \/ run' = [run EXCEPT ![r] = "queued"] /\ outcome' = outcome
      BY <1>1 DEF Register
    <3>2. run \in [Runs -> RunPlaces] /\ outcome \in [Runs -> Outcomes]
      BY <1>0
    <3>3. run' \in [Runs -> RunPlaces]
      BY <3>1, <3>2
    <3>4. outcome' \in [Runs -> Outcomes]
      BY <3>1, <3>2
    <3> QED
      BY <3>3, <3>4
  <2>3. active' \subseteq Runs
    BY <1>0, <1>1 DEF Register
  <2>4. UNCHANGED <<closing, closed, permits, slotsClosed, notified, gate, tokens, row,
                    closer, database, host>>
    BY <1>1 DEF Register
  <2> QED
    BY <1>0, <2>1, <2>2, <2>3, <2>4
<1>2. ASSUME NEW r \in Runs, Acquire(r)
      PROVE  TypeOK'
  <2>1. queue' \in Seq(Runs)
    BY <1>0, <1>2, QueueKept DEF Acquire
  <2>2. permits' \in 0..MaxConcurrency
    BY <1>0, <1>2 DEF Acquire, CanAcquire, LifecycleAssumption
  <2> QED
    BY <1>0, <1>2, <2>1, <2>2 DEF Acquire
<1>3. ASSUME NEW r \in Runs, StopQueueing(r)
      PROVE  TypeOK'
  <2>1. queue' \in Seq(Runs)
    BY <1>0, <1>3, QueueKept DEF StopQueueing
  <2>2. run' \in [Runs -> RunPlaces] /\ outcome' \in [Runs -> Outcomes]
    <3>1. /\ run' = [run EXCEPT ![r] = "unregistering"]
          /\ \E k \in {"queue_cancelled", "closed", "queue_deadline"} :
                outcome' = [outcome EXCEPT ![r] = k]
      BY <1>3 DEF StopQueueing
    <3> QED
      BY <1>0, <3>1
  <2>3. UNCHANGED <<lifecycle, permits, slotsClosed, notified, gate, tokens, row, closer,
                    database, host>>
    BY <1>3 DEF StopQueueing
  <2> QED
    BY <1>0, <2>1, <2>2, <2>3
<1>4. ASSUME NEW r \in Runs, CreateRow(r)
      PROVE  row' \in [Tasks -> [status : Results \cup {"absent", "running"},
                                 owner  : Runs \cup {None}]]
  BY <1>0, <1>4 DEF CreateRow
<1>5. ASSUME NEW r \in Runs, run[r] = "finishing", WriteStatus(r)
      PROVE  row' \in [Tasks -> [status : Results \cup {"absent", "running"},
                                 owner  : Runs \cup {None}]]
  <2> DEFINE t == TaskOf[r]
  <2>1. row' = [row EXCEPT ![t].status = outcome[r]]
    BY <1>5 DEF WriteStatus
  <2>2. outcome[r] \in Results
    BY <1>0, <1>5 DEF RowsKnown
  <2>3. row \in [Tasks -> [status : Results \cup {"absent", "running"},
                          owner  : Runs \cup {None}]]
    BY <1>0
  <2> HIDE DEF t
  <2> QED
    BY <2>1, <2>2, <2>3
<1>6. ASSUME NEW r \in Runs, Admit(r)
      PROVE  TypeOK'
  BY <1>0, <1>4, <1>6 DEF Admit
<1>7. ASSUME NEW r \in Runs, EndExecution(r)
      PROVE  TypeOK'
  BY <1>0, <1>7 DEF EndExecution
<1>8. ASSUME NEW r \in Runs, Finish(r)
      PROVE  TypeOK'
  BY <1>0, <1>5, <1>8 DEF Finish
<1>9. ASSUME NEW r \in Runs, ReleaseSlot(r)
      PROVE  TypeOK'
  BY <1>0, <1>9, RoomForPermit DEF ReleaseSlot
<1>10. ASSUME NEW r \in Runs, Unregister(r) \/ NotifyDrained(r) \/ HostCancel(r) \/ Expire(r)
       PROVE  TypeOK'
  BY <1>0, <1>10 DEF Unregister, NotifyDrained, HostCancel, Expire
<1>11. ASSUME NEW r \in Runs, Abandon(r)
       PROVE  TypeOK'
  <2>1. queue' \in Seq(Runs)
    BY <1>0, <1>11, QueueKept DEF Abandon
  <2>2. row' \in [Tasks -> [status : Results \cup {"absent", "running"},
                            owner  : Runs \cup {None}]]
    BY <1>0, <1>4, <1>5, <1>11 DEF Abandon
  <2> QED
    BY <1>0, <1>11, <2>1, <2>2 DEF Abandon
<1>12. ASSUME NEW c \in Closers, CloserStep(c)
       PROVE  TypeOK'
  <2> USE DEF MoveCloser, ReturnFromClose, CloserPlaces, Free
  <2>1. ASSUME Call(c) \/ BeginClose(c) \/ CloseSlots(c) \/ Check(c)
        PROVE  TypeOK'
    BY <1>0, <2>1 DEF Call, BeginClose, CloseSlots, Check
  <2>2. ASSUME Wake(c) \/ GraceTimeout(c) \/ CleanupTimeout(c) \/ CloseConnection(c) \/ Unlock(c)
        PROVE  TypeOK'
    BY <1>0, <2>2 DEF Wake, GraceTimeout, CleanupTimeout, CloseConnection, Unlock
  <2>3. ASSUME CloseFails(c)
        PROVE  TypeOK'
    <3>1. closeFails' \in 0..MaxCloseFails
      BY <1>0, <2>3 DEF CloseFails, LifecycleAssumption
    <3> QED
      BY <1>0, <2>3, <3>1 DEF CloseFails
  <2>4. ASSUME AbandonClose(c)
        PROVE  TypeOK'
    <3>1. abandons' \in 0..MaxAbandons
      BY <1>0, <2>4 DEF AbandonClose, LifecycleAssumption
    <3> QED
      BY <1>0, <2>4, <3>1 DEF AbandonClose
  <2> QED
    BY <1>12, <2>1, <2>2, <2>3, <2>4 DEF CloserStep
<1>13. ASSUME NEW q \in Queries, QueryStep(q)
       PROVE  TypeOK'
  BY <1>0, <1>13 DEF QueryStep, BeginQuery, EndQuery, Free
<1>14. CASE UNCHANGED vars
  BY <1>0, <1>14 DEF vars
<1> QED
  BY <1>1, <1>2, <1>3, <1>6, <1>7, <1>8, <1>9, <1>10, <1>11, <1>12, <1>13, <1>14
     DEF Next, RunStep, RunFault

-----------------------------------------------------------------------------
\* The gate is taken only when it is free, and closing is never undone.
LEMMA GateStep ==
    ASSUME LifecycleAssumption, IInv, [Next]_vars
    PROVE  GateKnown'
<1> USE DEF lifecycle, slots, progress, tokens, database, host, Goto, Leave,
            MoveCloser, ReturnFromClose, HoldsGate, GateKnown, Free
<1>0. /\ GateKnown
      /\ closer \in [Closers -> CloserPlaces]
      /\ query \in [Queries -> {"idle", "querying", "done", "closed"}]
      /\ Closers \cap Queries = {} /\ "free" \notin Closers \cup Queries
  BY DEF IInv, TypeOK, LifecycleAssumption
<1>1. ASSUME UNCHANGED <<closing, gate, closer, query>>
      PROVE  GateKnown'
  BY <1>0, <1>1
<1>2. ASSUME NEW r \in Runs, RunStep(r) \/ RunFault(r)
      PROVE  GateKnown'
  BY <1>1, <1>2 DEF RunStep, RunFault, Register, Acquire, StopQueueing, Admit, EndExecution,
       Finish, ReleaseSlot, Unregister, NotifyDrained, HostCancel, Expire, Abandon
<1>3. ASSUME NEW c \in Closers, Call(c)
      PROVE  GateKnown'
  BY <1>0, <1>3 DEF Call
<1>4. ASSUME NEW c \in Closers, BeginClose(c)
      PROVE  GateKnown'
  BY <1>0, <1>4 DEF BeginClose
<1>5. ASSUME NEW c \in Closers,
             CloseSlots(c) \/ Check(c) \/ Wake(c) \/ GraceTimeout(c) \/ CloseConnection(c)
      PROVE  GateKnown'
  <2>1. UNCHANGED <<gate, query, closing>>
    BY <1>5 DEF CloseSlots, Check, Wake, GraceTimeout, CloseConnection
  <2>2. HoldsGate(c) /\ \E place : MoveCloser(c, place)
    BY <1>5 DEF CloseSlots, Check, Wake, GraceTimeout, CloseConnection
  <2> QED
    BY <1>0, <2>1, <2>2
<1>6. ASSUME NEW c \in Closers, CleanupTimeout(c) \/ CloseFails(c) \/ Unlock(c)
      PROVE  GateKnown'
  BY <1>0, <1>6 DEF CleanupTimeout, CloseFails, Unlock
<1>7. ASSUME NEW c \in Closers, AbandonClose(c)
      PROVE  GateKnown'
  BY <1>0, <1>7 DEF AbandonClose
<1>8. ASSUME NEW q \in Queries, QueryStep(q)
      PROVE  GateKnown'
  BY <1>0, <1>8 DEF QueryStep, BeginQuery, EndQuery
<1>9. CASE UNCHANGED vars
  BY <1>1, <1>9 DEF vars
<1> QED
  BY <1>2, <1>3, <1>4, <1>5, <1>6, <1>7, <1>8, <1>9 DEF Next, CloserStep

\* A closer moves past its wait only when nobody is registered, and stays
\* alone: nobody registers while closing is set.
LEMMA EmptiedStep ==
    ASSUME LifecycleAssumption, IInv, [Next]_vars
    PROVE  Emptied'
<1> USE DEF lifecycle, slots, progress, tokens, database, host, Goto, Leave,
            MoveCloser, ReturnFromClose, EmptyPlaces, Emptied
<1>0. /\ Emptied /\ GateKnown
      /\ closer \in [Closers -> CloserPlaces]
      /\ query \in [Queries -> {"idle", "querying", "done", "closed"}]
      /\ Closers \cap Queries = {}
  BY DEF IInv, TypeOK, LifecycleAssumption
<1>1. ASSUME UNCHANGED <<closing, closer, query, connected, locked>>,
             active' \subseteq active \/ ~closing
      PROVE  Emptied'
  BY <1>0, <1>1 DEF GateKnown, HoldsGate
<1>2. ASSUME NEW r \in Runs, RunStep(r) \/ RunFault(r)
      PROVE  Emptied'
  <2>1. UNCHANGED <<closing, closer, query, connected, locked>>
    BY <1>2 DEF RunStep, RunFault, Register, Acquire, StopQueueing, Admit, EndExecution,
       Finish, ReleaseSlot, Unregister, NotifyDrained, HostCancel, Expire, Abandon
  <2>2. active' \subseteq active \/ ~closing
    BY <1>2 DEF RunStep, RunFault, Register, MayRegister, Acquire, StopQueueing, Admit, EndExecution,
       Finish, ReleaseSlot, Unregister, NotifyDrained, HostCancel, Expire, Abandon
  <2> QED
    BY <1>1, <2>1, <2>2
<1>3. ASSUME NEW c \in Closers,
             Call(c) \/ CloseSlots(c) \/ Wake(c) \/ GraceTimeout(c)
             \/ CleanupTimeout(c) \/ CloseFails(c)
      PROVE  Emptied'
  BY <1>0, <1>3 DEF Call, CloseSlots, Wake, GraceTimeout, CleanupTimeout, CloseFails
<1>4. ASSUME NEW c \in Closers, BeginClose(c)
      PROVE  Emptied'
  BY <1>0, <1>4 DEF BeginClose
<1>5. ASSUME NEW c \in Closers, Check(c)
      PROVE  Emptied'
  BY <1>0, <1>5 DEF Check, Drained
<1>6. ASSUME NEW c \in Closers, CloseConnection(c) \/ Unlock(c) \/ AbandonClose(c)
      PROVE  Emptied'
  <2>1. closer[c] \in EmptyPlaces => closing /\ \A q \in Queries : query[q] # "querying"
    BY <1>0 DEF GateKnown, HoldsGate
  <2> QED
    BY <1>0, <1>6, <2>1 DEF CloseConnection, Unlock, AbandonClose
<1>7. ASSUME NEW q \in Queries, QueryStep(q)
      PROVE  Emptied'
  BY <1>0, <1>7 DEF QueryStep, BeginQuery, EndQuery
<1>8. CASE UNCHANGED vars
  BY <1>1, <1>8 DEF vars
<1> QED
  BY <1>2, <1>3, <1>4, <1>5, <1>6, <1>7, <1>8 DEF Next, CloserStep

\* A closer starts to wait only when somebody is registered; who leaves
\* the registrations goes on to notify; the gate lets one closer wait.
LEMMA WaitStep ==
    ASSUME LifecycleAssumption, IInv, [Next]_vars
    PROVE  WaitKnown'
<1> USE DEF lifecycle, slots, progress, tokens, database, host, Goto, Leave,
            MoveCloser, ReturnFromClose, WaitPlaces, WaitKnown
<1>0. /\ WaitKnown
      /\ run \in [Runs -> RunPlaces]
      /\ closer \in [Closers -> CloserPlaces]
  BY DEF IInv, TypeOK
<1>1. ASSUME UNCHANGED closer, active # {} \/ notified => active' # {} \/ notified',
             \A r \in Runs : run[r] = "notifying" => run'[r] = "notifying"
      PROVE  WaitKnown'
  BY <1>0, <1>1
<1>2. ASSUME NEW r \in Runs, Unregister(r) \/ NotifyDrained(r)
      PROVE  WaitKnown'
  BY <1>0, <1>2 DEF Unregister, NotifyDrained
<1>3. ASSUME NEW r \in Runs,
             Register(r) \/ Acquire(r) \/ StopQueueing(r) \/ Admit(r) \/ EndExecution(r)
             \/ Finish(r) \/ ReleaseSlot(r) \/ RunFault(r)
      PROVE  WaitKnown'
  <2>1. UNCHANGED <<closer, notified>> /\ active \subseteq active'
    BY <1>3 DEF RunFault, Register, Acquire, StopQueueing, Admit, EndExecution,
       Finish, ReleaseSlot, HostCancel, Expire, Abandon
  <2>2. \A s \in Runs : run[s] = "notifying" => run'[s] = "notifying"
    BY <1>0, <1>3 DEF RunFault, Register, Acquire, StopQueueing, Admit, EndExecution,
       Finish, ReleaseSlot, HostCancel, Expire, Abandon, Awaiting, Working
  <2> QED
    BY <1>1, <2>1, <2>2
<1>4. ASSUME NEW c \in Closers,
             Call(c) \/ BeginClose(c) \/ CloseSlots(c) \/ GraceTimeout(c) \/ CleanupTimeout(c)
             \/ CloseConnection(c) \/ CloseFails(c) \/ Unlock(c) \/ AbandonClose(c)
      PROVE  WaitKnown'
  <2>1. UNCHANGED <<active, notified, run>>
    BY <1>4 DEF Call, BeginClose, CloseSlots, GraceTimeout, CleanupTimeout,
         CloseConnection, CloseFails, Unlock, AbandonClose
  <2>2. \E place \in CloserPlaces \ WaitPlaces : closer' = [closer EXCEPT ![c] = place]
    BY <1>4 DEF Call, BeginClose, CloseSlots, GraceTimeout, CleanupTimeout,
         CloseConnection, CloseFails, Unlock, AbandonClose, CloserPlaces
  <2> QED
    BY <1>0, <2>1, <2>2
<1>5. ASSUME NEW c \in Closers, Check(c)
      PROVE  WaitKnown'
  <2>1. UNCHANGED <<active, notified, run>>
    BY <1>5 DEF Check
  <2>2. CASE Drained
    <3>1. closer' = [closer EXCEPT ![c] = "closeStore"]
      BY <1>5, <2>2 DEF Check
    <3> QED
      BY <1>0, <2>1, <3>1
  <2>3. CASE ~Drained
    <3>1. active' # {}
      BY <2>1, <2>3 DEF Drained
    <3> QED
      BY <3>1
  <2> QED
    BY <2>2, <2>3
<1>6. ASSUME NEW c \in Closers, Wake(c)
      PROVE  WaitKnown'
  <2>1. \A d \in Closers : d # c => closer[d] \notin WaitPlaces
    BY <1>6 DEF Wake, IInv, GateKnown, HoldsGate
  <2> QED
    BY <1>0, <1>6, <2>1 DEF Wake
<1>7. ASSUME NEW q \in Queries, QueryStep(q)
      PROVE  WaitKnown'
  BY <1>0, <1>7 DEF QueryStep, BeginQuery, EndQuery
<1>8. CASE UNCHANGED vars
  BY <1>0, <1>8 DEF vars
<1> QED
  BY <1>2, <1>3, <1>4, <1>5, <1>6, <1>7, <1>8 DEF Next, RunStep, CloserStep

-----------------------------------------------------------------------------
\* A run inserts a row only where there is none, so that the row it will
\* end is its own and nobody else's.
LEMMA RowsStep ==
    ASSUME LifecycleAssumption, IInv, [Next]_vars
    PROVE  RowsKnown'
<1> USE DEF lifecycle, slots, progress, tokens, database, host, Goto, Leave, Results,
            Owning, Ended, RowsKnown
<1>0. /\ RowsKnown
      /\ run \in [Runs -> RunPlaces] /\ outcome \in [Runs -> Outcomes]
      /\ row \in [Tasks -> [status : Results \cup {"absent", "running"},
                            owner  : Runs \cup {None}]]
      /\ TaskOf \in [Runs -> Tasks]
  BY DEF IInv, TypeOK, LifecycleAssumption
<1>1. ASSUME UNCHANGED <<run, outcome, row>>
      PROVE  RowsKnown'
  BY <1>0, <1>1
\* A run that neither owned a row nor does now.
<1>2. ASSUME NEW r \in Runs, UNCHANGED row,
             \A s \in Runs : s # r => run'[s] = run[s] /\ outcome'[s] = outcome[s],
             run[r] \notin Owning, run'[r] \notin Owning,
             run[r] \in Ended => run'[r] \in Ended /\ outcome'[r] = outcome[r]
      PROVE  RowsKnown'
  BY <1>0, <1>2
<1>3. ASSUME NEW r \in Runs,
             Register(r) \/ Acquire(r) \/ StopQueueing(r) \/ ReleaseSlot(r) \/ Unregister(r)
             \/ NotifyDrained(r)
      PROVE  RowsKnown'
  BY <1>0, <1>2, <1>3 DEF Register, Acquire, StopQueueing, ReleaseSlot, Unregister, NotifyDrained
\* A run inserts its row.
<1>4. ASSUME NEW r \in Runs, run[r] = "admitting", CreateRow(r),
             \A s \in Runs : s # r => run'[s] = run[s] /\ outcome'[s] = outcome[s],
             \/ run'[r] = "executing"
             \/ run'[r] = "leaving" /\ outcome'[r] = "abandoned"
      PROVE  RowsKnown'
  <2>1. row[TaskOf[r]] = NoRow /\ TaskOf[r] \in Tasks
    BY <1>0, <1>4 DEF CreateRow, TaskExists
  <2>2. row' = [row EXCEPT ![TaskOf[r]] = [status |-> "running", owner |-> r]]
    BY <1>4 DEF CreateRow
  <2>3. \A s \in Runs : s # r /\ run[s] \in Owning => TaskOf[s] # TaskOf[r]
    <3>1. [status |-> "running", owner |-> r].status # NoRow.status
      BY DEF NoRow
    <3>2. \A s \in Runs : run[s] \in Owning => row[TaskOf[s]].status = "running"
      <4> SUFFICES ASSUME NEW s \in Runs, run[s] \in Owning
                   PROVE  row[TaskOf[s]].status = "running"
        OBVIOUS
      <4>1. row[TaskOf[s]] = [status |-> "running", owner |-> s]
        BY <1>0
      <4> QED
        BY <4>1
    <3> QED
      BY <2>1, <3>1, <3>2
  <2>4. \A s \in Runs : run'[s] \in Owning
            => row'[TaskOf[s]] = [status |-> "running", owner |-> s]
    BY <1>0, <1>4, <2>1, <2>2, <2>3
  <2>5. \A t \in Tasks : row'[t].status = "running"
            => LET s == row'[t].owner
               IN  /\ s \in Runs /\ TaskOf[s] = t
                   /\ \/ run'[s] \in Owning
                      \/ run'[s] \in Ended /\ outcome'[s] \in {"abandoned", "storage"}
    BY <1>0, <1>4, <2>1, <2>2
  <2> QED
    BY <1>0, <1>4, <2>4, <2>5
\* A run ends its row, and nothing else.
<1>5. ASSUME NEW r \in Runs, run[r] = "finishing", WriteStatus(r),
             \A s \in Runs : s # r => run'[s] = run[s] /\ outcome'[s] = outcome[s],
             run'[r] = "leaving"
      PROVE  RowsKnown'
  <2>1. row[TaskOf[r]] = [status |-> "running", owner |-> r] /\ TaskOf[r] \in Tasks
    BY <1>0, <1>5
  <2>2. /\ row' = [row EXCEPT ![TaskOf[r]].status = outcome[r]]
        /\ outcome[r] \in Results
    BY <1>0, <1>5 DEF WriteStatus
  <2>3. \A s \in Runs : s # r /\ run[s] \in Owning => TaskOf[s] # TaskOf[r]
    <3>1. row[TaskOf[r]].owner = r
      BY <2>1
    <3>2. \A s \in Runs : run[s] \in Owning => row[TaskOf[s]].owner = s
      <4> SUFFICES ASSUME NEW s \in Runs, run[s] \in Owning
                   PROVE  row[TaskOf[s]].owner = s
        OBVIOUS
      <4>1. row[TaskOf[s]] = [status |-> "running", owner |-> s]
        BY <1>0
      <4> QED
        BY <4>1
    <3> QED
      BY <3>1, <3>2
  <2>4. \A s \in Runs : run'[s] \in Owning
            => row'[TaskOf[s]] = [status |-> "running", owner |-> s]
    BY <1>0, <1>5, <2>1, <2>2, <2>3
  <2>5. row'[TaskOf[r]].status # "running"
    BY <1>0, <2>1, <2>2
  <2>6. \A t \in Tasks : t # TaskOf[r] => row'[t] = row[t]
    BY <1>0, <2>2
  <2>7. \A t \in Tasks : row[t].status = "running" /\ row[t].owner = r => t = TaskOf[r]
    BY <1>0
  <2>8. \A t \in Tasks : row'[t].status = "running"
            => LET s == row'[t].owner
               IN  /\ s \in Runs /\ TaskOf[s] = t
                   /\ \/ run'[s] \in Owning
                      \/ run'[s] \in Ended /\ outcome'[s] \in {"abandoned", "storage"}
    BY <1>0, <1>5, <2>5, <2>6, <2>7
  <2> QED
    BY <1>0, <1>5, <2>4, <2>8
\* A run is dropped, or cannot write, before its row says how it ended.
<1>6. ASSUME NEW r \in Runs, run[r] \in Owning, UNCHANGED row,
             \A s \in Runs : s # r => run'[s] = run[s] /\ outcome'[s] = outcome[s],
             run'[r] = "leaving", outcome'[r] \in {"abandoned", "storage"}
      PROVE  RowsKnown'
  BY <1>0, <1>6
<1>7. ASSUME NEW r \in Runs, Admit(r)
      PROVE  RowsKnown'
  BY <1>0, <1>2, <1>4, <1>7 DEF Admit
<1>8. ASSUME NEW r \in Runs, EndExecution(r)
      PROVE  RowsKnown'
  BY <1>0, <1>8 DEF EndExecution
<1>9. ASSUME NEW r \in Runs, Finish(r)
      PROVE  RowsKnown'
  BY <1>0, <1>5, <1>6, <1>9 DEF Finish
<1>10. ASSUME NEW r \in Runs, Abandon(r)
       PROVE  RowsKnown'
  <2>1. /\ \A s \in Runs : s # r => run'[s] = run[s] /\ outcome'[s] = outcome[s]
        /\ outcome'[r] = "abandoned"
        /\ run'[r] = (IF run[r] = "queued" THEN "unregistering" ELSE "leaving")
    BY <1>0, <1>10 DEF Abandon
  <2>2. CASE run[r] = "admitting" /\ CreateRow(r)
    BY <1>4, <2>1, <2>2
  <2>3. CASE run[r] = "finishing" /\ WriteStatus(r)
    BY <1>5, <2>1, <2>3
  <2>4. CASE UNCHANGED row
    BY <1>2, <1>6, <1>10, <2>1, <2>4 DEF Abandon, Awaiting, Working
  <2> QED
    BY <1>10, <2>2, <2>3, <2>4 DEF Abandon
<1>11. ASSUME NEW r \in Runs, HostCancel(r) \/ Expire(r)
       PROVE  RowsKnown'
  BY <1>1, <1>11 DEF HostCancel, Expire
<1>12. ASSUME NEW c \in Closers, CloserStep(c)
       PROVE  RowsKnown'
  BY <1>1, <1>12 DEF CloserStep, Call, BeginClose, CloseSlots, Check, Wake, GraceTimeout,
       CleanupTimeout, CloseConnection, CloseFails, Unlock, AbandonClose
<1>13. ASSUME NEW q \in Queries, QueryStep(q)
       PROVE  RowsKnown'
  BY <1>1, <1>13 DEF QueryStep, BeginQuery, EndQuery
<1>14. CASE UNCHANGED vars
  BY <1>1, <1>14 DEF vars
<1> QED
  BY <1>3, <1>7, <1>8, <1>9, <1>10, <1>11, <1>12, <1>13, <1>14 DEF Next, RunStep, RunFault

-----------------------------------------------------------------------------
\* Every state an engine can reach satisfies the invariant.
THEOREM Inductive == Spec => []IInv
<1>1. Init => IInv
  BY InitInvariant, LifecycleAssumption
<1>2. IInv /\ [Next]_vars => IInv'
  BY TypeStep, SlotsStep, GateStep, EmptiedStep, RowsStep, WaitStep, LifecycleAssumption DEF IInv
<1> QED
  BY <1>1, <1>2, PTL DEF Spec

\* Places, counters and rows keep their types.
THEOREM TypeCorrect == Spec => []TypeOK
<1>1. IInv => TypeOK
  BY DEF IInv
<1> QED
  BY <1>1, Inductive, PTL

\* A slot is never lost or given out twice.
THEOREM SlotsStayWhole == Spec => []SlotsConserved
<1>1. IInv => SlotsConserved
  BY DEF IInv, SlotsKnown
<1> QED
  BY <1>1, Inductive, PTL

\* The database outlives the runs and queries that use it.
THEOREM StoreIsOpen == Spec => []StoreOutlivesUsers
<1>1. IInv => StoreOutlivesUsers
  BY DEF IInv, TypeOK, SlotsKnown, Emptied, StoreOutlivesUsers, Registered, Awaiting
<1> QED
  BY <1>1, Inductive, PTL

\* The next engine of the file finds unfinished rows only where this one's
\* host dropped a run or a final write failed.
THEOREM CleanHandover == Spec => []HandoverClean
<1>1. IInv => HandoverClean
  BY DEF IInv, TypeOK, SlotsKnown, Emptied, RowsKnown, HandoverClean, Registered, Awaiting,
         Working, Owning
<1> QED
  BY <1>1, Inductive, PTL

\* A row belongs to the run that made it, which ends it once.
THEOREM RowsAreKept == Spec => RowKept
<1> DEFINE Kept == \A t \in Tasks : row[t] # NoRow /\ row'[t] # row[t]
          => /\ row'[t].owner = row[t].owner
             /\ row[t].status = "running"
             /\ run[row[t].owner] = "finishing"
<1>1. ASSUME IInv, [Next]_vars
      PROVE  Kept
  <2>0. /\ RowsKnown
        /\ row \in [Tasks -> [status : Results \cup {"absent", "running"},
                              owner  : Runs \cup {None}]]
        /\ TaskOf \in [Runs -> Tasks]
    BY <1>1, LifecycleAssumption DEF IInv, TypeOK, LifecycleAssumption
  <2>1. ASSUME NEW r \in Runs, CreateRow(r)
        PROVE  Kept
    BY <2>0, <2>1 DEF CreateRow, TaskExists
  <2>2. ASSUME NEW r \in Runs, run[r] = "finishing", WriteStatus(r)
        PROVE  Kept
    <3>1. row[TaskOf[r]] = [status |-> "running", owner |-> r] /\ TaskOf[r] \in Tasks
      BY <2>0, <2>2 DEF RowsKnown, Owning
    <3>2. row' = [row EXCEPT ![TaskOf[r]].status = outcome[r]]
      BY <2>2 DEF WriteStatus
    <3>3. \A t \in Tasks : t # TaskOf[r] => row'[t] = row[t]
      BY <2>0, <3>2
    <3>4. row'[TaskOf[r]].owner = r
      BY <2>0, <3>1, <3>2
    <3> QED
      BY <2>2, <3>1, <3>3, <3>4
  <2>3. CASE UNCHANGED row
    BY <2>3
  <2>4. ASSUME NEW r \in Runs, Admit(r) \/ Finish(r) \/ Abandon(r)
        PROVE  Kept
    BY <2>1, <2>2, <2>3, <2>4 DEF Admit, Finish, Abandon
  <2>5. ASSUME NEW r \in Runs, Register(r) \/ Acquire(r) \/ StopQueueing(r) \/ EndExecution(r)
               \/ ReleaseSlot(r) \/ Unregister(r) \/ NotifyDrained(r) \/ HostCancel(r) \/ Expire(r)
        PROVE  Kept
    BY <2>3, <2>5 DEF Register, Acquire, StopQueueing, EndExecution, ReleaseSlot, Unregister,
         NotifyDrained, HostCancel, Expire
  <2>6. ASSUME NEW c \in Closers, CloserStep(c)
        PROVE  Kept
    BY <2>3, <2>6 DEF CloserStep, Call, BeginClose, CloseSlots, Check, Wake, GraceTimeout,
         CleanupTimeout, CloseConnection, CloseFails, Unlock, AbandonClose
  <2>7. ASSUME NEW q \in Queries, QueryStep(q)
        PROVE  Kept
    BY <2>3, <2>7 DEF QueryStep, BeginQuery, EndQuery
  <2>8. CASE UNCHANGED vars
    BY <2>3, <2>8 DEF vars
  <2> QED
    BY <1>1, <2>4, <2>5, <2>6, <2>7, <2>8, LifecycleAssumption
    DEF Next, RunStep, RunFault, LifecycleAssumption
<1> QED
  BY <1>1, Inductive, PTL DEF Spec, RowKept

\* close() reports a timeout only while some run has not let go.
THEOREM TimeoutsAreHonest == Spec => CleanupTimeoutHonest
<1> DEFINE Honest == \A c \in Closers : closer[c] = "cleanup" /\ closer'[c] = "idle"
          => abandons' # abandons \/ \E r \in Runs : run[r] \notin {"idle", "returned"}
<1> USE DEF host, MoveCloser, ReturnFromClose
<1>1. ASSUME IInv, [Next]_vars
      PROVE  Honest
  <2>0. /\ closer \in [Closers -> CloserPlaces] /\ abandons \in Nat
        /\ active = {r \in Runs : run[r] \in Registered}
        /\ WaitKnown
    BY <1>1, LifecycleAssumption DEF IInv, TypeOK, SlotsKnown, LifecycleAssumption
  <2>1. CASE UNCHANGED closer
    BY <2>1
  <2>2. ASSUME NEW c \in Closers, CleanupTimeout(c)
        PROVE  Honest
    <3>1. \A d \in Closers : d # c => closer'[d] = closer[d]
      BY <2>0, <2>2 DEF CleanupTimeout
    <3>2. active # {} \/ \E r \in Runs : run[r] = "notifying"
      BY <2>0, <2>2 DEF CleanupTimeout, WaitKnown, WaitPlaces
    <3>3. \E r \in Runs : run[r] \notin {"idle", "returned"}
      BY <2>0, <3>2 DEF Registered, Awaiting, Working
    <3> QED
      BY <3>1, <3>3
  <2>3. ASSUME NEW c \in Closers, AbandonClose(c)
        PROVE  Honest
    BY <2>0, <2>3 DEF AbandonClose
  <2>4. ASSUME NEW c \in Closers, Call(c) \/ BeginClose(c) \/ CloseSlots(c)
               \/ GraceTimeout(c) \/ CloseConnection(c) \/ CloseFails(c) \/ Unlock(c)
        PROVE  Honest
    <3>1. closer[c] # "cleanup" /\ \E place \in CloserPlaces : closer' = [closer EXCEPT ![c] = place]
      BY <2>4 DEF Call, BeginClose, CloseSlots, GraceTimeout, CloseConnection, CloseFails, Unlock,
           CloserPlaces
    <3> QED
      BY <2>0, <3>1
  <2>5. ASSUME NEW c \in Closers, Check(c) \/ Wake(c)
        PROVE  Honest
    <3>1. \E place \in CloserPlaces \ {"idle"} : closer' = [closer EXCEPT ![c] = place]
      BY <2>5 DEF Check, Wake, CloserPlaces
    <3> QED
      BY <2>0, <3>1
  <2>6. ASSUME NEW r \in Runs, RunStep(r) \/ RunFault(r)
        PROVE  Honest
    BY <2>1, <2>6 DEF RunStep, RunFault, Register, Acquire, StopQueueing, Admit, EndExecution,
         Finish, ReleaseSlot, Unregister, NotifyDrained, HostCancel, Expire, Abandon
  <2>7. ASSUME NEW q \in Queries, QueryStep(q)
        PROVE  Honest
    BY <2>1, <2>7 DEF QueryStep, BeginQuery, EndQuery
  <2>8. CASE UNCHANGED vars
    BY <2>1, <2>8 DEF vars
  <2> QED
    BY <1>1, <2>2, <2>3, <2>4, <2>5, <2>6, <2>7, <2>8, LifecycleAssumption
    DEF Next, CloserStep, LifecycleAssumption
<1> QED
  BY <1>1, Inductive, PTL DEF Spec, CleanupTimeoutHonest
=============================================================================
