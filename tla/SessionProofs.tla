--------------------------- MODULE SessionProofs ---------------------------
(***************************************************************************)
(* A run and close() as a Python host sees them, for any number of tools   *)
(* and of tasks that call close(), from the tool callback or elsewhere.    *)
(*                                                                         *)
(* The argument: the parts of a run end in one order, the engine's task,   *)
(* the worker that serves its tools, the wait for the outcome, and none of *)
(* them begins again.  Whoever is told that the run is over has been       *)
(* behind the last of them, or has found that no run ever began and that   *)
(* close() no longer lets one begin.                                       *)
(***************************************************************************)
EXTENDS Session, SequenceTheorems, TLAPS

-----------------------------------------------------------------------------
\* Where the parts of a run stand relative to each other.  Before the host
\* enters there is no run; the outcome is taken when it was published and
\* the wait for it is over when the worker is; the host resumes after that.
Staged ==
    /\ host = "outside" => outcome = None
    /\ outcome = None => engine = None /\ worker = None /\ host \in {"outside", "left"}
    /\ outcome \in {"gathering", "done"} => engine = "published"
    /\ outcome = "done" => worker = "done"
    /\ host \in {"told", "left"} => Finished

\* close() succeeds when the run is over or when none can begin any more.
Closing ==
    /\ closeTask # None => closing
    /\ closeTask = "closed" => Finished
    /\ \A c \in Closers : told[c] = "closed" => closeTask = "closed"

\* Between two calls the channel is empty and the worker ready for the next.
Ready == channel = <<>> /\ (worker = "next" \/ (worker = "done" /\ (cancel \/ ~withTools)))

\* Where a request is until it is answered: in the channel, and the worker
\* takes it unless the session is cancelled; then with the worker, and its
\* reply sender in the table.
InChannel == channel = <<tool>> /\ (worker = "next" \/ (worker = "done" /\ cancel))
WithWorker == /\ channel = <<>> /\ tool \in replies /\ serving = tool
              /\ worker \in {"handed", "callback"}

\* A request is at one of these places while the engine waits for it.
Traced ==
    /\ engine \in {"spawned", "working"} => Ready
    /\ engine = "calling" => /\ withTools
                             /\ answer = None => InChannel \/ WithWorker
                             /\ answer = "ok" => Ready
    /\ engine \notin Ended => ~workerCancel
    /\ engine = None => channel = <<>>

IInv == TypeOK /\ Staged /\ Closing /\ Traced

-----------------------------------------------------------------------------
\* Before the host enters, the invariant holds.
LEMMA InitIInv == Init => IInv
<1> SUFFICES ASSUME Init
             PROVE  IInv
  OBVIOUS
<1>1. channel \in Seq(1..MaxTools) /\ Len(channel) <= 1
  BY DEF Init
<1>2. TypeOK
  <2>1. /\ {cancel, stopped, late, withTools, workerCancel, closing, nativeClosing} \subseteq BOOLEAN
        /\ closer \in [Closers -> {"idle", "waiting", "failing"}]
        /\ told \in [Closers -> {None, "closed", "failed", "invalid"}]
    BY DEF Init
  <2>2. /\ engine = None /\ tool \in 0..MaxTools /\ answer = None /\ replies = {}
        /\ worker = None /\ serving \in 0..MaxTools /\ outcome = None
        /\ host = "outside" /\ closeTask = None
    BY SessionAssumption DEF Init
  <2> QED
    BY <1>1, <2>1, <2>2 DEF TypeOK
<1>3. Staged /\ Closing /\ Traced
  BY DEF Init, Staged, Closing, Traced, Finished, None, Ended
<1> QED
  BY <1>2, <1>3 DEF IInv

\* What is taken from a channel of one slot, and what is left.
LEMMA TakeOne ==
    ASSUME NEW S, NEW s \in Seq(S), s # <<>>, Len(s) <= 1
    PROVE  Head(s) \in S /\ Tail(s) \in Seq(S) /\ Len(Tail(s)) <= 1
BY HeadTailProperties

\* Every step keeps the types: a reply sender is in the table only while
\* the worker is handing over or serving its execution.
LEMMA StepTyped == IInv /\ [Next]_vars => TypeOK'
<1> SUFFICES ASSUME IInv, [Next]_vars
             PROVE  TypeOK'
  OBVIOUS
<1> USE DEF IInv, TypeOK, native, stops, serve, closes, None, Ended
<1>1. CASE RegisterRun
  BY <1>1 DEF RegisterRun
<1>2. CASE TakeAnswer
  BY <1>2 DEF TakeAnswer
<1>3. CASE DropCall
  BY <1>3 DEF DropCall
<1>4. CASE Publish
  BY <1>4 DEF Publish
<1>5. CASE RequestTool
  <2>1. /\ MaxTools \in Nat /\ tool \in Nat /\ tool < MaxTools /\ channel = <<>>
        /\ tool' = tool + 1 /\ channel' = Append(channel, tool + 1) /\ answer' = None
        /\ engine' = "calling"
    <3>1. MaxTools \in Nat /\ tool \in Nat /\ Len(channel) \in Nat
      BY SessionAssumption
    <3>2. tool < MaxTools /\ Len(channel) < 1
      BY <1>5 DEF RequestTool
    <3>3. channel = <<>>
      BY <3>1, <3>2
    <3> QED
      BY <1>5, <3>1, <3>2, <3>3 DEF RequestTool
  <2>2. channel' \in Seq(1..MaxTools) /\ Len(channel') <= 1 /\ tool' \in 0..MaxTools
    BY <2>1
  <2> QED
    BY <1>5, <2>1, <2>2 DEF RequestTool
<1>6. CASE EndRun
  BY <1>6 DEF EndRun
<1>7. CASE NextTool
  <2>1. replies = {} /\ answer' \in {None, "ok", "error"}
    BY <1>7 DEF NextTool, EndServing, DropSenders
  <2>2. CASE EndServing /\ UNCHANGED <<engine, tool, stops, withTools, workerCancel, outcome,
                                      host, closes>>
    BY <2>1, <2>2 DEF EndServing
  <2>3. CASE channel # <<>> /\ channel' = Tail(channel)
    <3>1. /\ Head(channel) \in 1..MaxTools
          /\ channel' \in Seq(1..MaxTools) /\ Len(channel') <= 1
      BY <2>3, TakeOne
    <3>2. /\ UNCHANGED <<engine, tool, stops, withTools, workerCancel, outcome, host, closes>>
          /\ \/ /\ replies' = {j \in replies : IsOpen(j)} \cup {Head(channel)}
                /\ worker' = "handed" /\ serving' = Head(channel)
             \/ UNCHANGED <<replies, worker, serving>>
      BY <1>7, <2>1, <2>3, <3>1 DEF NextTool, EndServing
    <3> QED
      BY <2>1, <3>1, <3>2
  <2> QED
    BY <1>7, <2>2, <2>3 DEF NextTool
<1>8. CASE StartCallback
  BY <1>8 DEF StartCallback
<1>9. CASE WorkerCancelled
  BY <1>9 DEF WorkerCancelled
<1>10. CASE CallbackReturns
  <2>1. PICK what \in {"ok", "error"} : Answer(what, "next")
    BY <1>10 DEF CallbackReturns
  <2>2. replies' = {} /\ answer' \in {None, "ok", "error"}
    BY <1>10, <2>1 DEF CallbackReturns, InCallback, Answer, Send
  <2> QED
    BY <1>10, <2>1, <2>2 DEF CallbackReturns, Answer
<1>11. CASE CallbackCancelled
  BY <1>11 DEF CallbackCancelled, InCallback, Answer, Send, IsOpen
<1>12. CASE TakeOutcome
  BY <1>12 DEF TakeOutcome
<1>13. CASE GatherWorker
  BY <1>13 DEF GatherWorker
<1>14. CASE Enter
  BY <1>14 DEF Enter, Staged
<1>15. CASE Result
  BY <1>15 DEF Result
<1>16. CASE Interrupt
  BY <1>16 DEF Interrupt, AfterInterrupt
<1>17. CASE HostCancel
  BY <1>17 DEF HostCancel
<1>18. CASE Leave
  BY <1>18 DEF Leave
<1>19. CASE HostResumes
  BY <1>19 DEF HostResumes
<1>20. CASE DeadlinePasses
  BY <1>20 DEF DeadlinePasses
<1>21. CASE NativeClose
  BY <1>21 DEF NativeClose
<1>22. CASE CancelRuns
  BY <1>22 DEF CancelRuns
<1>23. CASE NativeCloseEnds
  BY <1>23 DEF NativeCloseEnds
<1>24. CASE GatherOutcomes
  BY <1>24 DEF GatherOutcomes
<1>25. ASSUME NEW c \in Closers, Call(c)
      PROVE  TypeOK'
  BY <1>25 DEF Call
<1>26. ASSUME NEW c \in Closers, CloseReturns(c)
      PROVE  TypeOK'
  BY <1>26 DEF CloseReturns
<1>27. CASE UNCHANGED vars
  BY <1>27 DEF vars
<1> QED
  BY <1>1, <1>2, <1>3, <1>4, <1>5, <1>6, <1>7, <1>8, <1>9, <1>10, <1>11, <1>12, <1>13, <1>14, <1>15, <1>16, <1>17, <1>18, <1>19, <1>20, <1>21, <1>22, <1>23, <1>24, <1>25, <1>26, <1>27 DEF Next, Tokio, Worker, Callback, Outcome, HostTask, CloseTask

\* Every step keeps the order in which a run begins and ends.
LEMMA StepStaged == IInv /\ [Next]_vars => Staged'
<1> SUFFICES ASSUME IInv, [Next]_vars
             PROVE  Staged'
  OBVIOUS
<1> USE DEF IInv, Staged, native, stops, serve, closes, None, Ended, Finished
<1>1. CASE RegisterRun
  BY <1>1 DEF RegisterRun
<1>2. CASE TakeAnswer
  BY <1>2 DEF TakeAnswer
<1>3. CASE DropCall
  BY <1>3 DEF DropCall
<1>4. CASE Publish
  BY <1>4 DEF Publish
<1>5. CASE RequestTool
  BY <1>5 DEF RequestTool
<1>6. CASE EndRun
  BY <1>6 DEF EndRun
<1>7. CASE NextTool
  BY <1>7 DEF NextTool, EndServing, DropSenders, IsOpen
<1>8. CASE StartCallback
  BY <1>8 DEF StartCallback
<1>9. CASE WorkerCancelled
  BY <1>9 DEF WorkerCancelled
<1>10. CASE CallbackReturns
  BY <1>10 DEF CallbackReturns, InCallback, Answer, Send, IsOpen
<1>11. CASE CallbackCancelled
  BY <1>11 DEF CallbackCancelled, InCallback, Answer, Send, IsOpen
<1>12. CASE TakeOutcome
  BY <1>12 DEF TakeOutcome
<1>13. CASE GatherWorker
  BY <1>13 DEF GatherWorker
<1>14. CASE Enter
  BY <1>14 DEF Enter
<1>15. CASE Result
  BY <1>15 DEF Result
<1>16. CASE Interrupt
  BY <1>16 DEF Interrupt, AfterInterrupt
<1>17. CASE HostCancel
  BY <1>17 DEF HostCancel
<1>18. CASE Leave
  BY <1>18 DEF Leave
<1>19. CASE HostResumes
  BY <1>19 DEF HostResumes
<1>20. CASE DeadlinePasses
  BY <1>20 DEF DeadlinePasses
<1>21. CASE NativeClose
  BY <1>21 DEF NativeClose
<1>22. CASE CancelRuns
  BY <1>22 DEF CancelRuns
<1>23. CASE NativeCloseEnds
  BY <1>23 DEF NativeCloseEnds
<1>24. CASE GatherOutcomes
  BY <1>24 DEF GatherOutcomes
<1>25. ASSUME NEW c \in Closers, Call(c)
      PROVE  Staged'
  BY <1>25 DEF Call
<1>26. ASSUME NEW c \in Closers, CloseReturns(c)
      PROVE  Staged'
  BY <1>26 DEF CloseReturns
<1>27. CASE UNCHANGED vars
  BY <1>27 DEF vars
<1> QED
  BY <1>1, <1>2, <1>3, <1>4, <1>5, <1>6, <1>7, <1>8, <1>9, <1>10, <1>11, <1>12, <1>13, <1>14, <1>15, <1>16, <1>17, <1>18, <1>19, <1>20, <1>21, <1>22, <1>23, <1>24, <1>25, <1>26, <1>27 DEF Next, Tokio, Worker, Callback, Outcome, HostTask, CloseTask

\* Every step keeps track of the request that is made.
LEMMA StepTraced == IInv /\ [Next]_vars => Traced'
<1> SUFFICES ASSUME IInv, [Next]_vars
             PROVE  Traced'
  OBVIOUS
<1> USE DEF IInv, Traced, Ready, InChannel, WithWorker, native, stops, serve, closes, None, Ended
<1>1. CASE RegisterRun
  BY <1>1 DEF RegisterRun
<1>2. CASE TakeAnswer
  BY <1>2 DEF TakeAnswer
<1>3. CASE DropCall
  BY <1>3 DEF DropCall
<1>4. CASE Publish
  BY <1>4 DEF Publish
<1>5. CASE RequestTool
  BY <1>5 DEF RequestTool
<1>6. CASE EndRun
  BY <1>6 DEF EndRun
<1>7. CASE NextTool
  <2>1. /\ UNCHANGED <<engine, tool, stops, withTools, workerCancel>>
        /\ worker = "next" /\ replies = {}
    BY <1>7 DEF NextTool, TypeOK
  <2>2. CASE EndServing /\ (cancel \/ SenderGone)
    BY <2>1, <2>2 DEF EndServing, DropSenders, SenderGone
  <2>3. CASE ~cancel /\ channel # <<>> /\ channel' = Tail(channel)
    <3>1. engine \in {"calling", "ending"} \cup Ended
      BY <2>3 DEF TypeOK
    <3>2. CASE engine = "calling" /\ answer = None
      <4>1. channel = <<tool>>
        BY <2>1, <2>3, <3>2
      <4>2. Head(channel) = tool /\ Tail(channel) = <<>>
        BY <4>1
      <4> QED
        BY <1>7, <2>1, <2>3, <3>2, <4>2 DEF NextTool, EndServing, DropSenders, IsOpen
    <3>3. CASE ~(engine = "calling" /\ answer = None)
      <4>1. engine = "calling" => answer # "ok"
        BY <2>3
      <4>2. answer' = answer
        BY <1>7, <2>3, <3>3 DEF NextTool, DropSenders, IsOpen
      <4> QED
        BY <2>1, <3>1, <3>3, <4>1, <4>2
    <3> QED
      BY <3>2, <3>3
  <2> QED
    BY <1>7, <2>2, <2>3 DEF NextTool
<1>8. CASE StartCallback
  BY <1>8 DEF StartCallback
<1>9. CASE WorkerCancelled
  BY <1>9 DEF WorkerCancelled
<1>10. CASE CallbackReturns
  BY <1>10 DEF CallbackReturns, InCallback, Answer, Send, IsOpen
<1>11. CASE CallbackCancelled
  BY <1>11 DEF CallbackCancelled, InCallback, Answer, Send, IsOpen
<1>12. CASE TakeOutcome
  BY <1>12 DEF TakeOutcome
<1>13. CASE GatherWorker
  BY <1>13 DEF GatherWorker
<1>14. CASE Enter
  BY <1>14 DEF Enter, Staged
<1>15. CASE Result
  BY <1>15 DEF Result
<1>16. CASE Interrupt
  BY <1>16 DEF Interrupt, AfterInterrupt
<1>17. CASE HostCancel
  BY <1>17 DEF HostCancel
<1>18. CASE Leave
  BY <1>18 DEF Leave
<1>19. CASE HostResumes
  BY <1>19 DEF HostResumes
<1>20. CASE DeadlinePasses
  BY <1>20 DEF DeadlinePasses
<1>21. CASE NativeClose
  BY <1>21 DEF NativeClose
<1>22. CASE CancelRuns
  BY <1>22 DEF CancelRuns
<1>23. CASE NativeCloseEnds
  BY <1>23 DEF NativeCloseEnds
<1>24. CASE GatherOutcomes
  BY <1>24 DEF GatherOutcomes
<1>25. ASSUME NEW c \in Closers, Call(c)
      PROVE  Traced'
  BY <1>25 DEF Call
<1>26. ASSUME NEW c \in Closers, CloseReturns(c)
      PROVE  Traced'
  BY <1>26 DEF CloseReturns
<1>27. CASE UNCHANGED vars
  BY <1>27 DEF vars
<1> QED
  BY <1>1, <1>2, <1>3, <1>4, <1>5, <1>6, <1>7, <1>8, <1>9, <1>10, <1>11, <1>12, <1>13, <1>14, <1>15, <1>16, <1>17, <1>18, <1>19, <1>20, <1>21, <1>22, <1>23, <1>24, <1>25, <1>26, <1>27 DEF Next, Tokio, Worker, Callback, Outcome, HostTask, CloseTask

\* Every step keeps what close() has made sure of.
LEMMA StepClosing == IInv /\ [Next]_vars => Closing'
<1> SUFFICES ASSUME IInv, [Next]_vars
             PROVE  Closing'
  OBVIOUS
<1> USE DEF IInv, Closing, Finished, native, stops, serve, closes, None
<1>1. CASE RegisterRun
  BY <1>1 DEF RegisterRun
<1>2. CASE TakeAnswer
  BY <1>2 DEF TakeAnswer
<1>3. CASE DropCall
  BY <1>3 DEF DropCall
<1>4. CASE Publish
  BY <1>4 DEF Publish
<1>5. CASE RequestTool
  BY <1>5 DEF RequestTool
<1>6. CASE EndRun
  BY <1>6 DEF EndRun
<1>7. CASE NextTool
  BY <1>7 DEF NextTool, EndServing, DropSenders, IsOpen
<1>8. CASE StartCallback
  BY <1>8 DEF StartCallback
<1>9. CASE WorkerCancelled
  BY <1>9 DEF WorkerCancelled
<1>10. CASE CallbackReturns
  BY <1>10 DEF CallbackReturns, InCallback, Answer, Send, IsOpen
<1>11. CASE CallbackCancelled
  BY <1>11 DEF CallbackCancelled, InCallback, Answer, Send, IsOpen
<1>12. CASE TakeOutcome
  BY <1>12 DEF TakeOutcome
<1>13. CASE GatherWorker
  BY <1>13 DEF GatherWorker
<1>14. CASE Enter
  BY <1>14 DEF Enter
<1>15. CASE Result
  BY <1>15 DEF Result
<1>16. CASE Interrupt
  BY <1>16 DEF Interrupt, AfterInterrupt
<1>17. CASE HostCancel
  BY <1>17 DEF HostCancel
<1>18. CASE Leave
  BY <1>18 DEF Leave
<1>19. CASE HostResumes
  BY <1>19 DEF HostResumes
<1>20. CASE DeadlinePasses
  BY <1>20 DEF DeadlinePasses
<1>21. CASE NativeClose
  BY <1>21 DEF NativeClose
<1>22. CASE CancelRuns
  BY <1>22 DEF CancelRuns
<1>23. CASE NativeCloseEnds
  BY <1>23 DEF NativeCloseEnds
<1>24. CASE GatherOutcomes
  BY <1>24 DEF GatherOutcomes
<1>25. ASSUME NEW c \in Closers, Call(c)
      PROVE  Closing'
  BY <1>25 DEF Call
<1>26. ASSUME NEW c \in Closers, CloseReturns(c)
      PROVE  Closing'
  BY <1>26 DEF CloseReturns
<1>27. CASE UNCHANGED vars
  BY <1>27 DEF vars
<1> QED
  BY <1>1, <1>2, <1>3, <1>4, <1>5, <1>6, <1>7, <1>8, <1>9, <1>10, <1>11, <1>12, <1>13, <1>14, <1>15, <1>16, <1>17, <1>18, <1>19, <1>20, <1>21, <1>22, <1>23, <1>24, <1>25, <1>26, <1>27 DEF Next, Tokio, Worker, Callback, Outcome, HostTask, CloseTask

-----------------------------------------------------------------------------
\* The invariant holds in every state a session can reach.
THEOREM Inductive == Spec => []IInv
<1>1. IInv /\ [Next]_vars => IInv'
  BY StepTyped, StepStaged, StepTraced, StepClosing DEF IInv
<1> QED
  BY InitIInv, <1>1, PTL DEF Spec

\* The types of a session; in particular there is never a reply sender left
\* over from an earlier execution.
THEOREM TypeCorrect == Spec => []TypeOK
<1>1. IInv => TypeOK
  BY DEF IInv
<1> QED
  BY <1>1, Inductive, PTL

\* Whoever is told that the run is over, by result(), by leaving the context
\* or by close(), finds it published and no callback running: however often
\* the waits were cancelled, however many tasks call close(), and whichever
\* of its attempts fail.
THEOREM ToldWhenCleanedUp == Spec => []CleanedUp
<1>1. IInv => CleanedUp
  BY DEF IInv, Staged, Closing, CleanedUp, Finished, None
<1> QED
  BY <1>1, Inductive, PTL

\* Where a request is while the engine waits for it.
RequestHeld ==
    engine = "calling" /\ answer = None =>
        \/ channel = <<tool>> /\ (worker = "next" \/ Stop)
        \/ /\ worker \in {"handed", "callback"} /\ ~workerCancel
           /\ serving = tool /\ tool \in replies

\* No request is lost between the channel, the table of reply senders and
\* the loop: what the engine waits for is in the channel of a worker that
\* will take it, or with the worker and its sender in the table; or the run
\* is cancelled, which ends the wait.
THEOREM RequestsAreHeld == Spec => []RequestHeld
<1>1. IInv => RequestHeld
  BY DEF IInv, Traced, InChannel, WithWorker, RequestHeld, Stop, Ended
<1> QED
  BY <1>1, Inductive, PTL

Over == closeTask = "closed" => UNCHANGED <<engine, worker, closeTask>>

\* After close() has succeeded the engine does nothing any more: no run
\* begins, and none that was there goes on.
THEOREM NothingAfterClose == Spec => [][Over]_vars
<1>1. IInv /\ [Next]_vars => [Over]_vars
  <2> SUFFICES ASSUME IInv, [Next]_vars, closeTask = "closed"
               PROVE  UNCHANGED <<engine, worker, closeTask>>
    BY DEF Over
  <2>1. closing /\ engine \in {None, "published"} /\ worker \in {None, "done"}
    BY DEF IInv, Staged, Closing, Finished, None
  <2>2. CASE \E c \in Closers : Call(c) \/ CloseReturns(c)
    BY <2>2 DEF Call, CloseReturns, native, serve, None
  <2>3. CASE CallbackReturns \/ CallbackCancelled
    BY <2>1, <2>3 DEF CallbackReturns, CallbackCancelled, InCallback, None
  <2>4. CASE UNCHANGED vars
    BY <2>4 DEF vars, native, serve, closes
  <2>5. CASE Worker \/ Outcome \/ HostTask \/ HostResumes \/ DeadlinePasses \/ CloseTask
    BY <2>1, <2>5 DEF Worker, NextTool, StartCallback, WorkerCancelled, Outcome, TakeOutcome,
          GatherWorker, HostTask, Enter, Result, Interrupt, HostCancel, Leave, HostResumes,
          DeadlinePasses, CloseTask, NativeClose, CancelRuns, NativeCloseEnds, GatherOutcomes,
          native, serve, closes, None
  <2>6. CASE Tokio \/ RequestTool \/ EndRun
    BY <2>1, <2>6 DEF Tokio, RegisterRun, TakeAnswer, DropCall, Publish, RequestTool, EndRun, None
  <2> QED
    BY <2>2, <2>3, <2>4, <2>5, <2>6 DEF Next, Callback
<1> QED
  BY <1>1, Inductive, PTL DEF Spec
=============================================================================
