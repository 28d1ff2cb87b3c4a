------------------------------ MODULE Session ------------------------------
(***************************************************************************)
(* One run as a Python host sees it (src/python/.../_run.py, __init__.py)  *)
(* and the bridge it crosses (src/src/bindings.rs).  The asyncio loop has  *)
(* four tasks: the worker that serves host tools, the one that waits for   *)
(* the outcome, the host inside `async with engine.stream(...)`, and       *)
(* Engine.close().  On the Tokio side the engine runs the task and waits,  *)
(* while it executes a tool, for a reply that goes through a one-slot      *)
(* channel and the table of reply senders.                                 *)
(*                                                                         *)
(* An asyncio step runs until its next await, a Tokio step until its next  *)
(* await or lock; they interleave.  Of the engine only what it does with   *)
(* the bridge is kept: TaskRun has the rest.  Executions of tools are      *)
(* numbered in the order of their requests.  A host that is cancelled in   *)
(* close() goes on waiting and is told at the end, so that is no action.   *)
(***************************************************************************)
EXTENDS Naturals, Sequences

CONSTANTS
    Closers,    \* who calls Engine.close()
    InTool,     \* those of them that are called by the tool callback
    MaxTools    \* bound: tools the engine executes in one run

ASSUME SessionAssumption == InTool \subseteq Closers /\ MaxTools \in Nat

VARIABLES
    engine,                 \* where the engine's run is
    tool, answer,           \* the execution it waits for; what its oneshot holds
    channel, replies,       \* the work channel; executions with a reply sender
    cancel, stopped, late,  \* session token; run token by close; deadline
    withTools,              \* whether the engine was given a tool executor
    worker, serving,        \* _serve_tools and the execution it serves
    workerCancel,           \* the worker's asyncio task is being cancelled
    outcome,                \* _wait_result
    host,                   \* the host's task
    closing, nativeClosing, \* Engine._closing and Lifecycle.closing
    closeTask,              \* the _finish_close task in Engine._close_task
    closer, told            \* the callers of close() and what it told them

native  == <<engine, tool, answer, channel, replies>>
stops   == <<cancel, stopped, late>>
serve   == <<worker, serving, workerCancel>>
closes  == <<closing, nativeClosing, closeTask, closer, told>>
vars    == <<native, stops, withTools, serve, outcome, host, closes>>

None  == "none"
Ended == {"over", "published"}

Init ==
    /\ engine = None /\ tool = 0 /\ answer = None
    /\ channel = <<>> /\ replies = {}
    /\ cancel = FALSE /\ stopped = FALSE /\ late = FALSE
    /\ withTools \in BOOLEAN
    /\ worker = None /\ serving = 0 /\ workerCancel = FALSE
    /\ outcome = None /\ host = "outside"
    /\ closing = FALSE /\ nativeClosing = FALSE
    /\ closeTask = None /\ closer = [c \in Closers |-> "idle"]
    /\ told = [c \in Closers |-> None]

-----------------------------------------------------------------------------
\* Defects for the mutation runs: each has the shape of the definition it
\* stands in for.
RefusesNobody(c)  == FALSE
ReturnsAtOnce     == "told"
GoneWhenEmpty     == channel = <<>>
AnswerKeeping(what, place) ==
    /\ answer' = IF engine = "calling" /\ tool = serving /\ answer = None THEN what
                                                                         ELSE answer
    /\ worker' = place
    /\ UNCHANGED <<engine, tool, channel, replies, stops, withTools, serving, outcome,
                   host, closes>>

Stop         == cancel \/ stopped
RefusesClose(c) == c \in InTool
AfterInterrupt  == "draining"

\* The engine still waits for execution i: its reply is not closed.
IsOpen(i) == engine = "calling" /\ tool = i /\ answer = None

\* The engine's half of the work channel is dropped.
SenderGone == ~withTools \/ engine \in Ended

\* Dropping a reply sender ends the wait with an error; sending into one
\* whose receiver is gone does nothing.
Send(i, what) == answer' = IF IsOpen(i) THEN what ELSE answer
DropSenders(S) == answer' = IF \E i \in S : IsOpen(i) THEN "error" ELSE answer

Finished == outcome \in {None, "done"}

-----------------------------------------------------------------------------
\* __aenter__: one step of the loop, so that close() cannot come between.
Enter ==
    /\ host = "outside"
    /\ IF closing
       THEN host' = "left" /\ UNCHANGED <<engine, worker, outcome>>
       ELSE /\ host' = "inside" /\ engine' = "spawned"
            /\ worker' = "next" /\ outcome' = "waiting"
    /\ UNCHANGED <<tool, answer, channel, replies, stops, withTools, serving,
                   workerCancel, closes>>

\* run_with_host: registration against close(), then the run.
RegisterRun ==
    /\ engine = "spawned"
    /\ engine' = IF nativeClosing THEN "over" ELSE "working"
    /\ UNCHANGED <<tool, answer, channel, replies, stops, withTools, serve, outcome,
                   host, closes>>

\* HostBridge::execute sends its work; the channel has one slot.
RequestTool ==
    /\ engine = "working"
    /\ withTools /\ ~Stop /\ ~late
    /\ tool < MaxTools
    /\ Len(channel) < 1
    /\ engine' = "calling" /\ tool' = tool + 1 /\ answer' = None
    /\ channel' = Append(channel, tool + 1)
    /\ UNCHANGED <<replies, stops, withTools, serve, outcome, host, closes>>

\* The engine takes the reply, unless its token is cancelled; a tool that
\* failed ends the run.
TakeAnswer ==
    /\ engine = "calling"
    /\ ~Stop /\ answer # None
    /\ engine' = IF answer = "ok" THEN "working" ELSE "ending"
    /\ UNCHANGED <<tool, answer, channel, replies, stops, withTools, serve, outcome,
                   host, closes>>

\* Token and timer drop the call and with it the receiver of the reply.
DropCall ==
    /\ engine = "calling"
    /\ Stop \/ (late /\ answer = None)
    /\ engine' = "ending"
    /\ UNCHANGED <<tool, answer, channel, replies, stops, withTools, serve, outcome,
                   host, closes>>

\* The run is accounted for and returns; the executor is dropped with it.
EndRun ==
    /\ engine \in {"working", "ending"}
    /\ engine' = "over"
    /\ UNCHANGED <<tool, answer, channel, replies, stops, withTools, serve, outcome,
                   host, closes>>

Publish ==
    /\ engine = "over"
    /\ engine' = "published"
    /\ UNCHANGED <<tool, answer, channel, replies, stops, withTools, serve, outcome,
                   host, closes>>

-----------------------------------------------------------------------------
\* next_tool: cancellation, then work, then the closed channel.  Work that
\* nobody waits for any more, or too late for the callback, is dropped.
EndServing ==
    /\ replies' = {}
    /\ DropSenders(replies)
    /\ worker' = "done"
    /\ UNCHANGED <<channel, serving>>

NextTool ==
    /\ worker = "next"
    /\ \/ cancel /\ EndServing
       \/ /\ ~cancel /\ channel # <<>>
          /\ channel' = Tail(channel)
          /\ LET i == Head(channel)
             IN  IF IsOpen(i) /\ ~late
                 THEN /\ replies' = {j \in replies : IsOpen(j)} \cup {i}
                      /\ worker' = "handed" /\ serving' = i
                      /\ UNCHANGED answer
                 ELSE /\ DropSenders({i})
                      /\ UNCHANGED <<replies, worker, serving>>
       \/ /\ ~cancel /\ channel = <<>> /\ SenderGone
          /\ EndServing
    /\ UNCHANGED <<engine, tool, stops, withTools, workerCancel, outcome, host, closes>>

\* The request reaches the asyncio loop, which calls the callback.
StartCallback ==
    /\ worker = "handed" /\ ~workerCancel
    /\ worker' = "callback"
    /\ UNCHANGED <<native, stops, withTools, serving, workerCancel, outcome, host, closes>>

InCallback == worker = "callback" /\ \A c \in InTool : closer[c] = "idle"

\* reply or fail_tool: the sender leaves the table whoever still listens.
Answer(what, place) ==
    /\ replies' = replies \ {serving}
    /\ IF serving \in replies THEN Send(serving, what) ELSE UNCHANGED answer
    /\ worker' = place
    /\ UNCHANGED <<engine, tool, channel, stops, withTools, serving, outcome, host, closes>>

\* A callback that comes back has dealt with the cancellation it was sent.
CallbackReturns ==
    /\ InCallback
    /\ \E what \in {"ok", "error"} : Answer(what, "next")
    /\ workerCancel' = FALSE

\* CancelledError, from the worker or from within, ends the worker too.
CallbackCancelled ==
    /\ InCallback
    /\ Answer("error", "done")
    /\ UNCHANGED workerCancel

WorkerCancelled ==
    /\ worker \in {"next", "handed"}
    /\ workerCancel
    /\ worker' = "done"
    /\ UNCHANGED <<native, stops, withTools, serving, workerCancel, outcome, host, closes>>

-----------------------------------------------------------------------------
\* _wait_result: the outcome, then the worker's end, then the registration.
TakeOutcome ==
    /\ outcome = "waiting"
    /\ engine = "published"
    /\ outcome' = "gathering"
    /\ workerCancel' = (worker # "done")
    /\ UNCHANGED <<native, stops, withTools, worker, serving, host, closes>>

GatherWorker ==
    /\ outcome = "gathering"
    /\ worker = "done"
    /\ outcome' = "done"
    /\ UNCHANGED <<native, stops, withTools, serve, host, closes>>

\* The host: result() or the end of the context, cancelled any number of
\* times on the way.
Result ==
    /\ host = "inside"
    /\ host' = "result"
    /\ UNCHANGED <<native, stops, withTools, serve, outcome, closes>>

Interrupt ==
    /\ host \in {"result", "draining", "exiting"}
    /\ ~Finished
    /\ cancel' = TRUE
    /\ host' = IF host = "exiting" THEN host ELSE AfterInterrupt
    /\ UNCHANGED <<native, stopped, late, withTools, serve, outcome, closes>>

HostCancel ==
    /\ host = "inside"
    /\ cancel' = TRUE
    /\ UNCHANGED <<native, stopped, late, withTools, serve, outcome, host, closes>>

Leave ==
    /\ host \in {"inside", "told"}
    /\ host' = "exiting"
    /\ cancel' = (cancel \/ ~Finished)
    /\ UNCHANGED <<native, stopped, late, withTools, serve, outcome, closes>>

HostResumes ==
    /\ host \in {"result", "draining", "exiting"}
    /\ Finished
    /\ host' = IF host = "exiting" THEN "left" ELSE "told"
    /\ UNCHANGED <<native, stops, withTools, serve, outcome, closes>>

DeadlinePasses ==
    /\ ~late
    /\ late' = TRUE
    /\ UNCHANGED <<native, cancel, stopped, withTools, serve, outcome, host, closes>>

-----------------------------------------------------------------------------
\* Engine.close(): the first call, or one after a failure, starts the task
\* that all callers wait for.  A call from a tool callback of this engine
\* raises in the callback instead.
Call(c) ==
    /\ closer[c] = "idle"
    /\ c \in InTool => worker = "callback"
    /\ ~RefusesClose(c)
    /\ closing' = TRUE
    /\ closeTask' = IF closeTask \in {None, "failed"} THEN "starting" ELSE closeTask
    /\ closer' = [closer EXCEPT ![c] = "waiting"]
    /\ UNCHANGED <<native, stops, withTools, serve, outcome, host, nativeClosing, told>>

NativeClose ==
    /\ closeTask = "starting"
    /\ closeTask' = "native" /\ nativeClosing' = TRUE
    /\ UNCHANGED <<native, stops, withTools, serve, outcome, host, closing, closer, told>>

\* The grace period is over: the run's own token, a child of the session's.
CancelRuns ==
    /\ closeTask = "native" /\ ~stopped
    /\ engine \notin {None, "spawned"} \cup Ended
    /\ stopped' = TRUE
    /\ UNCHANGED <<native, cancel, late, withTools, serve, outcome, host, closes>>

\* Lifecycle has what happens in between: it succeeds when no run is
\* registered and may fail while one is, or when SQLite does.  A failure
\* ends the wait of everybody, who then resumes in his own time.
NativeCloseEnds ==
    /\ closeTask = "native"
    /\ \/ /\ engine \in {None, "spawned"} \cup Ended
          /\ closeTask' = "gather"
          /\ UNCHANGED closer
       \/ /\ closeTask' = "failed"
          /\ closer' = [c \in Closers |-> IF closer[c] = "waiting" THEN "failing"
                                                                  ELSE closer[c]]
    /\ UNCHANGED <<native, stops, withTools, serve, outcome, host, closing, nativeClosing,
                   told>>

GatherOutcomes ==
    /\ closeTask = "gather"
    /\ Finished
    /\ closeTask' = "closed"
    /\ UNCHANGED <<native, stops, withTools, serve, outcome, host, closing, nativeClosing,
                   closer, told>>

\* A caller that resumes asks Engine._close_task for its result, which may
\* by now be another task than the one it waited for: asyncio raises
\* InvalidStateError when that is not done.
CloseReturns(c) ==
    /\ \/ closer[c] = "waiting" /\ closeTask = "closed"
       \/ closer[c] = "failing"
    /\ closer' = [closer EXCEPT ![c] = "idle"]
    /\ told' = [told EXCEPT ![c] = IF closeTask \in {"closed", "failed"} THEN closeTask
                                                                      ELSE "invalid"]
    /\ UNCHANGED <<native, stops, withTools, serve, outcome, host, closing, nativeClosing,
                   closeTask>>

-----------------------------------------------------------------------------
Tokio     == RegisterRun \/ TakeAnswer \/ DropCall \/ Publish
Worker    == NextTool \/ StartCallback \/ WorkerCancelled
Callback  == CallbackReturns \/ CallbackCancelled
Outcome   == TakeOutcome \/ GatherWorker
HostTask  == Enter \/ Result \/ Interrupt \/ HostCancel \/ Leave
CloseTask == NativeClose \/ CancelRuns \/ NativeCloseEnds \/ GatherOutcomes

Next ==
    \/ Tokio \/ RequestTool \/ EndRun
    \/ Worker \/ Callback \/ Outcome
    \/ HostTask \/ HostResumes \/ DeadlinePasses
    \/ CloseTask
    \/ \E c \in Closers : Call(c) \/ CloseReturns(c)

Spec == Init /\ [][Next]_vars

\* Both runtimes go on with what is ready; a run that is to stop ends
\* (StopEnds of module TaskRun) and native close() comes back.  Callbacks
\* end, as the host must see to when they are cancelled.
FairSpec ==
    /\ Spec
    /\ WF_vars(Tokio) /\ WF_vars((Stop \/ late \/ engine = "ending") /\ EndRun)
    /\ WF_vars(Worker) /\ WF_vars(Callback)
    /\ WF_vars(Outcome) /\ WF_vars(HostResumes)
    /\ WF_vars(CloseTask) /\ WF_vars(NativeCloseEnds)
    /\ \A c \in Closers : WF_vars(CloseReturns(c))

-----------------------------------------------------------------------------
TypeOK ==
    /\ engine \in {None, "spawned", "working", "calling", "ending"} \cup Ended
    /\ tool \in 0..MaxTools /\ answer \in {None, "ok", "error"}
    /\ channel \in Seq(1..MaxTools) /\ Len(channel) <= 1
    /\ replies \subseteq IF worker \in {None, "next"} THEN {} ELSE {serving} \cap 1..MaxTools
    /\ {cancel, stopped, late, withTools, workerCancel, closing, nativeClosing}
          \subseteq BOOLEAN
    /\ worker \in {None, "next", "handed", "callback", "done"}
    /\ serving \in 0..MaxTools
    /\ outcome \in {None, "waiting", "gathering", "done"}
    /\ host \in {"outside", "inside", "result", "draining", "told", "exiting", "left"}
    /\ closeTask \in {None, "starting", "native", "failed", "gather", "closed"}
    /\ closer \in [Closers -> {"idle", "waiting", "failing"}]
    /\ told \in [Closers -> {None, "closed", "failed", "invalid"}]

\* Whoever is told that a run is over, by result(), by leaving its context
\* or by close(), and however often its wait was cancelled, finds the run
\* accounted for and no tool callback of it running.
CleanedUp ==
    host \in {"told", "left"} \/ (\E c \in Closers : told[c] = "closed") =>
        /\ engine \in {None, "published"}
        /\ worker \in {None, "done"}

\* A tool the engine asks for is served, or the engine stops waiting for
\* it: no request is lost between the channel, the table and the loop.
ToolServed ==
    \A i \in 1..MaxTools :
        (engine = "calling" /\ tool = i)
            ~> (worker = "callback" /\ serving = i) \/ engine # "calling"

\* A host that leaves the context or is cancelled comes back, and so does
\* close(), from wherever it is called: nobody waits in a circle.
SessionEnds ==
    /\ host \in {"draining", "exiting"} ~> host \in {"told", "left"}
    /\ \A c \in Closers : closer[c] # "idle" ~> closer[c] = "idle"

\* usage.md: a close() that times out says so, and may be called again.
CloseTellsFailure == \A c \in Closers : told[c] # "invalid"
=============================================================================
