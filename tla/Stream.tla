------------------------------- MODULE Stream -------------------------------
(***************************************************************************)
(* One model call from dispatch to settlement (dispatch_model in           *)
(* src/src/engine/invocation/dispatch.rs) through the wire adapter         *)
(* (src/src/adapter.rs): server-sent events that arrive cut anywhere, the  *)
(* accumulator of either endpoint, the evidence that outlives the dropped  *)
(* future, and the increments sent to a bounded event channel.             *)
(*                                                                         *)
(* A step ends where the future waits: for bytes, or for room in the event *)
(* channel.  Bytes are not spelled: what a line says is chosen when it     *)
(* ends.  What the provider sends, and when it stops, is free.             *)
(***************************************************************************)
EXTENDS Integers, Sequences, SequencesExt

CONSTANTS
    Nodes,         \* who asks: snapshot.role
    Names,         \* by endpoint: the frames a provider may send
    Frame,         \* what each of them says
    Split,         \* the frames that may be written as two data lines
    Usages, Tokens,         \* valid usage reports, and their input and output
    InputPrice, OutputPrice, MaxCost,   \* Model; MaxCost stands for u64::MAX
    ArgumentTexts, \* the joined fragments that are JSON
    MaxTools,      \* tool calls one answer may hold
    FrameLimit,    \* config.stream_frame_max_bytes, in lines
    OutputLimit,   \* config.context_max_bytes
    PartSize,      \* characters that one event may carry
    Capacity,      \* config.event_capacity
    MaxFrames      \* bound: frames received

VARIABLES
    endpoint, node,  \* Model.endpoint, Snapshot.role
    place,           \* where the future is
    line,            \* 1 when bytes of a line were read and not yet its end
    data,            \* data lines of the frame that is being read
    acc,             \* Accumulator
    evidence,        \* ModelEvidence, shared with the engine
    parts,           \* characters of the last delta that are still to be sent
    channel, shown,  \* events on their way; characters the host has read
    reader,          \* the host's end of the event channel
    stopped,         \* the token is cancelled, or else the time is over
    received,        \* the frames that were read whole, in order
    outcome, bill    \* what dispatch_model returns, and settles with

given  == <<endpoint, node>>
wire   == <<line, data>>
host   == <<shown, reader, stopped>>
vars   == <<given, place, wire, acc, evidence, parts, channel, host, received, outcome, bill>>

None      == "none"
Unknown   == -1
Chat      == "chat"
Responses == "responses"

Fragments == [index : Nat \cup {Unknown}, id : Seq(STRING), name : Seq(STRING),
              args : Seq(STRING)]
\* A choice may have no index, and may or may not have content, which may
\* be empty.
ChatChoices == {c \in [index : Nat \cup {Unknown}, speaks : BOOLEAN, text : Seq(STRING),
                       tools : Seq(Fragments),
                       finish : {None, "stop", "tool_calls", "length"}] :
                   ~c.speaks => c.text = <<>>}

ASSUME StreamAssumption ==
    /\ DOMAIN Names \subseteq {Chat, Responses}
    /\ \A n \in Names[Chat] :
          /\ Frame[n].error \in BOOLEAN /\ Frame[n].id \in STRING
          /\ Frame[n].usage \in Usages \cup {"absent", "malformed"}
          /\ Frame[n].choices \in Seq(ChatChoices)
    /\ \A n \in Names[Responses] :
          /\ Frame[n].error \in BOOLEAN /\ Frame[n].id \in STRING
          /\ Frame[n].type \in {"delta", "completed", "incomplete", "failed", "error", "other"}
          /\ Frame[n].usage \in Usages \cup {"absent", "malformed"}
          /\ Frame[n].text \in Seq(STRING) /\ Frame[n].status \in STRING
          /\ Frame[n].calls \in Seq(Fragments)
    /\ {None, "absent", "malformed"} \cap Usages = {}
    /\ Tokens \in [Usages -> [input : Nat, output : Nat]]
    /\ {InputPrice, OutputPrice, MaxCost, FrameLimit, OutputLimit, MaxTools, MaxFrames}
          \subseteq Nat
    /\ {PartSize, Capacity} \subseteq Nat \ {0}

-----------------------------------------------------------------------------
\* Accumulator::default, ModelEvidence::default.
NoCall    == [id |-> <<>>, name |-> <<>>, args |-> <<>>]
NewAnswer == [text |-> <<>>, tools |-> <<>>, usage |-> None, id |-> None, complete |-> FALSE]
Nothing   == [usage |-> None, id |-> None]

Init ==
    /\ endpoint \in DOMAIN Names /\ node \in Nodes
    /\ place = "dispatch"
    /\ line = 0 /\ data = <<>>
    /\ acc = NewAnswer /\ evidence = Nothing
    /\ parts = <<>> /\ channel = <<>> /\ shown = <<>> /\ reader = "reading"
    /\ stopped = None
    /\ received = <<>>
    /\ outcome = None /\ bill = Unknown

-----------------------------------------------------------------------------
\* Events are bounded: a delta is sent in parts.
PartLength == IF Len(parts) < PartSize THEN Len(parts) ELSE PartSize

\* Defects for the mutation runs: each has the shape of the definition it
\* stands in for.
RecordWhatIsThere(usage, id) == [usage |-> usage, id |-> id]
WideCost(n)                  == n
FinishedOnce(finish)         == acc.complete \/ finish \in {"stop", "tool_calls"}
SendFirstPart ==
    /\ place = "emitting" /\ stopped # "cancelled"
    /\ Len(channel) < Capacity
    /\ channel' = Append(channel, SubSeq(parts, 1, PartLength))
    /\ parts' = <<>> /\ place' = "reading"
    /\ UNCHANGED <<given, wire, acc, evidence, host, received, outcome, bill>>

\* ModelEvidence::record: missing fields do not erase what was received.
Record(usage, id) == [usage |-> IF usage = None THEN evidence.usage ELSE usage,
                      id    |-> IF id = None THEN evidence.id ELSE id]

\* The usage dispatch_model settles with: the answer's, or the evidence.
Settled(kind) == IF kind = "ok" /\ acc.usage # None THEN acc.usage ELSE evidence.usage

Saturated(n) == IF n > MaxCost THEN MaxCost ELSE n
Cost(usage)  == Saturated(Saturated(Tokens[usage].input * InputPrice)
                          + Saturated(Tokens[usage].output * OutputPrice))

\* parse_usage, of a report that is there.
ParseUsage(report) == IF report \in Usages THEN report ELSE None

\* Fragments of a tool call are joined by its index.
AddFragment(tools, t) ==
    LET call == IF t.index \in DOMAIN tools THEN tools[t.index] ELSE NoCall
        more == [id   |-> call.id \o t.id,
                 name |-> call.name \o t.name,
                 args |-> call.args \o t.args]
    IN  [i \in DOMAIN tools \cup {t.index} |-> IF i = t.index THEN more ELSE tools[i]]
AddFragments(tools, fragments) == FoldLeft(AddFragment, tools, fragments)

\* finish_reason: the last one says whether the answer is complete.
Finished(finish) == (finish = None /\ acc.complete) \/ finish \in {"stop", "tool_calls"}

-----------------------------------------------------------------------------
\* The choices of a chat frame that are read: those of index 0, or without
\* an index.  Their text and fragments are joined, but only the content of
\* the last one is handed on as the frame's increment.
Mine(f)     == {k \in DOMAIN f.choices : f.choices[k].index \in {0, Unknown}}
Speaking(f) == {k \in Mine(f) : f.choices[k].speaks}
Ending(f)   == {k \in Mine(f) : f.choices[k].finish # None}

ChatText(f)   == FlattenSeq([k \in DOMAIN f.choices |->
                               IF k \in Mine(f) THEN f.choices[k].text ELSE <<>>])
ChatTools(f)  == FlattenSeq([k \in DOMAIN f.choices |->
                               IF k \in Mine(f) THEN f.choices[k].tools ELSE <<>>])
ChatDelta(f)  == IF Speaking(f) = {} THEN <<>> ELSE f.choices[Max(Speaking(f))].text
ChatFinish(f) == IF Ending(f) = {} THEN None ELSE f.choices[Max(Ending(f))].finish

\* Accumulator::frame: the accumulator after a frame, the increment it adds
\* and the error it ends with.  An accumulator that met an error is dropped,
\* with whatever had been joined to it.
ChatFrame(f) ==
    LET counted == [acc EXCEPT !.id    = IF f.id = None THEN @ ELSE f.id,
                               !.usage = IF f.usage = "absent" THEN @ ELSE ParseUsage(f.usage)]
    IN  IF \E i \in DOMAIN ChatTools(f) : ChatTools(f)[i].index = Unknown
        THEN [acc |-> counted, delta |-> <<>>, error |-> "protocol"]
        ELSE [acc   |-> [counted EXCEPT !.text     = @ \o ChatText(f),
                                        !.tools    = AddFragments(@, ChatTools(f)),
                                        !.complete = Finished(ChatFinish(f))],
              delta |-> ChatDelta(f), error |-> None]

\* The last event of a Responses stream brings the calls by position.
ResponsesFrame(f) ==
    CASE f.type = "delta" ->
           [acc |-> [acc EXCEPT !.text = @ \o f.text], delta |-> f.text, error |-> None]
      [] f.type \in {"completed", "incomplete", "failed"} ->
           [acc   |-> [acc EXCEPT !.complete = f.type = "completed" /\ f.status = "completed",
                                  !.id       = f.id,
                                  !.usage    = ParseUsage(f.usage),
                                  !.tools    = [i \in DOMAIN f.calls \cup DOMAIN acc.tools |->
                                                  IF i \in DOMAIN f.calls
                                                  THEN [id   |-> f.calls[i].id,
                                                        name |-> f.calls[i].name,
                                                        args |-> f.calls[i].args]
                                                  ELSE acc.tools[i]]],
            delta |-> <<>>, error |-> None]
      [] f.type = "error" -> [acc |-> acc, delta |-> <<>>, error |-> "model"]
      [] OTHER            -> [acc |-> acc, delta |-> <<>>, error |-> None]

ReadFrame(f) ==
    CASE f.error               -> [acc |-> acc, delta |-> <<>>, error |-> "model"]
      [] ~f.error /\ endpoint = Chat -> ChatFrame(f)
      [] OTHER                 -> ResponsesFrame(f)

\* Accumulator::bytes.
Bytes(answer) ==
    Len(answer.text)
      + MapThenSumSet(LAMBDA i : Len(answer.tools[i].id) + Len(answer.tools[i].name)
                                   + Len(answer.tools[i].args), DOMAIN answer.tools)

TooLarge(answer) == Bytes(answer) > OutputLimit \/ Cardinality(DOMAIN answer.tools) > MaxTools

\* Accumulator::finish.
Usable(call) == call.id # <<>> /\ call.name # <<>> /\ call.args \in ArgumentTexts
FinishKind   == IF \A i \in DOMAIN acc.tools : Usable(acc.tools[i]) THEN "ok" ELSE "protocol"

-----------------------------------------------------------------------------
\* What the lines of the stream are: blank (with or without a carriage
\* return), a data line with a piece of a frame, a comment or another field,
\* or bytes that are not UTF-8.
Pieces   == (Names[endpoint] \X {"whole"}) \cup ((Split \cap Names[endpoint]) \X {"head", "tail"})
               \cup {<<"[DONE]", "whole">>}
Lines    == ({"blank", "cr", "other", "bad"} \X {None}) \cup ({"data"} \X Pieces)
Size(l)  == IF l[1] = "blank" THEN 0 ELSE 1

\* Data lines are joined before they are parsed.
IsDone   == data = <<<<"[DONE]", "whole">>>>
Parsed   == {n \in Names[endpoint] : \/ data = <<<<n, "whole">>>>
                                     \/ data = <<<<n, "head">>, <<n, "tail">>>>}

\* A line or frame that has begun and is not read whole.
Truncated == line > 0 \/ data # <<>>

End(kind) == place' = "settle" /\ outcome' = kind

\* The checks of dispatch_model, then the request and the head of its
\* response.
Dispatch ==
    /\ place = "dispatch"
    /\ IF stopped # None THEN End("not_dispatched")
                         ELSE place' = "connect" /\ UNCHANGED outcome
    /\ UNCHANGED <<given, wire, acc, evidence, parts, channel, host, received, bill>>

Connect ==
    /\ place = "connect"
    /\ \/ \E kind \in {"credentials", "model", "protocol"} : End(kind)
       \/ place' = "reading" /\ UNCHANGED outcome
    /\ UNCHANGED <<given, wire, acc, evidence, parts, channel, host, received, bill>>

\* Bytes of the current line; the frame read so far is bounded.
ReadBytes ==
    /\ place = "reading" /\ line = 0
    /\ line' = 1
    /\ IF line' + Len(data) > FrameLimit THEN End("protocol")
                                             ELSE UNCHANGED <<place, outcome>>
    /\ UNCHANGED <<given, data, acc, evidence, parts, channel, host, received, bill>>

\* The end of a line that does not end a frame.
ReadLine(l) ==
    /\ place = "reading" /\ Size(l) = line
    /\ l[1] \in {"blank", "cr"} => data = <<>>
    /\ l[1] = "data" => Len(received) < MaxFrames \/ l[2][1] = "[DONE]"
    /\ IF l[1] = "bad" THEN End("protocol") ELSE UNCHANGED <<place, outcome>>
    /\ line' = 0
    /\ data' = IF l[1] = "data" THEN Append(data, l[2]) ELSE data
    /\ UNCHANGED <<given, acc, evidence, parts, channel, host, received, bill>>

\* What is known of usage and identity is recorded before anything about
\* the frame can fail or wait.
TakeFrame(n) ==
    LET read == ReadFrame(Frame[n])
    IN  /\ Len(received) < MaxFrames
        /\ received' = Append(received, n)
        /\ acc' = read.acc
        /\ evidence' = Record(read.acc.usage, read.acc.id)
        /\ IF read.error # None \/ TooLarge(read.acc)
           THEN /\ End(IF read.error # None THEN read.error ELSE "protocol")
                /\ UNCHANGED parts
           ELSE /\ parts' = IF node = "planner" THEN <<>> ELSE read.delta
                /\ place' = IF parts' = <<>> THEN "reading" ELSE "emitting"
                /\ UNCHANGED outcome

\* A blank line ends the frame.
ReadFrameEnd(l) ==
    /\ place = "reading" /\ Size(l) = line
    /\ l[1] \in {"blank", "cr"} /\ data # <<>>
    /\ line' = 0 /\ data' = <<>>
    /\ \/ \E n \in Parsed : TakeFrame(n)
       \/ /\ Parsed = {}
          /\ End(IF IsDone THEN FinishKind ELSE "protocol")
          /\ UNCHANGED <<acc, evidence, parts, received>>
    /\ UNCHANGED <<given, channel, host, bill>>

\* The connection breaks, or the body ends.
StreamBreaks ==
    /\ place = "reading"
    /\ End("model")
    /\ UNCHANGED <<given, wire, acc, evidence, parts, channel, host, received, bill>>

StreamEnds ==
    /\ place = "reading"
    /\ End(IF Truncated THEN "protocol" ELSE FinishKind)
    /\ UNCHANGED <<given, wire, acc, evidence, parts, channel, host, received, bill>>

\* emit_delta: an event waits for room, unless its reader has left.
SendPart ==
    /\ place = "emitting" /\ stopped # "cancelled"
    /\ \/ reader = "closed" /\ UNCHANGED channel
       \/ /\ reader = "reading" /\ Len(channel) < Capacity
          /\ channel' = Append(channel, SubSeq(parts, 1, PartLength))
    /\ parts' = SubSeq(parts, PartLength + 1, Len(parts))
    /\ place' = IF parts' = <<>> THEN "reading" ELSE "emitting"
    /\ UNCHANGED <<given, wire, acc, evidence, host, received, outcome, bill>>

EventTooLarge ==
    /\ place = "emitting"
    /\ End("protocol")
    /\ UNCHANGED <<given, wire, acc, evidence, parts, channel, host, received, bill>>

\* The adapter's future is dropped, wherever it waits.
Interrupt ==
    /\ place \in {"connect", "reading", "emitting"}
    /\ stopped # None
    /\ End(stopped)
    /\ UNCHANGED <<given, wire, acc, evidence, parts, channel, host, received, bill>>

Settle ==
    /\ place = "settle"
    /\ place' = "returned"
    /\ bill' = CASE outcome = "not_dispatched"                          -> 0
                 [] outcome # "not_dispatched" /\ Settled(outcome) = None -> Unknown
                 [] OTHER                                               -> Cost(Settled(outcome))
    /\ UNCHANGED <<given, wire, acc, evidence, parts, channel, host, received, outcome>>

-----------------------------------------------------------------------------
HostReads ==
    /\ reader = "reading" /\ channel # <<>>
    /\ shown' = shown \o Head(channel)
    /\ channel' = Tail(channel)
    /\ UNCHANGED <<given, place, wire, acc, evidence, parts, reader, stopped, received,
                   outcome, bill>>

HostLeaves ==
    /\ reader = "reading"
    /\ reader' = "closed" /\ channel' = <<>>
    /\ UNCHANGED <<given, place, wire, acc, evidence, parts, shown, stopped, received,
                   outcome, bill>>

\* Cancellation is looked at first: it hides a deadline.
HostCancels ==
    /\ stopped # "cancelled" /\ place # "returned"
    /\ stopped' = "cancelled"
    /\ UNCHANGED <<given, place, wire, acc, evidence, parts, channel, shown, reader, received,
                   outcome, bill>>

TimeRunsOut ==
    /\ stopped = None /\ place # "returned"
    /\ stopped' = "deadline"
    /\ UNCHANGED <<given, place, wire, acc, evidence, parts, channel, shown, reader, received,
                   outcome, bill>>

-----------------------------------------------------------------------------
Reading  == ReadBytes \/ (\E l \in Lines : ReadLine(l) \/ ReadFrameEnd(l))
Engine   == Dispatch \/ SendPart \/ EventTooLarge \/ Interrupt \/ Settle
Provider == Connect \/ Reading \/ StreamBreaks \/ StreamEnds
Host     == HostReads \/ HostLeaves \/ HostCancels \/ TimeRunsOut

Next == Engine \/ Provider \/ Host

Spec == Init /\ [][Next]_vars

-----------------------------------------------------------------------------
Outcomes == {"ok", "not_dispatched", "credentials", "model", "protocol", "cancelled", "deadline"}
ToolCall == [id : Seq(STRING), name : Seq(STRING), args : Seq(STRING)]

TypeOK ==
    /\ endpoint \in DOMAIN Names /\ node \in Nodes
    /\ place \in {"dispatch", "connect", "reading", "emitting", "settle", "returned"}
    /\ line \in {0, 1} /\ data \in Seq(Pieces)
    /\ acc.text \in Seq(STRING) /\ acc.complete \in BOOLEAN /\ acc.id \in STRING \cup {None}
    /\ acc.usage \in Usages \cup {None}
    /\ \A i \in DOMAIN acc.tools : i \in Nat /\ acc.tools[i] \in ToolCall
    /\ evidence.usage \in Usages \cup {None} /\ evidence.id \in STRING \cup {None}
    /\ parts \in Seq(STRING) /\ shown \in Seq(STRING) /\ reader \in {"reading", "closed"}
    /\ \A i \in DOMAIN channel : Len(channel[i]) \in 1..PartSize
    /\ Len(channel) <= Capacity /\ Len(received) <= MaxFrames
    /\ stopped \in {None, "cancelled", "deadline"}
    /\ outcome \in Outcomes \cup {None} /\ bill \in {Unknown} \cup 0..MaxCost

\* What a frame says of usage; a frame that reports an error says nothing.
UsageIn(n) ==
    IF \/ Frame[n].error
       \/ endpoint = Responses /\ Frame[n].type \notin {"completed", "incomplete", "failed"}
    THEN None
    ELSE ParseUsage(Frame[n].usage)

\* usage.md: valid usage is kept from the moment it is received, and a later
\* failure to parse, a cancellation or a timeout is settled with it.  The
\* call is charged the last valid report among the frames read whole,
\* however it ends; without any it stays unknown, never zero.
ReceivedIsCharged ==
    place = "returned" /\ outcome # "not_dispatched" =>
        \/ /\ bill = Unknown
           /\ \A i \in DOMAIN received : UsageIn(received[i]) = None
        \/ \E i \in DOMAIN received :
              /\ UsageIn(received[i]) # None
              /\ \A j \in (i + 1)..Len(received) : UsageIn(received[j]) = None
              /\ bill = Cost(UsageIn(received[i]))

\* What the frames say, read one after the other.
TextIn(n) ==
    IF endpoint = Responses THEN IF Frame[n].type = "delta" THEN Frame[n].text ELSE <<>>
    ELSE ChatText(Frame[n])
ArgsIn(n, index) ==
    LET ts == ChatTools(Frame[n])
    IN  FlattenSeq([k \in DOMAIN ts |-> IF ts[k].index = index THEN ts[k].args ELSE <<>>])
CallsIn(n) ==
    IF Frame[n].type \in {"completed", "incomplete", "failed"} THEN Frame[n].calls ELSE <<>>
FinishIn(n) ==
    IF endpoint = Responses
    THEN CASE Frame[n].type = "completed" /\ Frame[n].status = "completed" -> "stop"
           [] Frame[n].type \in {"completed", "incomplete", "failed"}
                /\ Frame[n].status # "completed"                            -> "length"
           [] OTHER                                                        -> None
    ELSE ChatFinish(Frame[n])

AllText         == FlattenSeq([k \in DOMAIN received |-> TextIn(received[k])])
AllArgs(index)  == FlattenSeq([k \in DOMAIN received |-> ArgsIn(received[k], index)])
LastCall(index) ==
    CallsIn(received[Max({k \in DOMAIN received : index \in DOMAIN CallsIn(received[k])})])[index]

\* An answer is everything the provider sent, in order: no delta or fragment
\* is lost, repeated or mixed up between calls, no half frame is left, and
\* it is complete only if the provider's last word on it was that it is.
AnswerIsWhole ==
    outcome = "ok" =>
        /\ acc.text = AllText
        /\ \A i \in DOMAIN acc.tools :
              acc.tools[i].args = IF endpoint = Chat THEN AllArgs(i) ELSE LastCall(i).args
        /\ acc.complete =>
              \E i \in DOMAIN received :
                 /\ FinishIn(received[i]) \in {"stop", "tool_calls"}
                 /\ \A j \in (i + 1)..Len(received) :
                       FinishIn(received[j]) \in {None, "stop", "tool_calls"}
        /\ line = 0 /\ data = <<>>

\* What a frame has to show, and the frames that show all of their text: in
\* a chat frame with two contents for the answer the last one takes the
\* place of the others, which are in the answer and never shown.
ShownIn(n)    == IF endpoint = Responses THEN TextIn(n) ELSE ChatDelta(Frame[n])
AllShown      == FlattenSeq([k \in DOMAIN received |-> ShownIn(received[k])])
OneContent(n) == endpoint = Chat => \A j, k \in Speaking(Frame[n]) : j = k

\* A host that stays reads every increment once, in order and before the
\* next frame is read, and all of them if the call succeeds; they are the
\* text of the answer as long as no frame has two contents.  A planner's
\* text is never shown.
IncrementsInOrder ==
    LET emitted == shown \o FlattenSeq(channel)
        going   == place \in {"reading", "emitting"} \/ outcome = "ok"
    IN  IF node = "planner"
        THEN emitted = <<>>
        ELSE /\ IsPrefix(emitted, AllShown)
             /\ reader = "reading" /\ going => emitted \o parts = AllShown
             /\ going /\ (\A k \in DOMAIN received : OneContent(received[k]))
                   => AllShown = acc.text
=============================================================================
