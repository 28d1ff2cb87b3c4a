------------------------------ MODULE MCStream ------------------------------
(***************************************************************************)
(* Frames of both endpoints that can contradict each other: text in two    *)
(* pieces, usage that comes early, twice, malformed or with the end, a     *)
(* tool call in fragments, one without an index, another choice, several   *)
(* choices in one frame, and the ways a stream says that it is over.       *)
(***************************************************************************)
EXTENDS Stream

MCNodes  == {"generator", "planner"}
MCUsages == {"first", "last"}
MCTokens == [first |-> [input |-> 1, output |-> 2], last |-> [input |-> 4, output |-> 9]]
MCArguments == {<<"{", "}">>, <<"{}">>}

Plain  == [index |-> 0, speaks |-> FALSE, text |-> <<>>, tools |-> <<>>, finish |-> None]
Says(text) == [Plain EXCEPT !.speaks = TRUE, !.text = text]
Call(index, id, name, args) == [index |-> index, id |-> id, name |-> name, args |-> args]

ChatFrames == {"early", "text", "begin", "end", "stop", "length", "double", "noindex", "error"}
ResponsesFrames == {"delta", "second", "done", "halfdone", "failed", "errorevent", "reasoning"}
MCNames == [chat |-> ChatFrames, responses |-> ResponsesFrames]
MCSplit == {"text"}

ChatOf(id, usage, choices) == [error |-> FALSE, id |-> id, usage |-> usage, choices |-> choices]

ResponsesOf(type, text, status, usage, calls) ==
    [error |-> FALSE, type |-> type, text |-> text, status |-> status, id |-> "resp",
     usage |-> usage, calls |-> calls]

MCFrame ==
    [early    |-> ChatOf("chat1", "first", <<Says(<<"a">>)>>),
     text     |-> ChatOf("chat1", "absent", <<Says(<<"b", "c", "d">>)>>),
     begin    |-> ChatOf("chat1", "absent",
                         <<[Plain EXCEPT !.tools = <<Call(0, <<"c0">>, <<"f">>, <<"{">>),
                                                     Call(1, <<"c1">>, <<"g">>, <<"{}">>)>>]>>),
     end      |-> ChatOf(None, "malformed",
                         <<[Plain EXCEPT !.tools = <<Call(0, <<>>, <<>>, <<"}">>)>>,
                                         !.finish = "tool_calls"]>>),
     stop     |-> ChatOf("chat1", "last", <<[Says(<<>>) EXCEPT !.finish = "stop"]>>),
     length   |-> ChatOf("chat1", "absent", <<[Plain EXCEPT !.finish = "length"]>>),
     double   |-> ChatOf("chat1", "last",
                         <<[Says(<<"e">>) EXCEPT !.finish = "length"],
                           [Says(<<"x">>) EXCEPT !.index = 1],
                           [Says(<<"g">>) EXCEPT !.index = Unknown]>>),
     noindex  |-> ChatOf("chat1", "last",
                         <<[Plain EXCEPT !.tools = <<Call(Unknown, <<"c">>, <<"h">>, <<>>)>>]>>),
     error    |-> [ChatOf("chat1", "last", <<>>) EXCEPT !.error = TRUE],
     delta    |-> ResponsesOf("delta", <<"a", "b">>, None, "absent", <<>>),
     second   |-> ResponsesOf("delta", <<"c">>, None, "absent", <<>>),
     done     |-> ResponsesOf("completed", <<>>, "completed", "last",
                              <<Call(0, <<"r0">>, <<"f">>, <<"{}">>)>>),
     halfdone |-> ResponsesOf("completed", <<>>, "in_progress", "malformed",
                              <<Call(0, <<"r0">>, <<>>, <<"{">>)>>),
     failed   |-> ResponsesOf("failed", <<>>, "failed", "first", <<>>),
     errorevent |-> ResponsesOf("error", <<>>, None, "last", <<>>),
     reasoning  |-> ResponsesOf("other", <<"x">>, None, "last", <<>>)]
=============================================================================
