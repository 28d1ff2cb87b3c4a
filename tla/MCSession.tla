----------------------------- MODULE MCSession -----------------------------
(***************************************************************************)
(* A run with two tools that the host and the tool callback close, and two *)
(* tasks of the host that close at the same time.                          *)
(***************************************************************************)
EXTENDS Session

CONSTANTS c1, c2, callback

OneAndTool  == {c1, callback}
TwoClosers  == {c1, c2}
Nobody      == {}
TheCallback == {callback}
=============================================================================
