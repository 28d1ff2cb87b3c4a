----------------------------- MODULE MCOwnership -----------------------------
(***************************************************************************)
(* Three engines, two of them in one process, and a file with two names    *)
(* that is missing, empty, ours, of an older schema or somebody else's.    *)
(***************************************************************************)
EXTENDS Ownership, TLC

CONSTANTS e1, e2, e3, p1, p2, f1, direct, link

MCEngines == {e1, e2, e3}
MCProcess == (e1 :> p1) @@ (e2 :> p1) @@ (e3 :> p2)
MCFiles   == {f1}
MCNames   == {direct, link}
MCFileAt  == (direct :> f1) @@ (link :> f1)
MCInodes  == 1..3
MCTables  == {"tasks", "attempts"}
MCFound   == {Absent, Blank,
              [application |-> 7, version |-> 2, objects |-> MCTables],
              [application |-> 7, version |-> 1, objects |-> {"tasks"}],
              [application |-> 0, version |-> 0, objects |-> {"notes"}],
              [application |-> 9, version |-> 2, objects |-> {}]}
=============================================================================
