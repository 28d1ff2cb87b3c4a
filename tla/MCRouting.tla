----------------------------- MODULE MCRouting -----------------------------
(***************************************************************************)
(* Three models: a cheap simple one, a better one just above the target,   *)
(* and a hard one that costs more; the better ones score alike without     *)
(* evidence, so that the ranking decides.                                  *)
(***************************************************************************)
EXTENDS Routing, TLC

CONSTANTS m1, m2, m3

MCModels == {m1, m2, m3}
MCId     == m1 :> 1 @@ m2 :> 2 @@ m3 :> 3
MCClass  == m1 :> 0 @@ m2 :> 1 @@ m3 :> 2
MCCost   == m1 :> 1 @@ m2 :> 2 @@ m3 :> 3
MCAcceptance == m1 :> 700 @@ m2 :> 800 @@ m3 :> 900
MCMerit  == m1 :> 0 @@ m2 :> 0 @@ m3 :> 1000
MCNodes  == {"generator", "critic"}
MCRoleType == "generator" :> "code" @@ "critic" :> "review"
MCAllowed  == "generator" :> MCModels @@ "critic" :> {m2, m3}
MCTypes    == {"code", "review", "general"}
MCParents  == "review" :> "code"
MCProfiles ==
    {[model |-> m1, type |-> "general", node |-> "generator", prior |-> 600, weight |-> 4,
      accepted |-> 3, samples |-> 4]}
MCWeights  == None :> [quality |-> 1, cost |-> 1000]
              @@ "code" :> [quality |-> 2, cost |-> 2000]
MCEntries  ==
    {[model |-> m3, type |-> "code", node |-> "generator", contribution |-> 1],
     [model |-> m3, type |-> "review", node |-> "critic", contribution |-> 2]}
MCCostScale == "generator" :> 1 @@ "critic" :> 2
MCSelection == [minimum |-> 650, target |-> 800, factor |-> 5]

Number(n) == [kind |-> "integer", value |-> n]
Word(s) == [kind |-> "string", value |-> s]
Words(S) == [kind |-> "set", value |-> S]

MCRules ==
    {[fact |-> "files", op |-> "gt", value |-> Number(3), class |-> 1],
     [fact |-> "areas", op |-> "contains", value |-> Word("billing"), class |-> 2],
     [fact |-> "areas", op |-> "eq", value |-> Word("billing"), class |-> 2]}
MCQuestions == "risk" :> [kind |-> "choice", outcomes |-> {"low", "high"}]
MCPolicy ==
    {[question |-> "risk", outcome |-> "high", probability |-> 500, class |-> 2],
     [question |-> "risk", outcome |-> "low", probability |-> 400, class |-> 1]}

MCSubmissions ==
    [minimum : {0, 1},
     facts : {<<>>, "files" :> Number(4), "files" :> Number(3) @@ "areas" :> Words({"billing"})}]
Signal(value, low) ==
    <<[question |-> "risk", value |-> value,
       probabilities |-> "low" :> low @@ "high" :> 1000 - low]>>
MCAssessments ==
    {<<>>, Signal("low", 900), Signal("high", 450), Signal("low", 1001), Signal("odd", 900)}
MCRequests ==
    [node : MCNodes, available : {2, 9}, floor : {0, 850},
     excluded : {{}, {m1}, {m1, m2}}]
=============================================================================
