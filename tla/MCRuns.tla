-------------------------------- MODULE MCRuns --------------------------------
(* Tags and command lines for the model checker.                           *)
EXTENDS Runs, TLC

CONSTANTS g6, g6v1

Symmetry == Permutations(RunIds) \cup Permutations(Nodes)

TagsThatBeginAlike == {<<g6, g6v1>>}

Deploy(e, stage, autoStop) ==
    [kind |-> "deploy", tag |-> e, stage |-> stage, autoStop |-> autoStop]
Evaluate(e, stage, autoStop) ==
    [kind |-> "evaluate", tag |-> e, stage |-> stage, autoStop |-> autoStop]

(* Two tags of which one begins like the other, and the untagged model.    *)
Mixed ==
    {Deploy(g6, "quality", TRUE), Deploy(g6v1, "quality", TRUE), Deploy(g6, "none", FALSE),
     Evaluate(g6, "bench", TRUE), Deploy(NoTag, "bench", TRUE), Evaluate(NoTag, "quality", FALSE)}

===============================================================================
