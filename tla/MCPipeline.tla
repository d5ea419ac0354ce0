------------------------------ MODULE MCPipeline ------------------------------
(* Command lines for the model checker.                                    *)
EXTENDS Pipeline, TLC

Symmetry == Permutations(SheetKeys)

Line(bench, sheets, args, tagged, autoStop, detach) ==
    [bench |-> bench, sheets |-> sheets, sheetArgs |-> args, tagged |-> tagged,
     autoStop |-> autoStop, detach |-> detach]

(* deploy --tag t --detach --benchmark --quality --auto-stop               *)
Tagged == {Line(Profiles, SheetKeys, 0, TRUE, TRUE, TRUE)}

(* Every choice of profiles and sheets; a lone quality names its sheets.   *)
EveryChoice ==
    {Line(b, s, IF b = {} THEN Cardinality(s) ELSE 0, TRUE, stop, FALSE) :
        b \in SUBSET Profiles, s \in SUBSET SheetKeys, stop \in BOOLEAN} \cap Invocation

===============================================================================
