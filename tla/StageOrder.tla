------------------------------ MODULE StageOrder ------------------------------
(***************************************************************************)
(* What the pipeline promises about the endpoint: the stages load it in    *)
(* order.  A stage is open until it loads the endpoint or is given up, and *)
(* begins to load it only when every stage of a lower rank is closed.      *)
(* Stages of one rank (the quality sheets) may load it together.           *)
(***************************************************************************)
EXTENDS Integers

CONSTANTS
    Stages,        \* what may load the endpoint
    StageRank(_)   \* Stages -> Nat, the order the stages must keep

VARIABLE status    \* stage -> "open", "loading" or "closed"

TypeOK == status \in [Stages -> {"open", "loading", "closed"}]

(* Any stage may be left out of a run from the start.                      *)
Init == status \in [Stages -> {"open", "closed"}]

Begin(s) ==
    /\ status[s] = "open"
    /\ \A t \in Stages : StageRank(t) < StageRank(s) => status[t] = "closed"
    /\ status' = [status EXCEPT ![s] = "loading"]

(* Stages end, or are given up before they begin, alone or together.       *)
Close(S) == status' = [s \in Stages |-> IF s \in S THEN "closed" ELSE status[s]]

Next == \/ \E s \in Stages : Begin(s)
        \/ \E S \in SUBSET Stages : Close(S)

Spec == Init /\ [][Next]_status

===============================================================================
