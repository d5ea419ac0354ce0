------------------------------- MODULE MCResults -------------------------------
(* An earlier run of the same profile, prices and flags for the checker.   *)
EXTENDS Results

CONSTANTS r1, g6, g6e, g7, trn2

Prices == [f \in {g6, g6e, trn2} |-> CASE f = g6 -> 1 [] f = g6e -> 2 [] f = trn2 -> 4]

Earlier(kind, l, inst, folder, when) ==
    [kind |-> kind, model |-> "m", level |-> l, inst |-> inst, folder |-> folder,
     cost |-> Prices[inst], perUsd |-> 4 \div Prices[inst], started |-> when, launched |-> when - (when % 2)]

(* Labels that agree with the folder and that do not, known to the price   *)
(* book and not.                                                           *)
Placed == {<<g6, g6e>>, <<g6, trn2>>, <<trn2, NoFamily>>, <<g6, g7>>}

(* A day before the sweep or a day after; recorded under a wrong label;    *)
(* with a quality row beside.                                              *)
History ==
    {<<>>,
     <<Earlier("perf", 1, trn2, trn2, 1), Earlier("quality", 1, trn2, trn2, 0)>>,
     <<Earlier("perf", 1, g6, trn2, 7), Earlier("perf", 1, trn2, trn2, 1)>>,
     <<Earlier("perf", 2, g6e, NoFamily, 7), Earlier("perf", 1, trn2, NoFamily, 1)>>}

Flags(fix, dedup, from, to, notBefore, notAfter) ==
    [fix |-> fix, dedup |-> dedup, from |-> from, to |-> to, after |-> notBefore, before |-> notAfter]

Usual ==
    {Flags(fix, dedup, Open, Open, Open, Open) : fix \in BOOLEAN, dedup \in BOOLEAN}
      \cup {Flags(TRUE, dedup, days[1], days[2], Open, Open) :
              dedup \in BOOLEAN, days \in {<<1, 1>>, <<1, Open>>, <<2, Open>>, <<Open, 1>>}}
      \cup {Flags(TRUE, TRUE, 1, 1, 1, Open), Flags(TRUE, FALSE, Open, 1, Open, 0)}

===============================================================================
