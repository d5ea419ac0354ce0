-------------------------------- MODULE MCRouter ------------------------------
(* Symmetry for the model checker: worker 0 is not like the others.        *)
EXTENDS Router, TLC

Symmetry == Permutations(Workers \ {First}) \cup Permutations(Requests)

===============================================================================
