---------------------------- MODULE MCReplicaServer ---------------------------
(* Requests for the model checker.                                         *)
EXTENDS ReplicaServer, TLC

CONSTANTS r1, r2, r3

Asked(length, most, goesOn, streamed) ==
    [prompt |-> length, tokens |-> most, ignoreEos |-> goesOn, stream |-> streamed]

(* One stream, an answer that ignores the end of sequence and has a longer *)
(* prompt, and a single token: two share a batch and the third waits for   *)
(* it.                                                                     *)
ThreeRows ==
    r1 :> Asked(1, 9, FALSE, TRUE) @@ r2 :> Asked(2, 9, TRUE, FALSE) @@ r3 :> Asked(1, 1, FALSE, FALSE)

(* Two streams with prompts of two lengths, and an empty prompt.           *)
TwoStreams ==
    r1 :> Asked(1, 9, FALSE, TRUE) @@ r2 :> Asked(2, 9, TRUE, TRUE) @@ r3 :> Asked(0, 1, FALSE, FALSE)

Mixed == {ThreeRows, TwoStreams}

===============================================================================
