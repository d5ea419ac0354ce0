----------------------------- MODULE Completions ------------------------------
(***************************************************************************)
(* What a completion endpoint promises its clients: a request is answered  *)
(* at most once, an answer never grows past the tokens the request is      *)
(* allowed, what a client has received stays, and nothing follows the end. *)
(***************************************************************************)
EXTENDS Integers

CONSTANT Clients    \* the requests

VARIABLES
    allowed,   \* request -> the tokens it may get
    stage,     \* request -> "new", "open" or "over"
    received   \* request -> tokens its client has received

TypeOK ==
    /\ stage \in [Clients -> {"new", "open", "over"}]
    /\ received \in [Clients -> Nat]
    /\ allowed \in [Clients -> Int]

Init ==
    /\ allowed \in [Clients -> Int]
    /\ stage = [c \in Clients |-> "new"]
    /\ received = [c \in Clients |-> 0]

Open(c) ==
    /\ stage[c] = "new"
    /\ stage' = [stage EXCEPT ![c] = "open"]
    /\ UNCHANGED <<allowed, received>>

(* Refused, without a token.                                               *)
Refuse(c) ==
    /\ stage[c] = "new"
    /\ stage' = [stage EXCEPT ![c] = "over"]
    /\ UNCHANGED <<allowed, received>>

(* The text of one or more tokens reaches the client.                      *)
Text(c) ==
    /\ stage[c] = "open"
    /\ \E n \in received[c] + 1 .. allowed[c] :
          received' = [received EXCEPT ![c] = n]
    /\ UNCHANGED <<allowed, stage>>

(* Requests that were served together may be answered together.            *)
Answer(S) ==
    /\ \A c \in S : stage[c] = "open"
    /\ stage' = [c \in Clients |-> IF c \in S THEN "over" ELSE stage[c]]
    /\ \A c \in Clients :
          /\ received'[c] >= received[c]
          /\ received'[c] # received[c] => c \in S /\ received'[c] <= allowed[c]
    /\ received' \in [Clients -> Nat]
    /\ UNCHANGED allowed

Next == \/ \E c \in Clients : Open(c) \/ Refuse(c) \/ Text(c)
        \/ \E S \in SUBSET Clients : Answer(S)

Spec == Init /\ [][Next]_<<allowed, stage, received>>

===============================================================================
