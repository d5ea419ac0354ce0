------------------------------- MODULE DeltaNet -------------------------------
(***************************************************************************)
(* A DeltaNet layer of the served Qwen3.5 model: its two state buffers,    *)
(* one slot per sequence of the batch, and what a prefill and a decode     *)
(* step make of them.  NeuronGatedDeltaNet in                              *)
(* vllm/models/qwen3-5-9b-nxdi/src/modeling_qwen35.py.  The layer has one  *)
(* head here; the delta rule is module DeltaRule, the model around the     *)
(* layer module HybridModel.                                               *)
(***************************************************************************)
EXTENDS DeltaRule

CONSTANTS
    Slots,      \* max_batch_size: rows of the buffers and of a decode step
    Tokens,     \* the vocabulary
    Pad,        \* the padding token, which is also the end of sequence
    Embedding,  \* of a token: what reaches the convolution channels x, the gates b and a
    Weight      \* the taps of every channel of the convolution, the newest last

Taps == 4
Channel == {"q", "k", "v"} \X Feature

ASSUME SlotsAssumption == Slots \in Nat \ {0}
ASSUME WeightAssumption == \A ch \in Channel, k \in 1..Taps : Weight[ch][k] \in Z
ASSUME EmbeddingAssumption ==
    Pad \in Tokens /\ Embedding \in [Tokens -> [x : [Channel -> Z], b : Z, a : Z \ {0}]]

Silent == [ch \in Channel |-> 0]
Row == 1..Slots

VARIABLES
    rec,        \* recurrent_state_buffer
    conv        \* conv_state_buffer: the last three inputs of the convolution

-------------------------------------------------------------------------------
Silu(x) == (x * x + x) % P      \* any function with Silu(0) = 0

(* What the convolution puts out becomes a token of the head.  At a padded *)
(* position the mask clears query, key, value and write gate, and the      *)
(* log-decay.                                                              *)
HeadToken(c, e, valid) ==
    IF ~valid THEN Blank
    ELSE [q |-> [f \in Feature |-> c[<<"q", f>>]], k |-> [f \in Feature |-> c[<<"k", f>>]],
          v |-> [f \in Feature |-> c[<<"v", f>>]], b |-> e.b, a |-> e.a]

Convolve(window) ==
    Once([ch \in Channel |-> Silu(Sum(1..Taps, LAMBDA k : Weight[ch][k] * window[k][ch]))])

(* The causal convolution of a sequence, zeros before its start.           *)
ConvAt(xs, i) ==
    Convolve([k \in 1..Taps |-> IF i - Taps + k < 1 THEN Silent ELSE xs[i - Taps + k]])

(* The mask: where the input is not the padding token, which a prompt may  *)
(* hold too.                                                               *)
Counts(p, pads, i) == i - pads \in 1..Len(p) /\ p[i - pads] # Pad

HeadTokens(p, pads, xs) ==
    [i \in 1..Len(xs) |->
        IF Counts(p, pads, i)
        THEN HeadToken(ConvAt(xs, i), Embedding[p[i - pads]], TRUE) ELSE Blank]

(* The last three valid inputs: the mask says how many are valid, and they *)
(* are taken to come first.  Of fewer than three, the padding behind them  *)
(* is taken too.                                                           *)
ConvState(p, xs) ==
    LET valid == Cardinality({i \in 1..Len(p) : p[i] # Pad})
        base == IF valid < Taps - 1 THEN 0 ELSE valid - (Taps - 1)
    IN [j \in 1..(Taps - 1) |-> xs[base + j]]

(* _write_state_rows: only the slots named by seq_ids are written.         *)
WriteRows_Broadcast(buffer, rows, new) ==
    [s \in Row |-> IF \E r \in rows : rows = {r} THEN new[CHOOSE r \in rows : TRUE] ELSE new[s]]
WriteRows(buffer, rows, new) == [s \in Row |-> IF s \in rows THEN new[s] ELSE buffer[s]]

-------------------------------------------------------------------------------
InitLayer ==
    /\ rec = [s \in Row |-> NoState]
    /\ conv = [s \in Row |-> [j \in 1..(Taps - 1) |-> Silent]]

(* A prefill: ran[r] is what the kernel of the build computed for a row,   *)
(* xs[r] what went into it, prompt[r] the tokens that are not padding.     *)
RecAfter(rows, ran) == WriteRows(rec, rows, [r \in rows |-> ran[r].state])
ConvAfter(rows, prompt, xs) ==
    WriteRows(conv, rows, [r \in rows |-> ConvState(prompt[r], xs[r])])

PrefillLayer(rows, prompt, xs, ran) ==
    rec' = RecAfter(rows, ran) /\ conv' = ConvAfter(rows, prompt, xs)

(* A decode step: every row, used or not, takes its state from the slot of *)
(* its seq_id, and row i goes back to slot i.  A pad token, sampled by a   *)
(* row that goes on after its end, leaves the recurrent state and still    *)
(* enters the convolution.                                                 *)
Window(tok, r) == Append(conv[r], Embedding[tok[r]].x)

Stepped(tok) ==
    [r \in Row |-> Once(Step(rec[r],
        HeadToken(Convolve(Window(tok, r)), Embedding[tok[r]], tok[r] # Pad)))]

DecodeLayer(tok, ran) ==
    /\ rec' = [r \in Row |-> ran[r].state]
    /\ conv' = [r \in Row |-> Tail(Window(tok, r))]

(* Buffers keep their shape.                                               *)
LayerTypeOK ==
    rec \in [Row -> State] /\ conv \in [Row -> [1..(Taps - 1) -> [Channel -> Z]]]

(* What a sequence alone, without padding, would have computed.            *)
Alone(s) ==
    LET xs == [i \in 1..Len(s) |-> Embedding[s[i]].x]
    IN Once(Sequential([i \in 1..Len(s) |-> HeadToken(ConvAt(xs, i), Embedding[s[i]], TRUE)]))

===============================================================================
