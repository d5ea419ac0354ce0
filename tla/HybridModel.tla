----------------------------- MODULE HybridModel ------------------------------
(***************************************************************************)
(* The served Qwen3.5 model, one layer of each kind: a DeltaNet layer with *)
(* its state buffers, and on top of it a full-attention layer with its KV  *)
(* cache, through the prefill and the decode steps of one batch after      *)
(* another.  NeuronQwen35Model, NeuronQwen35Attention and the classes      *)
(* around them in vllm/models/qwen3-5-9b-nxdi/src/modeling_qwen35.py, and  *)
(* _process_batch() of server.py.                                          *)
(*                                                                         *)
(* Neither the buffers nor the cache are ever cleared: what keeps a        *)
(* sequence from seeing its padding, its neighbours or the batch before is *)
(* the subject.  The DeltaNet layer computes with numbers; of the          *)
(* attention layer it is recorded what each query attends to, which        *)
(* heads, projections, norms, output gate and MLP only carry on.           *)
(***************************************************************************)
EXTENDS DeltaNet, Artifact

CONSTANTS
    Envs,        \* environments a build is made in or a server started in
    Asks,        \* requests: a prompt and max_tokens
    LeftPadding, \* whether the server pads prompts on the left, as that of 4b does
    Sections,    \* mrope_section: frequencies of the axes t, h and w
    Sampled,     \* bound: the tokens the device samples
    Junk,        \* bound: what a layer computes at padded positions
    MaxDecodes,  \* bound: decode steps of all batches
    MaxBatches   \* bound: batches

(* Any prompt: /v1/completions tokenizes what it gets, without a template. *)
ASSUME AsksAssumption == \A a \in Asks : a.prompt \in Seq(Tokens) /\ a.tokens \in Nat \ {0}

(* Every prefill is long enough for the three inputs of the convolution    *)
(* state to be gathered from it.                                           *)
ASSUME EnvsAssumption ==
    \A e \in Envs :
        /\ e.seqLen \in Nat \ {0}
        /\ \A length \in e.buckets \cup {e.maxContext} : length \in Nat /\ length >= Taps - 1
ASSUME SampledAssumption == Sampled \subseteq Tokens
ASSUME BoundsAssumption == Junk \subseteq Z /\ MaxDecodes \in Nat /\ MaxBatches \in Nat

VARIABLES
    build,      \* the artifact the server loaded, and its limits
    kv,         \* the KV cache: kv[s][p] is what slot s holds at position p
    batch,      \* the number of rows the current batch uses, 0 between batches
    fed,        \* fed[r]: the tokens given to row r of the batch
    pads,       \* pads[r]: padding before them
    budget,     \* max_new_tokens of the batch
    ready,      \* the rows that are prefilled
    out,        \* out[r]: what the last logits of row r were computed from
    decodes,    \* decode steps of this batch
    steps,      \* decode steps of all batches
    batches     \* batches begun

vars == <<build, rec, conv, kv, batch, fed, pads, budget, ready, out, decodes, steps, batches>>

-------------------------------------------------------------------------------
(* Qwen35MRoPEEmbedding: frequencies of the axes h and w are spliced into  *)
(* those of t, every third one.                                            *)
AxisOf(j) ==
    CASE j % 3 = 1 /\ j < 3 * Sections[2] -> "h"
      [] j % 3 = 2 /\ j < 3 * Sections[3] -> "w"
      [] OTHER -> "t"

Angles(ids) == [j \in 0..(Sections[1] + Sections[2] + Sections[3] - 1) |-> ids[AxisOf(j)]]
Flat(p) == [axis \in {"t", "h", "w"} |-> p]

(* What leaves the DeltaNet layer: the residual stream and what the layer  *)
(* adds to it.                                                             *)
Hidden(x, o) == [x |-> x, out |-> o]

(* A key and its value: the hidden state, and the angles it is turned by.  *)
Entry(x, o, ids) == [h |-> Hidden(x, o), at |-> Angles(ids)]
Unwritten == Entry(Silent, Blank.q, Flat(0))

(* Embeddings are cleared at padded positions, but what reaches a layer    *)
(* there is what the layers before made of it.                             *)
Inputs(r, length, junk) ==
    [i \in 1..length |->
        IF Counts(fed[r], pads[r], i) THEN Embedding[fed[r][i - pads[r]]].x
        ELSE [ch \in Channel |-> junk]]

(* position_ids of a prefill, as the host makes them from the mask.        *)
PositionIds(r, length) ==
    [i \in 1..length |-> IF i - pads[r] \in 1..Len(fed[r]) THEN i - pads[r] - 1 ELSE 1]

(* A text-only graph turns by position_ids, one with vision inputs by      *)
(* three rows of consecutive positions.                                    *)
Keys(r, xs, outs) ==
    [i \in 1..Len(xs) |->
        Entry(xs[i], outs[i], Flat(IF build.textOnly THEN PositionIds(r, Len(xs))[i] ELSE i - 1))]

(* The position whose hidden state goes on to the logits: the first of the *)
(* greatest id.                                                            *)
LastToken_AtEnd(ids) == Len(ids)
LastToken(ids) ==
    LET greatest == Max({ids[j] : j \in DOMAIN ids})
    IN Min({i \in DOMAIN ids : ids[i] = greatest})

(* perform_prefill(): the mask is causal and nothing else.                 *)
CausalOut(keys, last) == [p \in 0..(last - 1) |-> keys[p + 1]]

(* A prefill writes its whole length into the slot.                        *)
FillSlots(rows, keys) ==
    [s \in Row |-> IF s \notin rows THEN kv[s]
                   ELSE [p \in DOMAIN kv[s] |-> IF p < Len(keys[s]) THEN keys[s][p + 1] ELSE kv[s][p]]]

-------------------------------------------------------------------------------
Init ==
    /\ \E built, now \in Envs :
        /\ built.maxBatch = Slots /\ Boots(built, now)
        /\ build = Limits(built, now)
        /\ kv = [s \in Row |-> [p \in 0..(built.seqLen - 1) |-> Unwritten]]
    /\ InitLayer
    /\ batch = 0 /\ fed = [r \in Row |-> <<>>] /\ pads = [r \in Row |-> 0]
    /\ budget = 1 /\ ready = {}
    /\ out = [r \in Row |-> <<>>]
    /\ decodes = 0 /\ steps = 0 /\ batches = 0

(* A batch of admitted requests, its rows from the first slot on.  All     *)
(* rows decode in lock-step: the budget is bounded by the longest prompt.  *)
Budget_OfLongest(asks) ==
    Max({MaxNew(build, Len(asks[r].prompt), asks[r].tokens) : r \in DOMAIN asks})
Budget(asks) ==
    LET padded == Max({Len(asks[r].prompt) : r \in DOMAIN asks})
        longest == Max({MaxNew(build, Len(asks[r].prompt), asks[r].tokens) : r \in DOMAIN asks})
    IN Max({1, Min({longest, build.seqLen - padded - 1})})

Begin ==
    /\ batch = 0 /\ batches < MaxBatches
    /\ \E n \in 1..build.batch : \E asks \in [1..n -> Asks] :
        /\ \A r \in 1..n : Admits(build, Len(asks[r].prompt))
        /\ batch' = n
        \* rows that fill up a prefill of the whole batch repeat the first
        /\ fed' = [r \in Row |-> asks[IF r <= n THEN r ELSE 1].prompt]
        /\ pads' = [r \in Row |->
              IF LeftPadding THEN Max({Len(fed'[q]) : q \in Row}) - Len(fed'[r]) ELSE 0]
        /\ budget' = Budget(asks)
    /\ ready' = {} /\ decodes' = 0 /\ batches' = batches + 1
    /\ UNCHANGED <<build, rec, conv, kv, out, steps>>

(* The prompts of a batch come as one tensor, as long as the longest.      *)
Length == Bucket(build, Max({pads[r] + Len(fed[r]) : r \in Row}))

(* The VL shim always passes positions of the whole seq_len, which cannot  *)
(* be padded to a shorter prefill.                                         *)
Fits == build.textOnly \/ Length = build.seqLen

(* One call of the context-encoding graph: a single row with continuous    *)
(* batching, the whole batch without.                                      *)
PrefillRows(rows) ==
    /\ rows # {} /\ rows \cap ready = {} /\ Fits
    /\ \E junk \in Junk :
        \E xs \in {[r \in rows |-> Once(Inputs(r, Length, junk))]} :
        \E ran \in {[r \in rows |-> Once(Prefill(build.kernels, HeadTokens(fed[r], pads[r], xs[r])))]} :
        \E keys \in {[r \in rows |-> Once(Keys(r, xs[r], ran[r].outs))]} :
            /\ PrefillLayer(rows, fed, xs, ran)
            /\ kv' = FillSlots(rows, keys)
            /\ out' = WriteRows(out, rows,
                   [r \in rows |-> CausalOut(keys[r], LastToken(PositionIds(r, Length)))])
    /\ ready' = ready \cup rows
    /\ UNCHANGED <<build, batch, fed, pads, budget, decodes, steps, batches>>

PrefillOne ==
    /\ build.ctx = 1 /\ Cardinality(ready) < batch
    /\ PrefillRows({Cardinality(ready) + 1})

PrefillAll ==
    /\ build.ctx = Slots /\ batch > 0 /\ ready = {}
    /\ PrefillRows(Row)

(* One call of the token-generation graph, for every row of the buffers.   *)
(* The query attends to what the mask shows of the cache, the tokens given *)
(* before, and to itself.                                                  *)
Position(r) == IF r <= batch THEN Len(fed[r]) ELSE 0
Clamped(r) == Min({Position(r), build.seqLen - 1})

TokenOut(r, active) ==
    [p \in 0..Position(r) |->
        IF p = Position(r) THEN active
        ELSE IF p + pads[r] < build.seqLen THEN kv[r][p + pads[r]] ELSE Unwritten]

Decode ==
    /\ batch > 0 /\ 1..batch \subseteq ready /\ decodes + 1 < budget
    /\ steps < MaxDecodes
    /\ \E t \in [1..batch -> Sampled] :
        \E tok \in {[r \in Row |-> IF r <= batch THEN t[r] ELSE Pad]} :
        \E ran \in {Stepped(tok)} :
        \E active \in {[r \in Row |-> Entry(Embedding[tok[r]].x, ran[r].out, Flat(Clamped(r)))]} :
            /\ DecodeLayer(tok, ran)
            /\ kv' = [r \in Row |-> [kv[r] EXCEPT ![Clamped(r)] = active[r]]]
            /\ out' = [r \in Row |-> TokenOut(r, active[r])]
            /\ fed' = [r \in Row |-> IF r <= batch THEN Append(fed[r], t[r]) ELSE fed[r]]
    /\ decodes' = decodes + 1 /\ steps' = steps + 1
    /\ UNCHANGED <<build, batch, pads, budget, ready, batches>>

(* Every row has stopped, or the call has failed: generate() returns, the  *)
(* buffers stay as they are.                                               *)
Returns ==
    /\ batch' = 0 /\ ready' = {} /\ decodes' = 0 /\ budget' = 1
    /\ fed' = [r \in Row |-> <<>>] /\ pads' = [r \in Row |-> 0] /\ out' = [r \in Row |-> <<>>]
    /\ UNCHANGED <<build, rec, conv, kv, steps, batches>>

Finish == batch > 0 /\ 1..batch \subseteq ready /\ Returns

PrefillRaises ==
    /\ batch > 0 /\ ready = {} /\ ~Fits
    /\ Returns

Next == Begin \/ PrefillOne \/ PrefillAll \/ Decode \/ Finish \/ PrefillRaises
Spec == Init /\ [][Next]_vars

-------------------------------------------------------------------------------
Serving(r) == r <= batch /\ r \in ready
NoPadFed(r) == \A i \in 1..Len(fed[r]) : fed[r][i] # Pad

(* Every decode position is one of the compiled cache before it is clamped.*)
PositionsFit ==
    /\ batch \in 0..Slots
    /\ \A s \in Row : DOMAIN kv[s] = 0..(build.seqLen - 1)
    /\ \A r \in Row : fed[r] \in Seq(Tokens) /\ Len(fed[r]) < build.seqLen
    /\ budget \in 1..build.seqLen /\ decodes \in 0..budget

(* Buffers, cache and counters keep their shape.                           *)
TypeOK ==
    /\ LayerTypeOK /\ PositionsFit
    /\ ready \subseteq Row /\ batches \in 0..MaxBatches /\ steps \in 0..MaxDecodes

(* The length of a row's prompt.                                           *)
Prompted(r) == Len(fed[r]) - decodes

(* The recurrent state of a row is that of its own tokens, fed one by one  *)
(* from nothing: whatever kernel ran the prefill, however much padding     *)
(* there was, whatever its neighbours and the batch before left behind;    *)
(* after a decode step only if the prompt had three tokens.                *)
StateIsOwn ==
    \A r \in Row : Serving(r) /\ NoPadFed(r) /\ (decodes > 0 => Prompted(r) >= Taps - 1) =>
        rec[r] = Alone(fed[r]).state

(* modeling_qwen35.py:1679-1680: padding is zeroed "so DeltaNet recurrence *)
(* is not polluted".  It is when it goes on from a prompt of one or two    *)
(* tokens.                                                                 *)
EveryStateIsOwn == \A r \in Row : Serving(r) /\ NoPadFed(r) => rec[r] = Alone(fed[r]).state

(* And so is what its logits are computed from: its own tokens, each with  *)
(* the output of the DeltaNet layer for it, turned by its own position.    *)
(* The first logits of a prompt of one token come from its padding, whose  *)
(* position id is the greater one.                                         *)
OutputIsOwn ==
    \A r \in Row : Serving(r) /\ NoPadFed(r) /\ Prompted(r) >= (IF decodes = 0 THEN 2 ELSE Taps - 1) =>
        \E alone \in {Alone(fed[r])} :
            out[r] = [p \in 0..(Len(fed[r]) - 1) |->
                         Entry(Embedding[fed[r][p + 1]].x, alone.outs[p + 1], Flat(p))]

===============================================================================
