---------------------------- MODULE MCHybridModel -----------------------------
(* A small model for the model checker.                                    *)
EXTENDS HybridModel

CONSTANTS t1, t2, eos

Vocabulary == {t1, t2, eos}
Six(a, b, c, d, e, f) ==
    [ch \in Channel |->
        CASE ch = <<"q", 1>> -> a [] ch = <<"q", 2>> -> b [] ch = <<"k", 1>> -> c
          [] ch = <<"k", 2>> -> d [] ch = <<"v", 1>> -> e [] ch = <<"v", 2>> -> f]
SmallEmbedding ==
    [t \in Vocabulary |->
        CASE t = t1 -> [x |-> Six(1, 2, 3, 1, 4, 2), b |-> 2, a |-> 3]
          [] t = t2 -> [x |-> Six(2, 5, 1, 4, 1, 3), b |-> 4, a |-> 2]
          [] t = eos -> [x |-> Six(3, 1, 2, 2, 5, 1), b |-> 3, a |-> 5]]
SmallWeight ==
    Six(<<2, 1, 3, 1>>, <<1, 4, 2, 3>>, <<3, 1, 1, 2>>, <<1, 2, 5, 1>>, <<4, 1, 2, 2>>, <<1, 1, 3, 4>>)

SmallSections == <<2, 2, 1>>

(* Shorter than a chunk, with max_tokens that would take a longer prompt   *)
(* beside it past the cache; longer than a chunk; longer than any build    *)
(* admits; and too short for the convolution.                              *)
SmallAsks ==
    {[prompt |-> <<t1, t2, t1>>, tokens |-> 9], [prompt |-> <<t2, t1, t1, t2, t1, t1>>, tokens |-> 3],
     [prompt |-> <<t2, t2, t2, t2, t2, t2, t2, t2>>, tokens |-> 1],
     [prompt |-> <<t1, t2>>, tokens |-> 3], [prompt |-> <<t2>>, tokens |-> 2]}

Env(seqLen, maxContext, ctx, continuous, buckets, textOnly, kernels) ==
    [seqLen |-> seqLen, maxContext |-> maxContext, maxBatch |-> Slots, ctxBatch |-> ctx,
     continuous |-> continuous, buckets |-> buckets, textOnly |-> textOnly, kernels |-> kernels]

(* Continuous batching and not, every kernel at least once, text only and  *)
(* with vision inputs, which a prefill shorter than the cache breaks; a    *)
(* pair of batch sizes that compile.py refuses.                            *)
SmallEnvs ==
    {Env(9, 7, 1, "auto", {4, 9}, TRUE, {}), Env(9, 7, Slots, "auto", {4}, TRUE, {"USE_PYTORCH_CHUNK"}),
     Env(8, 7, 1, "on", {4}, TRUE, {"USE_NKI_CHUNKED"}), Env(9, 9, Slots, "off", {}, FALSE, {"USE_NKI"}),
     Env(9, 7, 1, "off", {4}, TRUE, {}), Env(9, 7, 1, "auto", {}, FALSE, {"DELTANET_SEQUENTIAL"}),
     Env(9, 9, 1, "auto", {}, FALSE, {"DELTANET_SEQUENTIAL"})}

(* What the 4b server ships.                                               *)
LeftEnvs == {Env(9, 7, Slots, "auto", {4}, TRUE, {})}

===============================================================================
