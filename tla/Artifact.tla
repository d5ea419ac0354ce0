------------------------------- MODULE Artifact -------------------------------
(***************************************************************************)
(* What is compiled, and what a server admits when it loads it:            *)
(* vllm/models/qwen3-5-9b-nxdi/compile.py, and load() and admit() of       *)
(* server.py there.  The compile Job leaves an artifact that is already in *)
(* place alone, so that the environment a server starts in is not always   *)
(* the one its artifact was built in.                                      *)
(***************************************************************************)
EXTENDS Integers, FiniteSetsExt

(* An environment: seqLen, maxContext, maxBatch, ctxBatch; continuous,     *)
(* which is "auto", "on" or "off"; the set of prefill buckets; textOnly;   *)
(* the kernel flags set.  One decode bucket, of length seqLen.             *)
Continuous(e) ==
    IF e.continuous = "auto" THEN e.ctxBatch < e.maxBatch ELSE e.continuous = "on"

(* resolve_build_params() raises for any other.                            *)
Resolves(e) ==
    /\ e.maxContext <= e.seqLen
    /\ e.ctxBatch \in {1, e.maxBatch}
    /\ e.ctxBatch < e.maxBatch => Continuous(e)
    /\ Continuous(e) => e.ctxBatch = 1

(* Buckets past the longest prompt go, and the longest prompt has one.     *)
ContextBuckets(e) == {b \in e.buckets : b <= e.maxContext} \cup {e.maxContext}

Compiled(e) ==
    [seqLen |-> e.seqLen, maxContext |-> e.maxContext, batch |-> e.maxBatch,
     ctx |-> e.ctxBatch, buckets |-> ContextBuckets(e), textOnly |-> e.textOnly,
     kernels |-> e.kernels]

(* load(): compile at the first boot, otherwise refuse an artifact of the  *)
(* other kind of graph.  Limits are those of the artifact.                 *)
Boots(built, now) ==
    /\ Resolves(built) /\ built.textOnly = now.textOnly

Limits(built, now) == Compiled(built)

(* admit(): 400 for an empty prompt, one past the compiled context, one    *)
(* that leaves no room; max_tokens is cut to the room.                     *)
Allowance(build, n) == build.seqLen - n - 1
Admits(build, n) == n \in 1..build.maxContext /\ Allowance(build, n) >= 1
MaxNew(build, n, requested) == Min({requested, Allowance(build, n)})

(* The prefill length the wrapper pads to: the first that fits.            *)
Bucket(build, n) == Min({b \in build.buckets : b >= n})

===============================================================================
