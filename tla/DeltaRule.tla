------------------------------- MODULE DeltaRule ------------------------------
(***************************************************************************)
(* The gated delta rule of one head, written the five ways the Qwen3.5     *)
(* NxDI model has it: token by token (PyTorch and NKI), and in chunks with *)
(* three different triangular solves (PyTorch row by row, NKI by a Neumann *)
(* product, NKI fused by blocks).  vllm/models/qwen3-5-9b-nxdi/src/        *)
(* modeling_qwen35.py and nki_kernels/; the kernels of 4b are the same     *)
(* files.                                                                  *)
(*                                                                         *)
(* Numbers are exact, the integers modulo the prime P: what is compared is *)
(* the algebra, not the rounding.  A log-decay g is represented by exp(g), *)
(* a unit, so that a cumulative sum becomes a cumulative product, exp(-g)  *)
(* an inverse, and g = 0 the decay 1.  Query and key come normalised and   *)
(* scaled, as every one of the five prepares them first.                   *)
(***************************************************************************)
EXTENDS Integers, Sequences, FiniteSetsExt

CONSTANTS
    P,          \* the modulus
    Dim,        \* k_dim = v_dim, 128 in the code
    Chunk,      \* tokens in a chunk, 128 in the kernels and 64 in PyTorch
    Half,       \* rows of a diagonal block of the fused solve, 64
    Rounds      \* rounds of the Neumann product, 6

ASSUME NumbersAssumption == P \in Nat \ {0, 1} /\ Dim \in Nat \ {0}
ASSUME ChunkAssumption == Chunk = 2 * Half /\ Chunk = 2 ^ (Rounds + 1)

Z == 0..(P - 1)
Idx == 1..Chunk
Feature == 1..Dim

(* A token, as a head sees it: vectors q, k, v, write gate b, decay a.     *)
Token == [q : [Feature -> Z], k : [Feature -> Z], v : [Feature -> Z], b : Z, a : Z \ {0}]
Blank == [q |-> [f \in Feature |-> 0], k |-> [f \in Feature |-> 0],
          v |-> [f \in Feature |-> 0], b |-> 0, a |-> 1]

State == [Feature -> [Feature -> Z]]
NoState == [r \in Feature |-> [c \in Feature |-> 0]]

-------------------------------------------------------------------------------
(* Matrices are functions of functions.  Binding an operand to a variable, *)
(* and comparing a result with itself, makes the model checker compute it  *)
(* once instead of at every use.                                           *)
The(set) == CHOOSE x \in set : x = x
Once(m) == The({m})

Total(f) == MapThenSumSet(LAMBDA x : f[x], DOMAIN f)
Sum(S, f(_)) == Total([x \in S |-> f(x)]) % P
Invert(x) == CHOOSE y \in 1..(P - 1) : (x * y) % P = 1

Tr(A) == The({[j \in DOMAIN a[1] |-> [i \in DOMAIN a |-> a[i][j]]] : a \in {A}})
Mul(A, B) ==
    The({[i \in DOMAIN a |-> [j \in DOMAIN b[1] |->
            Sum(DOMAIN b, LAMBDA k : a[i][k] * b[k][j])]] : a \in {A}, b \in {B}})
Map2(A, B, op(_, _)) ==
    The({[i \in DOMAIN a |-> [j \in DOMAIN a[1] |-> op(a[i][j], b[i][j]) % P]] :
            a \in {A}, b \in {B}})
Plus(A, B) == Map2(A, B, LAMBDA x, y : x + y)
Minus(A, B) == Map2(A, B, LAMBDA x, y : x - y)
Times(A, B) == Map2(A, B, LAMBDA x, y : x * y)
Rows(c, A) ==
    The({[i \in DOMAIN a |-> [j \in DOMAIN a[1] |-> (c[i] * a[i][j]) % P]] : a \in {A}})
Scaled(x, A) == The({[i \in DOMAIN a |-> [j \in DOMAIN a[1] |-> (x * a[i][j]) % P]] : a \in {A}})

Mask(kept) == [i \in Idx |-> [j \in Idx |-> IF <<i, j>> \in kept THEN 1 ELSE 0]]
Lower == Mask({e \in Idx \X Idx : e[2] < e[1]})
LowerDiag == Mask({e \in Idx \X Idx : e[2] <= e[1]})
Eye == Mask({e \in Idx \X Idx : e[1] = e[2]})

-------------------------------------------------------------------------------
(* One step of the recurrence: decay the state, read what it holds under   *)
(* the key, write the gated difference back, read under the query.         *)
Step(S, t) ==
    LET kept  == [r \in Feature |-> [c \in Feature |-> (S[r][c] * t.a) % P]]
        mem   == [c \in Feature |-> Sum(Feature, LAMBDA r : kept[r][c] * t.k[r])]
        delta == [c \in Feature |-> ((t.v[c] - mem[c]) * t.b) % P]
        next  == Once([r \in Feature |-> [c \in Feature |->
                         (kept[r][c] + t.k[r] * delta[c]) % P]])
    IN [state |-> next,
        out |-> Once([c \in Feature |-> Sum(Feature, LAMBDA r : next[r][c] * t.q[r])])]

(* step(S, x) folded over a sequence, with what it puts out.               *)
Run(step(_, _), xs) ==
    LET after[n \in 0..Len(xs)] ==
            IF n = 0 THEN [state |-> NoState, outs |-> <<>>]
            ELSE The({The({[state |-> done.state, outs |-> Append(before.outs, done.out)] :
                             done \in {step(before.state, xs[n])}}) : before \in {after[n - 1]}})
    IN after[Len(xs)]

Sequential(toks) == Run(Step, toks)

(* The recurrent kernel: the same with matrix products over columns, the   *)
(* delta transposed and broadcast before it is multiplied by the key.      *)
KernelStep(S, t) ==
    LET col(x) == [f \in Feature |-> [one \in 1..1 |-> x[f]]]
        delta(kept) == Tr(Scaled(t.b, Minus(col(t.v), Mul(Tr(kept), col(t.k)))))[1]
    IN The({[state |-> next, out |-> Tr(Mul(Tr(next), col(t.q)))[1]] :
              next \in {Plus(kept, Rows(t.k, [r \in Feature |-> delta(kept)])) :
                           kept \in {Scaled(t.a, S)}}})

RecurrentKernel(toks) == Run(KernelStep, toks)

-------------------------------------------------------------------------------
(* A chunk: its tokens as matrices, and the cumulative decay gc.           *)
Cumulative(c) ==
    LET upto[i \in 0..Chunk] == IF i = 0 THEN 1 ELSE (upto[i - 1] * c[i].a) % P
    IN Once([i \in Idx |-> upto[i]])

Loaded(c) ==
    [q |-> [i \in Idx |-> c[i].q], k |-> [i \in Idx |-> c[i].k],
     v |-> [i \in Idx |-> c[i].v], b |-> [i \in Idx |-> c[i].b],
     gc |-> Cumulative(c)]

(* Pairwise decay in the split form: rows by exp(gc), columns by exp(-gc). *)
SplitDecay(gc, A) ==
    The({[i \in Idx |-> [j \in Idx |-> (a[i][j] * g[i] * Invert(g[j])) % P]] : a \in {A}, g \in {gc}})

(* exp(gc[i] - gc[j]) where keep allows it: the difference is masked       *)
(* before the exponential and the result after it.                         *)
PairDecay(gc, keep) ==
    The({[i \in Idx |-> [j \in Idx |->
            IF keep[i][j] = 1 THEN (g[i] * Invert(g[j])) % P ELSE 0]] : g \in {gc}})

(* The inverse of I - A as (I + A)(I + A^2)(I + A^4)...                    *)
Neumann(A) ==
    LET round[n \in 0..Rounds] ==
            IF n = 0 THEN The({[acc |-> Plus(Eye, a), pow |-> a] : a \in {A}})
            ELSE The({The({[acc |-> Mul(Plus(Eye, pow), now.acc), pow |-> pow] :
                             pow \in {Mul(now.pow, now.pow)}}) : now \in {round[n - 1]}})
    IN round[Rounds].acc

(* The same by forward substitution in two diagonal blocks, one row at a   *)
(* time, and the lower left block merged from them.                        *)
SolveRows(A, start, rows, cols) ==
    LET after[n \in (rows[1] - 1)..rows[2]] ==
            IF n < rows[1] THEN start
            ELSE The({Plus(now, The({[i \in Idx |-> [j \in Idx |->
                                        IF i = n /\ j \in cols THEN full[i][j] ELSE 0]] :
                                       full \in {Plus(Mul(A, now), Eye)}})) : now \in {after[n - 1]}})
    IN after[rows[2]]

MergeBlocks(A, diag) ==
    The({[i \in Idx |-> [j \in Idx |->
            (d[i][j] + IF i > Half /\ j <= Half THEN cross[i][j] ELSE 0) % P]] :
         d \in {diag}, cross \in {Mul(Mul(d, A), d) : d \in {diag}}})

BlockSolve(A) ==
    LET zero == [i \in Idx |-> [j \in Idx |-> 0]]
        right(a, left) == SolveRows(a, left, <<Half + 1, Chunk>>, (Half + 1)..Chunk)
    IN The({MergeBlocks(a, right(a, SolveRows(a, zero, <<1, Half>>, 1..Half))) : a \in {A}})

(* PyTorch's loop: row i gains its product with the rows above it.         *)
RowSolve(A) ==
    LET after[n \in 1..Chunk] ==
            IF n = 1 THEN A
            ELSE The({[now EXCEPT ![n] = [j \in Idx |->
                        IF j < n
                        THEN (now[n][j] + Sum(1..(n - 1), LAMBDA m : now[n][m] * now[m][j])) % P
                        ELSE now[n][j]]] : now \in {after[n - 1]}})
    IN Plus(after[Chunk], Eye)

-------------------------------------------------------------------------------
(* What the tokens of a chunk write: the inverse N applied to the values,  *)
(* less what the state already holds under their keys.                     *)
Updates(S, x, N) ==
    The({Minus(Mul(n, Rows(x.b, x.v)), Mul(Mul(n, Rows(x.gc, Rows(x.b, x.k))), S)) : n \in {N}})

(* nki_deltanet_chunked.py, one chunk: the state decays as a whole after   *)
(* the keys were scaled by exp(-gc).                                       *)
ChunkStep(S, c) ==
    LET kb(x)   == Rows(x.b, x.k)
        A(x)    == Times(Scaled(P - 1, SplitDecay(x.gc, Mul(kb(x), Tr(x.k)))), Lower)
        attn(x) == Times(SplitDecay(x.gc, Mul(x.q, Tr(x.k))), LowerDiag)
        keys(x) == Rows([i \in Idx |-> Invert(x.gc[i])], x.k)
    IN The({The({[out |-> Plus(Mul(Rows(x.gc, x.q), S), Mul(attn(x), new)),
                  state |-> Scaled(x.gc[Chunk], Plus(S, Mul(Tr(keys(x)), new)))] :
                   new \in {Updates(S, x, Neumann(A(x)))}}) : x \in {Loaded(c)}})

(* What the fused kernel and PyTorch do with the inverse N of a chunk.     *)
WithInverse(S, x, N) ==
    LET attn == Times(Mul(x.q, Tr(x.k)), PairDecay(x.gc, LowerDiag))
        keys == Rows([i \in Idx |-> x.gc[Chunk] * Invert(x.gc[i])], x.k)
    IN The({[out |-> Plus(Mul(Rows(x.gc, x.q), S), Mul(attn, new)),
             state |-> Plus(Scaled(x.gc[Chunk], S), Mul(Tr(keys), new))] :
              new \in {Updates(S, x, N)}})

(* -(k_beta k^T) under the strict decay.                                   *)
Correction(x) ==
    Times(Scaled(P - 1, Mul(Rows(x.b, x.k), Tr(x.k))), PairDecay(x.gc, Lower))

FusedStep(S, c) == The({WithInverse(S, x, BlockSolve(Correction(x))) : x \in {Loaded(c)}})
TorchStep(S, c) == The({WithInverse(S, x, RowSolve(Correction(x))) : x \in {Loaded(c)}})

(* A prefill in chunks: pad with blank tokens, run the chunks, cut the     *)
(* outputs back to the length of the sequence.                             *)
Padded(toks) ==
    toks \o [i \in 1..((Chunk - (Len(toks) % Chunk)) % Chunk) |-> Blank]

InChunks(impl, toks) ==
    LET chunks(all) == [n \in 1..(Len(all) \div Chunk) |->
                          [i \in Idx |-> all[(n - 1) * Chunk + i]]]
        step(S, c) == CASE impl = "torch" -> TorchStep(S, c)
                        [] impl = "chunk" -> ChunkStep(S, c)
                        [] impl = "fused" -> FusedStep(S, c)
    IN The({[state |-> done.state,
             outs |-> [i \in 1..Len(toks) |->
                         done.outs[((i - 1) \div Chunk) + 1][((i - 1) % Chunk) + 1]]] :
              done \in {Run(step, chunks(Padded(toks)))}})

(* forward() chooses by the environment of the process that traces.        *)
Flags == {"USE_PYTORCH_CHUNK", "USE_NKI_CHUNKED", "USE_NKI", "DELTANET_SEQUENTIAL"}
Prefill(env, toks) ==
    CASE env = {"DELTANET_SEQUENTIAL"} -> Sequential(toks)
      [] env \cap {"USE_PYTORCH_CHUNK", "USE_NKI_CHUNKED"} = {} /\ "USE_NKI" \in env ->
            RecurrentKernel(toks)
      [] OTHER -> InChunks(CASE "USE_PYTORCH_CHUNK" \in env -> "torch"
                             [] "USE_PYTORCH_CHUNK" \notin env /\ "USE_NKI_CHUNKED" \in env -> "chunk"
                             [] OTHER -> "fused", toks)

===============================================================================
