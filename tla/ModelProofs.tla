------------------------------ MODULE ModelProofs -----------------------------
(***************************************************************************)
(* For every artifact, batch size, embedding and set of requests: decoding *)
(* stays in the compiled cache, everything keeps its shape, and what a     *)
(* slot holds and answers is what its own tokens alone make of it, in any  *)
(* batch and after any other, unless prompts are padded on the left, or a  *)
(* row decodes from a prompt of one or two tokens.  The recurrence it runs *)
(* is defined for every sequence of tokens, and is what the recurrent      *)
(* kernel computes with its matrices.                                      *)
(***************************************************************************)
EXTENDS HybridModel, SumTheorems


-------------------------------------------------------------------------------
(* THE RECURRENCE: ONE STEP                                                *)

(* Total, the fold of DeltaRule, of numbers is a number.                   *)
LEMMA TotalIsNumber ==
  ASSUME NEW n \in Nat, NEW g \in [1..n -> Int]
  PROVE  Total(g) \in Int
<1> DEFINE S == 1..n
           Chosen == CHOOSE h : Sums(g, S, h)
<1>1. IsFiniteSet(S) /\ DOMAIN g = S
  BY FS_Interval
<1> HIDE DEF S
<1>2. Sums(g, S, Chosen)
  BY <1>1, SumsExist DEF S
<1>3. Chosen[S] \in Int
  BY <1>1, <1>2, SumsAreNumbers DEF S
<1>4. Total(g) = Chosen[S]
  BY <1>1 DEF Total, MapThenSumSet, MapThenFoldSet, Sums, Some
<1> QED BY <1>3, <1>4

(* Once only names a value.                                                *)
LEMMA OnceIsIt == \A m : Once(m) = m
  BY DEF Once, The

LEMMA Modulo == \A x \in Int : x % P \in Z
<1> SUFFICES ASSUME NEW x \in Int PROVE x % P \in Z
  OBVIOUS
<1> QED BY NumbersAssumption DEF Z

LEMMA Reduced == \A x \in Z : x \in Int /\ x % P = x
<1> SUFFICES ASSUME NEW x \in Z PROVE x \in Int /\ x % P = x
  OBVIOUS
<1> QED BY NumbersAssumption DEF Z

LEMMA TotalInZ == \A g \in [Feature -> Int] : Total(g) \in Int /\ Total(g) % P \in Z
<1> SUFFICES ASSUME NEW g \in [Feature -> Int] PROVE Total(g) \in Int /\ Total(g) % P \in Z
  OBVIOUS
<1>1. Total(g) \in Int
  BY NumbersAssumption, TotalIsNumber DEF Feature
<1> QED BY <1>1, Modulo

LEMMA BlankToken == Blank \in Token /\ 0 \in Z /\ NoState \in State
  BY NumbersAssumption DEF Blank, Token, Z, NoState, State

(* The parts of one step: the decayed state, what it remembers of the key, *)
(* the correction, the state after, and what the query reads of it.        *)
Kept(S, t) == [r \in Feature |-> [c \in Feature |-> (S[r][c] * t.a) % P]]
Mem(S, t) == [c \in Feature |-> Total([r \in Feature |-> Kept(S, t)[r][c] * t.k[r]]) % P]
Delta(S, t) == [c \in Feature |-> ((t.v[c] - Mem(S, t)[c]) * t.b) % P]
After(S, t) == [r \in Feature |-> [c \in Feature |-> (Kept(S, t)[r][c] + t.k[r] * Delta(S, t)[c]) % P]]
Read(S, t) == [c \in Feature |-> Total([r \in Feature |-> After(S, t)[r][c] * t.q[r]]) % P]

(* Step is made of these parts.                                            *)
LEMMA StepIs == \A S, t : Step(S, t) = [state |-> After(S, t), out |-> Read(S, t)]
<1> SUFFICES ASSUME NEW S, NEW t PROVE Step(S, t) = [state |-> After(S, t), out |-> Read(S, t)]
  OBVIOUS
<1> QED BY OnceIsIt DEF Step, Sum, Kept, Mem, Delta, After, Read

(* A step keeps the shape of the state.                                    *)
LEMMA StepType ==
  ASSUME NEW S \in State, NEW t \in Token
  PROVE  /\ Kept(S, t) \in State /\ Mem(S, t) \in [Feature -> Z] /\ Delta(S, t) \in [Feature -> Z]
         /\ After(S, t) \in State /\ Read(S, t) \in [Feature -> Z]
<1>1. \A r, c \in Feature : S[r][c] \in Int
  BY Reduced DEF State
<1>2. t.a \in Int /\ t.b \in Int /\ \A f \in Feature : t.k[f] \in Int /\ t.q[f] \in Int /\ t.v[f] \in Int
  BY Reduced DEF Token
<1>3. Kept(S, t) \in State /\ \A r, c \in Feature : Kept(S, t)[r][c] \in Int
  <2>1. \A r, c \in Feature : (S[r][c] * t.a) % P \in Z
    BY <1>1, <1>2, Modulo
  <2>2. Kept(S, t) \in State
    BY <2>1 DEF Kept, State
  <2> QED BY <2>2, Reduced DEF State
<1>4. Mem(S, t) \in [Feature -> Z] /\ \A c \in Feature : Mem(S, t)[c] \in Int
  <2>1. \A c \in Feature : Total([r \in Feature |-> Kept(S, t)[r][c] * t.k[r]]) % P \in Z
    <3> SUFFICES ASSUME NEW c \in Feature
                 PROVE  Total([r \in Feature |-> Kept(S, t)[r][c] * t.k[r]]) % P \in Z
      OBVIOUS
    <3>1. \A r \in Feature : Kept(S, t)[r][c] * t.k[r] \in Int
      BY <1>2, <1>3
    <3>2. [r \in Feature |-> Kept(S, t)[r][c] * t.k[r]] \in [Feature -> Int]
      BY <3>1
    <3> QED BY <3>2, TotalInZ
  <2>2. Mem(S, t) \in [Feature -> Z]
    BY <2>1 DEF Mem
  <2> QED BY <2>2, Reduced
<1>5. Delta(S, t) \in [Feature -> Z] /\ \A c \in Feature : Delta(S, t)[c] \in Int
  <2>1. \A c \in Feature : ((t.v[c] - Mem(S, t)[c]) * t.b) % P \in Z
    BY <1>2, <1>4, Modulo
  <2>2. Delta(S, t) \in [Feature -> Z]
    BY <2>1 DEF Delta
  <2> QED BY <2>2, Reduced
<1>6. After(S, t) \in State /\ \A r, c \in Feature : After(S, t)[r][c] \in Int
  <2>1. \A r, c \in Feature : (Kept(S, t)[r][c] + t.k[r] * Delta(S, t)[c]) % P \in Z
    BY <1>2, <1>3, <1>5, Modulo
  <2>2. After(S, t) \in State
    BY <2>1 DEF After, State
  <2> QED BY <2>2, Reduced DEF State
<1>7. Read(S, t) \in [Feature -> Z]
  <2>1. \A c \in Feature : Total([r \in Feature |-> After(S, t)[r][c] * t.q[r]]) % P \in Z
    <3> SUFFICES ASSUME NEW c \in Feature
                 PROVE  Total([r \in Feature |-> After(S, t)[r][c] * t.q[r]]) % P \in Z
      OBVIOUS
    <3>1. \A r \in Feature : After(S, t)[r][c] * t.q[r] \in Int
      BY <1>2, <1>6
    <3>2. [r \in Feature |-> After(S, t)[r][c] * t.q[r]] \in [Feature -> Int]
      BY <3>1
    <3> QED BY <3>2, TotalInZ
  <2> QED BY <2>1 DEF Read
<1> QED BY <1>3, <1>4, <1>5, <1>6, <1>7

(* A blank token leaves the state as it is.                                *)
LEMMA BlankIsNothing == ASSUME NEW S \in State PROVE After(S, Blank) = S
<1>1. \A r, c \in Feature : S[r][c] \in Z /\ (S[r][c] * 1) % P = S[r][c]
  <2>1. \A r, c \in Feature : S[r][c] \in Z
    BY DEF State
  <2> QED BY <2>1, Reduced
<1>2. Blank.a = 1 /\ Blank.b = 0 /\ \A f \in Feature : Blank.k[f] = 0 /\ Blank.v[f] = 0
  BY DEF Blank
<1>3. Kept(S, Blank) = S
  <2>1. \A r, c \in Feature : (S[r][c] * Blank.a) % P = S[r][c]
    BY <1>1, <1>2
  <2>2. S = [r \in Feature |-> [c \in Feature |-> S[r][c]]]
    BY DEF State
  <2> QED BY <2>1, <2>2 DEF Kept
<1>4. Delta(S, Blank) \in [Feature -> Z]
  BY StepType, BlankToken
<1>5. \A r, c \in Feature : (Kept(S, Blank)[r][c] + Blank.k[r] * Delta(S, Blank)[c]) % P = S[r][c]
  <2> SUFFICES ASSUME NEW r \in Feature, NEW c \in Feature
               PROVE  (Kept(S, Blank)[r][c] + Blank.k[r] * Delta(S, Blank)[c]) % P = S[r][c]
    OBVIOUS
  <2>1. Delta(S, Blank)[c] \in Int /\ S[r][c] \in Int
    BY <1>1, <1>4, Reduced
  <2>2. Blank.k[r] * Delta(S, Blank)[c] = 0
    BY <1>2, <2>1
  <2>3. S[r][c] + 0 = S[r][c] /\ S[r][c] % P = S[r][c]
    BY <1>1, <2>1, Reduced
  <2> QED BY <1>3, <2>2, <2>3
<1>6. S = [r \in Feature |-> [c \in Feature |-> S[r][c]]]
  BY DEF State
<1> QED BY <1>5, <1>6 DEF After

-------------------------------------------------------------------------------
(* THE RECURRENCE OVER A SEQUENCE                                          *)

(* The recurrence as a run: a state and the outputs so far, token by       *)
(* token.                                                                  *)
Out == [Feature -> Z]
Done == [state : State, outs : Seq(Out)]
Start == [state |-> NoState, outs |-> <<>>]
Onward(d, t) == [state |-> After(d.state, t), outs |-> Append(d.outs, Read(d.state, t))]
Trace(f, toks) ==
    /\ f \in [0..Len(toks) -> Done] /\ f[0] = Start
    /\ \A n \in 1..Len(toks) : f[n] = Onward(f[n - 1], toks[n])

(* A token keeps the shape of the run.                                     *)
LEMMA OnwardType == ASSUME NEW d \in Done, NEW t \in Token PROVE Onward(d, t) \in Done
<1>1. d.state \in State /\ d.outs \in Seq(Out)
  BY DEF Done
<1>2. After(d.state, t) \in State /\ Read(d.state, t) \in Out
  BY <1>1, StepType DEF Out
<1>3. Append(d.outs, Read(d.state, t)) \in Seq(Out)
  BY <1>1, <1>2
<1> QED BY <1>2, <1>3 DEF Onward, Done

LEMMA StartType == Start \in Done
  BY BlankToken DEF Start, Done

(* What the recursion of Run says, literally.                              *)
Literal(f, xs) ==
    f = [n \in 0..Len(xs) |->
            IF n = 0 THEN [state |-> NoState, outs |-> <<>>]
            ELSE The({The({[state |-> done.state, outs |-> Append(before.outs, done.out)] :
                             done \in {Step(before.state, xs[n])}}) : before \in {f[n - 1]}})]

LEMMA OnwardLiteral ==
  ASSUME NEW d, NEW t
  PROVE  The({The({[state |-> done.state, outs |-> Append(before.outs, done.out)] :
                     done \in {Step(before.state, t)}}) : before \in {d}}) = Onward(d, t)
<1> DEFINE inner(before) == {[state |-> done.state, outs |-> Append(before.outs, done.out)] :
                               done \in {Step(before.state, t)}}
<1>1. \A before : inner(before) = {Onward(before, t)}
  BY StepIs DEF Onward
<1>2. \A x : The({x}) = x
  BY DEF The
<1> HIDE DEF inner
<1>3. {The(inner(before)) : before \in {d}} = {Onward(d, t)}
  BY <1>1, <1>2
<1>4. The({The(inner(before)) : before \in {d}}) = Onward(d, t)
  BY <1>2, <1>3
<1> QED BY <1>4 DEF inner

(* The recursion of Run has a solution, which is the run, for every        *)
(* sequence of tokens.                                                     *)
LEMMA Traced ==
  ASSUME NEW toks \in Seq(Token)
  PROVE  \E f : Trace(f, toks) /\ Sequential(toks) = f[Len(toks)]
<1> DEFINE n == Len(toks)
           st == [k \in 1..n |-> [d \in Done |-> Onward(d, toks[k])]]
           C == CHOOSE f : Literal(f, toks)
<1>1. n \in Nat /\ \A k \in 1..n : toks[k] \in Token
  OBVIOUS
<1>2. Steps(Done, n, st) /\ \A k \in 1..n : \A d \in Done : st[k][d] = Onward(d, toks[k])
  BY <1>1, OnwardType DEF Steps
<1> HIDE DEF st
<1>3. PICK f : Climbs(f, Done, n, Start, st)
  <2> HIDE DEF n
  <2> QED BY <1>1, <1>2, StartType, Recursion
<1>4. f \in [0..n -> Done] /\ f[0] = Start /\ \A k \in 1..n : f[k] = Onward(f[k - 1], toks[k])
  BY <1>1, <1>2, <1>3 DEF Climbs
<1>5. f = [k \in 0..n |-> IF k = 0 THEN Start ELSE Onward(f[k - 1], toks[k])]
  BY <1>1, <1>4
<1>6. Literal(f, toks)
  BY <1>5, OnwardLiteral DEF Literal, Start
<1>7. Literal(C, toks)
  BY <1>6
<1>8. C = [k \in 0..n |-> IF k = 0 THEN Start ELSE Onward(C[k - 1], toks[k])]
  <2> HIDE DEF C
  <2> QED BY <1>7, OnwardLiteral DEF Literal, Start
<1>9. Sequential(toks) = C[n]
  BY DEF Sequential, Run, Literal
<1> HIDE DEF C
<1>10. C[0] = Start /\ \A k \in 1..n : C[k] = Onward(C[k - 1], toks[k])
  BY <1>1, <1>8
<1> DEFINE K == {k \in 0..n : C[k] \in Done}
<1>11. 0 \in K /\ \A k \in 0..n : k \in K /\ k < n => k + 1 \in K
  <2>1. 0 \in K
    BY <1>1, <1>10, StartType
  <2>2. ASSUME NEW k \in 0..n, k \in K, k < n PROVE k + 1 \in K
    <3>1. k + 1 \in 1..n /\ (k + 1) - 1 = k
      BY <1>1, <2>2
    <3>2. C[k + 1] = Onward(C[k], toks[k + 1]) /\ toks[k + 1] \in Token /\ C[k] \in Done
      BY <1>1, <1>10, <2>2, <3>1
    <3>3. C[k + 1] \in Done
      BY <3>2, OnwardType
    <3> QED BY <3>1, <3>3
  <2> QED BY <2>1, <2>2
<1>12. \A k \in 0..n : C[k] \in Done
  <2> HIDE DEF K, n
  <2>1. 0..n \subseteq K
    BY <1>1, <1>11, Upwards
  <2> QED BY <2>1 DEF K
<1>13. C \in [0..n -> Done]
  BY <1>8, <1>12
<1> QED BY <1>9, <1>10, <1>13 DEF Trace

(* A run has one output per token.                                         *)
LEMMA TraceFacts ==
  ASSUME NEW toks \in Seq(Token), NEW f, Trace(f, toks)
  PROVE  \A n \in 0..Len(toks) :
            /\ f[n] \in Done /\ f[n].state \in State /\ f[n].outs \in Seq(Out) /\ Len(f[n].outs) = n
            /\ \A i \in 1..n : f[n].outs[i] = Read(f[i - 1].state, toks[i])
<1> DEFINE m == Len(toks)
           Fine(n) == Len(f[n].outs) = n /\ \A i \in 1..n : f[n].outs[i] = Read(f[i - 1].state, toks[i])
           K == {n \in 0..m : Fine(n)}
<1>1. m \in Nat /\ \A n \in 0..m : f[n] \in Done /\ f[n].state \in State /\ f[n].outs \in Seq(Out)
  BY DEF Trace, Done
<1>2. 0 \in K
  BY <1>1 DEF Trace, Start
<1>3. ASSUME NEW k \in 0..m, k \in K, k < m PROVE k + 1 \in K
  <2>1. k + 1 \in 1..m /\ (k + 1) - 1 = k
    BY <1>1, <1>3
  <2>2. f[k + 1].outs = Append(f[k].outs, Read(f[k].state, toks[k + 1]))
    <3>1. f[k + 1] = Onward(f[k], toks[k + 1])
      BY <2>1 DEF Trace
    <3> QED BY <3>1 DEF Onward
  <2>3. f[k].outs \in Seq(Out) /\ Len(f[k].outs) = k
    BY <1>1, <1>3
  <2>4. /\ Len(f[k + 1].outs) = k + 1 /\ f[k + 1].outs[k + 1] = Read(f[k].state, toks[k + 1])
        /\ \A i \in 1..k : f[k + 1].outs[i] = f[k].outs[i]
    BY <2>2, <2>3
  <2>5. \A i \in 1..(k + 1) : f[k + 1].outs[i] = Read(f[i - 1].state, toks[i])
    <3> SUFFICES ASSUME NEW i \in 1..(k + 1)
                 PROVE  f[k + 1].outs[i] = Read(f[i - 1].state, toks[i])
      OBVIOUS
    <3>1. CASE i = k + 1
      BY <3>1, <2>1, <2>4
    <3>2. CASE i \in 1..k
      BY <3>2, <2>4, <1>3
    <3> QED BY <3>1, <3>2
  <2> QED BY <2>1, <2>4, <2>5
<1> HIDE DEF K, m
<1>4. 0..m \subseteq K
  BY <1>1, <1>2, <1>3, Upwards
<1>5. \A n \in 0..m : Fine(n)
  BY <1>4 DEF K
<1> QED BY <1>1, <1>5 DEF m

(* Runs of sequences with a common beginning agree on it.                  *)
LEMMA SameTokens ==
  ASSUME NEW toks \in Seq(Token), NEW f, Trace(f, toks), NEW more \in Seq(Token), NEW g, Trace(g, more),
         NEW n \in Nat, n <= Len(toks), n <= Len(more), \A i \in 1..n : toks[i] = more[i]
  PROVE  \A k \in 0..n : f[k] = g[k]
<1> DEFINE K == {k \in 0..n : f[k] = g[k]}
<1>1. 0 \in K
  BY DEF Trace
<1>2. ASSUME NEW k \in 0..n, k \in K, k < n PROVE k + 1 \in K
  <2>1. k + 1 \in 1..n /\ k + 1 \in 1..Len(toks) /\ k + 1 \in 1..Len(more) /\ (k + 1) - 1 = k
    BY <1>2
  <2>2. f[k + 1] = Onward(f[k], toks[k + 1]) /\ g[k + 1] = Onward(g[k], more[k + 1])
    BY <2>1 DEF Trace
  <2> QED BY <1>2, <2>1, <2>2
<1> HIDE DEF K
<1>3. 0..n \subseteq K
  BY <1>1, <1>2, Upwards
<1> QED BY <1>3 DEF K

(* Blank tokens at the end leave the state as it is.                       *)
LEMMA BlanksKeep ==
  ASSUME NEW toks \in Seq(Token), NEW f, Trace(f, toks), NEW n \in 0..Len(toks),
         \A i \in (n + 1)..Len(toks) : toks[i] = Blank
  PROVE  f[Len(toks)].state = f[n].state
<1> DEFINE m == Len(toks) - n
           K == {k \in 0..m : f[n + k].state = f[n].state}
<1>1. m \in Nat /\ n \in Nat /\ n + m = Len(toks)
  OBVIOUS
<1>2. 0 \in K
  BY <1>1
<1>3. ASSUME NEW k \in 0..m, k \in K, k < m PROVE k + 1 \in K
  <2>1. n + k \in 0..Len(toks) /\ n + (k + 1) \in (n + 1)..Len(toks) /\ n + (k + 1) \in 1..Len(toks)
        /\ (n + (k + 1)) - 1 = n + k
    BY <1>1, <1>3
  <2>2. f[n + (k + 1)] = Onward(f[n + k], Blank)
    BY <2>1 DEF Trace
  <2>3. f[n + k].state \in State
    BY <2>1, TraceFacts
  <2>4. f[n + (k + 1)].state = f[n + k].state
    BY <2>2, <2>3, BlankIsNothing DEF Onward
  <2>5. k + 1 \in 0..m
    BY <1>1, <1>3
  <2> QED BY <1>3, <2>4, <2>5
<1> HIDE DEF K, m
<1>4. 0..m \subseteq K
  BY <1>1, <1>2, <1>3, Upwards
<1>5. m \in K
  BY <1>1, <1>4
<1> QED BY <1>1, <1>5 DEF K

(* A sequence with blanks behind it ends in the state its own tokens       *)
(* leave.                                                                  *)
LEMMA PaddedRun ==
  ASSUME NEW front \in Seq(Token), NEW toks \in Seq(Token), Len(front) <= Len(toks),
         \A i \in 1..Len(front) : toks[i] = front[i],
         \A i \in (Len(front) + 1)..Len(toks) : toks[i] = Blank
  PROVE  /\ Sequential(toks).state = Sequential(front).state
         /\ \A i \in 1..Len(front) : Sequential(toks).outs[i] = Sequential(front).outs[i]
<1>1. PICK f : Trace(f, toks) /\ Sequential(toks) = f[Len(toks)]
  BY Traced
<1>2. PICK g : Trace(g, front) /\ Sequential(front) = g[Len(front)]
  BY Traced
<1> DEFINE n == Len(front)
           m == Len(toks)
<1>3. n \in Nat /\ m \in Nat /\ n <= m
  OBVIOUS
<1>4. \A k \in 0..n : f[k] = g[k]
  BY <1>1, <1>2, <1>3, SameTokens
<1>5. f[m].state = f[n].state
  BY <1>1, <1>3, BlanksKeep
<1>6. \A i \in 1..n : f[m].outs[i] = Read(f[i - 1].state, toks[i])
                      /\ g[n].outs[i] = Read(g[i - 1].state, front[i])
  <2>1. \A i \in 1..m : f[m].outs[i] = Read(f[i - 1].state, toks[i])
    BY <1>1, <1>3, TraceFacts
  <2>2. \A i \in 1..n : g[n].outs[i] = Read(g[i - 1].state, front[i])
    BY <1>2, <1>3, TraceFacts
  <2> QED BY <2>1, <2>2, <1>3
<1>7. \A i \in 1..n : f[m].outs[i] = g[n].outs[i]
  <2> SUFFICES ASSUME NEW i \in 1..n PROVE f[m].outs[i] = g[n].outs[i]
    OBVIOUS
  <2>1. i - 1 \in 0..n /\ f[i - 1] = g[i - 1] /\ toks[i] = front[i]
    BY <1>3, <1>4
  <2> QED BY <1>6, <2>1
<1> QED BY <1>1, <1>2, <1>3, <1>4, <1>5, <1>7

(* The run of a longer sequence is one step more.                          *)
LEMMA OneMore ==
  ASSUME NEW toks \in Seq(Token), NEW more \in Seq(Token), Len(more) = Len(toks) + 1,
         \A i \in 1..Len(toks) : more[i] = toks[i]
  PROVE  /\ Sequential(toks) \in Done /\ Len(Sequential(toks).outs) = Len(toks)
         /\ Sequential(more) = Onward(Sequential(toks), more[Len(more)])
<1>1. PICK f : Trace(f, toks) /\ Sequential(toks) = f[Len(toks)]
  BY Traced
<1>2. PICK g : Trace(g, more) /\ Sequential(more) = g[Len(more)]
  BY Traced
<1> DEFINE n == Len(toks)
<1>3. n \in Nat /\ Len(more) = n + 1 /\ n + 1 \in 1..Len(more) /\ (n + 1) - 1 = n /\ n \in 0..n
  OBVIOUS
<1>4. \A k \in 0..n : f[k] = g[k]
  <2>1. \A i \in 1..n : toks[i] = more[i]
    OBVIOUS
  <2> QED BY <2>1, <1>1, <1>2, <1>3, SameTokens
<1>5. g[n + 1] = Onward(g[n], more[n + 1])
  BY <1>2, <1>3 DEF Trace
<1>6. f[n] \in Done /\ Len(f[n].outs) = n
  BY <1>1, <1>3, TraceFacts
<1> QED BY <1>1, <1>2, <1>3, <1>4, <1>5, <1>6

-------------------------------------------------------------------------------
(* THE RECURRENT KERNEL                                                    *)

(* A number is P times its quotient and its residue.                       *)
LEMMA ModIs ==
  ASSUME NEW x \in Int
  PROVE  x = P * (x \div P) + (x % P) /\ x % P \in 0..(P - 1) /\ x \div P \in Int
<1>0. P \in Nat /\ P > 0
  BY NumbersAssumption
<1>1. x % P \in 0..(P - 1)
  BY <1>0
<1>2. x \div P \in Int
  BY <1>0
<1>3. x = P * (x \div P) + (x % P)
  BY <1>0
<1> QED BY <1>1, <1>2, <1>3

(* There is one residue.                                                   *)
LEMMA ModUnique ==
  ASSUME NEW x \in Int, NEW q \in Int, NEW r \in 0..(P - 1), x = P * q + r
  PROVE  x % P = r
  BY NumbersAssumption, SMTT(30)

(* A sum or a product of a residue has the residue of the number.          *)
LEMMA PlusMod == \A x, y \in Int : (x + (y % P)) % P = (x + y) % P
<1> SUFFICES ASSUME NEW x \in Int, NEW y \in Int PROVE (x + (y % P)) % P = (x + y) % P
  OBVIOUS
<1>1. PICK q, r \in Int : r = y % P /\ y = P * q + r
  BY ModIs
<1>2. PICK d, m \in Int : m = (x + r) % P /\ m \in 0..(P - 1) /\ x + r = P * d + m
  BY ModIs
<1>3. x + y = P * (q + d) + m
  <2>1. PICK a \in Int : a = P * q
    BY NumbersAssumption
  <2>2. PICK b \in Int : b = P * d
    BY NumbersAssumption
  <2>3. P * (q + d) = a + b
    BY <2>1, <2>2, NumbersAssumption
  <2>4. y = a + r /\ x + r = b + m
    BY <1>1, <1>2, <2>1, <2>2
  <2>5. r \in Int /\ m \in Int
    OBVIOUS
  <2>6. x + y = (a + b) + m
    BY <2>4, <2>5
  <2> QED BY <2>3, <2>6
<1>4. (x + y) % P = m
  <2>1. q + d \in Int /\ x + y \in Int
    OBVIOUS
  <2> QED BY <2>1, <1>2, <1>3, ModUnique
<1> QED BY <1>1, <1>2, <1>4

LEMMA TimesMod == \A x, y \in Int : (x * (y % P)) % P = (x * y) % P
<1> SUFFICES ASSUME NEW x \in Int, NEW y \in Int PROVE (x * (y % P)) % P = (x * y) % P
  OBVIOUS
<1>1. PICK q, r \in Int : q = y \div P /\ r = y % P /\ y = P * q + r
  BY ModIs
<1>2. PICK z \in Int : z = x * r
  OBVIOUS
<1>3. PICK d, m \in Int : m = z % P /\ m \in 0..(P - 1) /\ z = P * d + m
  BY ModIs
<1>4. x * y = P * (x * q + d) + m
  <2>1. x * y = x * (P * q) + x * r
    BY <1>1, NumbersAssumption
  <2>2. x * (P * q) = P * (x * q)
    BY NumbersAssumption
  <2>3. P * (x * q + d) = P * (x * q) + P * d
    BY NumbersAssumption
  <2>4. P * (x * q) \in Int /\ P * d \in Int
    BY NumbersAssumption
  <2>5. x * y = P * (x * q) + z
    BY <2>1, <2>2, <1>2
  <2> QED BY <2>3, <2>4, <2>5, <1>3
<1>5. (x * y) % P = m
  <2>1. x * q + d \in Int /\ x * y \in Int
    OBVIOUS
  <2> QED BY <2>1, <1>3, <1>4, ModUnique
<1> QED BY <1>1, <1>2, <1>3, <1>5

(* The matrix operators of DeltaRule, without the sets that name their     *)
(* arguments.                                                              *)
LEMMA TheIs == \A x : The({x}) = x
  BY DEF The

LEMMA TrIs == \A A : Tr(A) = [j \in DOMAIN A[1] |-> [i \in DOMAIN A |-> A[i][j]]]
<1> SUFFICES ASSUME NEW A PROVE Tr(A) = [j \in DOMAIN A[1] |-> [i \in DOMAIN A |-> A[i][j]]]
  OBVIOUS
<1> DEFINE e(a) == [j \in DOMAIN a[1] |-> [i \in DOMAIN a |-> a[i][j]]]
<1>1. Tr(A) = The({e(a) : a \in {A}})
  BY DEF Tr
<1> HIDE DEF e
<1>2. {e(a) : a \in {A}} = {e(A)}
  OBVIOUS
<1>3. Tr(A) = e(A)
  BY <1>1, <1>2, TheIs
<1> QED BY <1>3 DEF e

LEMMA MulIs ==
  \A A, B : Mul(A, B) = [i \in DOMAIN A |-> [j \in DOMAIN B[1] |->
                           Total([k \in DOMAIN B |-> A[i][k] * B[k][j]]) % P]]
<1> SUFFICES ASSUME NEW A, NEW B
             PROVE  Mul(A, B) = [i \in DOMAIN A |-> [j \in DOMAIN B[1] |->
                           Total([k \in DOMAIN B |-> A[i][k] * B[k][j]]) % P]]
  OBVIOUS
<1> DEFINE e(a, b) == [i \in DOMAIN a |-> [j \in DOMAIN b[1] |->
                         Total([k \in DOMAIN b |-> a[i][k] * b[k][j]]) % P]]
<1>1. Mul(A, B) = The({e(a, b) : a \in {A}, b \in {B}})
  BY DEF Mul, Sum
<1> HIDE DEF e
<1>2. {e(a, b) : a \in {A}, b \in {B}} = {e(A, B)}
  OBVIOUS
<1>3. Mul(A, B) = e(A, B)
  BY <1>1, <1>2, TheIs
<1> QED BY <1>3 DEF e

LEMMA PlusIs ==
  \A A, B : Plus(A, B) = [i \in DOMAIN A |-> [j \in DOMAIN A[1] |-> (A[i][j] + B[i][j]) % P]]
<1> SUFFICES ASSUME NEW A, NEW B
             PROVE  Plus(A, B) = [i \in DOMAIN A |-> [j \in DOMAIN A[1] |-> (A[i][j] + B[i][j]) % P]]
  OBVIOUS
<1> DEFINE e(a, b) == [i \in DOMAIN a |-> [j \in DOMAIN a[1] |-> (a[i][j] + b[i][j]) % P]]
<1>1. Plus(A, B) = The({e(a, b) : a \in {A}, b \in {B}})
  BY DEF Plus, Map2
<1> HIDE DEF e
<1>2. {e(a, b) : a \in {A}, b \in {B}} = {e(A, B)}
  OBVIOUS
<1>3. Plus(A, B) = e(A, B)
  BY <1>1, <1>2, TheIs
<1> QED BY <1>3 DEF e

LEMMA MinusIs ==
  \A A, B : Minus(A, B) = [i \in DOMAIN A |-> [j \in DOMAIN A[1] |-> (A[i][j] - B[i][j]) % P]]
<1> SUFFICES ASSUME NEW A, NEW B
             PROVE  Minus(A, B) = [i \in DOMAIN A |-> [j \in DOMAIN A[1] |-> (A[i][j] - B[i][j]) % P]]
  OBVIOUS
<1> DEFINE e(a, b) == [i \in DOMAIN a |-> [j \in DOMAIN a[1] |-> (a[i][j] - b[i][j]) % P]]
<1>1. Minus(A, B) = The({e(a, b) : a \in {A}, b \in {B}})
  BY DEF Minus, Map2
<1> HIDE DEF e
<1>2. {e(a, b) : a \in {A}, b \in {B}} = {e(A, B)}
  OBVIOUS
<1>3. Minus(A, B) = e(A, B)
  BY <1>1, <1>2, TheIs
<1> QED BY <1>3 DEF e

LEMMA RowsIs ==
  \A c, A : Rows(c, A) = [i \in DOMAIN A |-> [j \in DOMAIN A[1] |-> (c[i] * A[i][j]) % P]]
<1> SUFFICES ASSUME NEW c, NEW A
             PROVE  Rows(c, A) = [i \in DOMAIN A |-> [j \in DOMAIN A[1] |-> (c[i] * A[i][j]) % P]]
  OBVIOUS
<1> DEFINE e(a) == [i \in DOMAIN a |-> [j \in DOMAIN a[1] |-> (c[i] * a[i][j]) % P]]
<1>1. Rows(c, A) = The({e(a) : a \in {A}})
  BY DEF Rows
<1> HIDE DEF e
<1>2. {e(a) : a \in {A}} = {e(A)}
  OBVIOUS
<1>3. Rows(c, A) = e(A)
  BY <1>1, <1>2, TheIs
<1> QED BY <1>3 DEF e

LEMMA ScaledIs ==
  \A c, A : Scaled(c, A) = [i \in DOMAIN A |-> [j \in DOMAIN A[1] |-> (c * A[i][j]) % P]]
<1> SUFFICES ASSUME NEW c, NEW A
             PROVE  Scaled(c, A) = [i \in DOMAIN A |-> [j \in DOMAIN A[1] |-> (c * A[i][j]) % P]]
  OBVIOUS
<1> DEFINE e(a) == [i \in DOMAIN a |-> [j \in DOMAIN a[1] |-> (c * a[i][j]) % P]]
<1>1. Scaled(c, A) = The({e(a) : a \in {A}})
  BY DEF Scaled
<1> HIDE DEF e
<1>2. {e(a) : a \in {A}} = {e(A)}
  OBVIOUS
<1>3. Scaled(c, A) = e(A)
  BY <1>1, <1>2, TheIs
<1> QED BY <1>3 DEF e

(* A vector as a column.                                                   *)
Col(x) == [f \in Feature |-> [one \in 1..1 |-> x[f]]]
KernelDelta(kept, t) == Tr(Scaled(t.b, Minus(Col(t.v), Mul(Tr(kept), Col(t.k)))))[1]
KernelNext(kept, t) == Plus(kept, Rows(t.k, [r \in Feature |-> KernelDelta(kept, t)]))

LEMMA KernelStepIs ==
  \A S, t : KernelStep(S, t) =
     [state |-> KernelNext(Scaled(t.a, S), t),
      out |-> Tr(Mul(Tr(KernelNext(Scaled(t.a, S), t)), Col(t.q)))[1]]
<1> SUFFICES ASSUME NEW S, NEW t
             PROVE  KernelStep(S, t) = [state |-> KernelNext(Scaled(t.a, S), t),
                        out |-> Tr(Mul(Tr(KernelNext(Scaled(t.a, S), t)), Col(t.q)))[1]]
  OBVIOUS
<1> DEFINE e(next) == [state |-> next, out |-> Tr(Mul(Tr(next), Col(t.q)))[1]]
<1>1. KernelStep(S, t) = The({e(next) : next \in {KernelNext(kept, t) : kept \in {Scaled(t.a, S)}}})
  BY DEF KernelStep, KernelNext, KernelDelta, Col
<1> HIDE DEF e
<1>2. {KernelNext(kept, t) : kept \in {Scaled(t.a, S)}} = {KernelNext(Scaled(t.a, S), t)}
  OBVIOUS
<1>3. {e(next) : next \in {KernelNext(Scaled(t.a, S), t)}} = {e(KernelNext(Scaled(t.a, S), t))}
  OBVIOUS
<1>4. KernelStep(S, t) = e(KernelNext(Scaled(t.a, S), t))
  BY <1>1, <1>2, <1>3, TheIs
<1> QED BY <1>4 DEF e

(* The columns of a matrix of one column.                                  *)
LEMMA ColIs ==
  \A x : /\ DOMAIN Col(x) = Feature /\ 1 \in Feature /\ 1 \in 1..1 /\ DOMAIN Col(x)[1] = 1..1
         /\ \A f \in Feature : Col(x)[f][1] = x[f]
<1>1. 1 \in Feature /\ 1 \in 1..1
  BY NumbersAssumption DEF Feature
<1> QED BY <1>1 DEF Col

(* The product with a transposed matrix and a column, laid out as a row.   *)
Under(M, x, c) == Total([r \in Feature |-> M[r][c] * x[r]]) % P

LEMMA TransposedProduct ==
  ASSUME NEW M, NEW x, DOMAIN M = Feature, DOMAIN M[1] = Feature
  PROVE  Mul(Tr(M), Col(x)) = [c \in Feature |-> [j \in 1..1 |-> Under(M, x, c)]]
<1> DEFINE e(i, j) == Total([k \in DOMAIN Col(x) |-> Tr(M)[i][k] * Col(x)[k][j]]) % P
<1>1. Tr(M) = [j \in Feature |-> [i \in Feature |-> M[i][j]]]
  BY TrIs
<1>2. Mul(Tr(M), Col(x)) = [i \in DOMAIN Tr(M) |-> [j \in DOMAIN Col(x)[1] |-> e(i, j)]]
  BY MulIs
<1>3. \A i \in Feature, j \in 1..1 : e(i, j) = Under(M, x, i)
  <2> SUFFICES ASSUME NEW i \in Feature, NEW j \in 1..1 PROVE e(i, j) = Under(M, x, i)
    OBVIOUS
  <2>1. j = 1
    OBVIOUS
  <2>2. \A k \in Feature : Tr(M)[i][k] = M[k][i] /\ Col(x)[k][j] = x[k]
    BY <1>1, <2>1, ColIs
  <2>3. [k \in DOMAIN Col(x) |-> Tr(M)[i][k] * Col(x)[k][j]] = [r \in Feature |-> M[r][i] * x[r]]
    BY <2>2, ColIs
  <2> QED BY <2>3 DEF Under
<1> HIDE DEF e
<1>4. Mul(Tr(M), Col(x)) = [i \in Feature |-> [j \in 1..1 |-> e(i, j)]]
  BY <1>1, <1>2, ColIs
<1> QED BY <1>3, <1>4

LEMMA RowOf ==
  ASSUME NEW y
  PROVE  Tr([c \in Feature |-> [j \in 1..1 |-> y[c]]])[1] = [c \in Feature |-> y[c]]
<1> DEFINE A == [c \in Feature |-> [j \in 1..1 |-> y[c]]]
<1>1. DOMAIN A = Feature /\ 1 \in Feature /\ 1 \in 1..1 /\ DOMAIN A[1] = 1..1
      /\ \A c \in Feature : A[c][1] = y[c]
  BY NumbersAssumption DEF Feature
<1> HIDE DEF A
<1>2. Tr(A) = [j \in 1..1 |-> [i \in Feature |-> A[i][j]]]
  BY <1>1, TrIs
<1>3. Tr(A)[1] = [i \in Feature |-> A[i][1]]
  BY <1>1, <1>2
<1>4. Tr(A)[1] = [c \in Feature |-> y[c]]
  BY <1>1, <1>3
<1> QED BY <1>4 DEF A

LEMMA DeltaTwoSteps ==
  \A v, m, b \in Int : (b * ((v - m) % P)) % P = ((v - m) * b) % P
<1> SUFFICES ASSUME NEW v \in Int, NEW m \in Int, NEW b \in Int
             PROVE  (b * ((v - m) % P)) % P = ((v - m) * b) % P
  OBVIOUS
<1>1. PICK d \in Int : d = v - m
  OBVIOUS
<1>2. (b * (d % P)) % P = (b * d) % P /\ b * d = d * b
  BY TimesMod
<1> QED BY <1>1, <1>2

(* The kernel decays, reads, writes and reads as Step does.                *)
LEMMA KernelStepAgrees ==
  ASSUME NEW S \in State, NEW t \in Token
  PROVE  KernelStep(S, t) = [state |-> After(S, t), out |-> Read(S, t)]
<1>1. 1 \in Feature
  BY NumbersAssumption DEF Feature
<1>2. /\ \A r, c \in Feature : S[r][c] \in Int
      /\ DOMAIN S = Feature /\ \A r \in Feature : DOMAIN S[r] = Feature
  BY Reduced DEF State
<1>3. /\ t.a \in Int /\ t.b \in Int
      /\ \A f \in Feature : t.k[f] \in Int /\ t.q[f] \in Int /\ t.v[f] \in Int
  BY Reduced DEF Token
<1>4. Scaled(t.a, S) = Kept(S, t)
  <2>1. Scaled(t.a, S) = [i \in Feature |-> [j \in Feature |-> (t.a * S[i][j]) % P]]
    BY <1>1, <1>2, ScaledIs
  <2>2. \A i, j \in Feature : t.a * S[i][j] = S[i][j] * t.a
    BY <1>2, <1>3
  <2> QED BY <2>1, <2>2 DEF Kept
<1>a. PICK K : K = Kept(S, t)
  OBVIOUS
<1>b. PICK m : m = Mem(S, t)
  OBVIOUS
<1>c. PICK d : d = Delta(S, t)
  OBVIOUS
<1>d. PICK N : N = After(S, t)
  OBVIOUS
<1>5. /\ DOMAIN K = Feature /\ \A r \in Feature : DOMAIN K[r] = Feature
      /\ \A r, c \in Feature : K[r][c] \in Int
      /\ \A c \in Feature : m[c] \in Int /\ d[c] \in Int
      /\ DOMAIN N = Feature /\ \A r \in Feature : DOMAIN N[r] = Feature
  BY <1>a, <1>b, <1>c, <1>d, StepType, Reduced DEF State
<1>6. Mul(Tr(K), Col(t.k)) = [c \in Feature |-> [j \in 1..1 |-> m[c]]]
  <2>1. Mul(Tr(K), Col(t.k)) = [c \in Feature |-> [j \in 1..1 |-> Under(K, t.k, c)]]
    BY <1>1, <1>5, TransposedProduct
  <2>2. \A c \in Feature : m[c] = Under(K, t.k, c)
    BY <1>a, <1>b DEF Mem, Under
  <2> QED BY <2>1, <2>2
<1>7. KernelDelta(K, t) = [c \in Feature |-> d[c]]
  <2> DEFINE M == [c \in Feature |-> [j \in 1..1 |-> m[c]]]
             D == Minus(Col(t.v), M)
             W == Scaled(t.b, D)
  <2>1. D = [i \in Feature |-> [j \in 1..1 |-> (Col(t.v)[i][j] - M[i][j]) % P]]
    BY MinusIs, ColIs
  <2>2. ASSUME NEW i \in Feature, NEW j \in 1..1
        PROVE  (Col(t.v)[i][j] - M[i][j]) % P = (t.v[i] - m[i]) % P
    <3>1. j = 1 /\ Col(t.v)[i][1] = t.v[i]
      BY <2>2, ColIs
    <3> QED BY <2>2, <3>1
  <2>3. D = [i \in Feature |-> [j \in 1..1 |-> (t.v[i] - m[i]) % P]]
    BY <2>1, <2>2
  <2> HIDE DEF D
  <2>4. 1 \in 1..1 /\ DOMAIN D = Feature /\ DOMAIN D[1] = 1..1
    BY <2>3, <1>1
  <2>5. W = [i \in Feature |-> [j \in 1..1 |-> (t.b * D[i][j]) % P]]
    BY <2>4, ScaledIs
  <2>6. ASSUME NEW i \in Feature, NEW j \in 1..1 PROVE (t.b * D[i][j]) % P = d[i]
    <3>1. D[i][j] = (t.v[i] - m[i]) % P
      BY <2>3, <2>6
    <3>2. d[i] = ((t.v[i] - m[i]) * t.b) % P
      BY <1>b, <1>c, <2>6 DEF Delta
    <3>3. t.v[i] \in Int /\ m[i] \in Int /\ t.b \in Int
      BY <1>3, <1>5, <2>6
    <3> QED BY <3>1, <3>2, <3>3, DeltaTwoSteps
  <2>7. W = [i \in Feature |-> [j \in 1..1 |-> d[i]]]
    BY <2>5, <2>6
  <2>8. KernelDelta(K, t) = Tr(W)[1]
    BY <1>6 DEF KernelDelta, D
  <2> HIDE DEF W
  <2> QED BY <2>7, <2>8, RowOf
<1>8. KernelNext(K, t) = N
  <2> DEFINE R == Rows(t.k, [r \in Feature |-> KernelDelta(K, t)])
  <2>1. R = [i \in Feature |-> [j \in Feature |-> (t.k[i] * d[j]) % P]]
    <3> DEFINE A == [r \in Feature |-> KernelDelta(K, t)]
    <3>1. DOMAIN A = Feature /\ DOMAIN A[1] = Feature /\ \A i, j \in Feature : A[i][j] = d[j]
      BY <1>1, <1>7
    <3> HIDE DEF A
    <3>2. Rows(t.k, A) = [i \in Feature |-> [j \in Feature |-> (t.k[i] * A[i][j]) % P]]
      BY <3>1, RowsIs
    <3>3. Rows(t.k, A) = [i \in Feature |-> [j \in Feature |-> (t.k[i] * d[j]) % P]]
      BY <3>1, <3>2
    <3> QED BY <3>3 DEF A
  <2> HIDE DEF R
  <2>2. Plus(K, R) = [i \in Feature |-> [j \in Feature |-> (K[i][j] + R[i][j]) % P]]
    BY <1>1, <1>5, PlusIs
  <2>3. ASSUME NEW i \in Feature, NEW j \in Feature
        PROVE  (K[i][j] + R[i][j]) % P = N[i][j]
    <3>1. R[i][j] = (t.k[i] * d[j]) % P
      BY <2>1, <2>3
    <3>2. N[i][j] = (K[i][j] + t.k[i] * d[j]) % P
      BY <1>a, <1>c, <1>d, <2>3 DEF After
    <3>3. K[i][j] \in Int /\ t.k[i] * d[j] \in Int
      BY <1>3, <1>5, <2>3
    <3> QED BY <3>1, <3>2, <3>3, PlusMod
  <2>4. N = [i \in Feature |-> [j \in Feature |-> N[i][j]]]
    BY <1>d DEF After
  <2>5. Plus(K, R) = N
    BY <2>2, <2>3, <2>4
  <2> QED BY <2>5 DEF KernelNext, R
<1>9. Tr(Mul(Tr(N), Col(t.q)))[1] = Read(S, t)
  <2>1. PICK o : o = [c \in Feature |-> Under(N, t.q, c)]
    OBVIOUS
  <2>2. Mul(Tr(N), Col(t.q)) = [c \in Feature |-> [j \in 1..1 |-> Under(N, t.q, c)]]
    BY <1>1, <1>5, TransposedProduct
  <2>3. Mul(Tr(N), Col(t.q)) = [c \in Feature |-> [j \in 1..1 |-> o[c]]]
    BY <2>1, <2>2
  <2>4. Tr(Mul(Tr(N), Col(t.q)))[1] = [c \in Feature |-> o[c]]
    BY <2>3, RowOf
  <2>5. [c \in Feature |-> o[c]] = o
    BY <2>1
  <2>6. o = Read(S, t)
    BY <2>1, <1>d DEF Read, Under
  <2> QED BY <2>4, <2>5, <2>6
<1> QED BY <1>4, <1>8, <1>9, <1>a, <1>d, KernelStepIs

(* A token in the kernel, and the recursion of its run as written.         *)
KernelOnward(d, t) ==
    [state |-> KernelStep(d.state, t).state, outs |-> Append(d.outs, KernelStep(d.state, t).out)]

KernelLiteral(f, xs) ==
    f = [n \in 0..Len(xs) |->
            IF n = 0 THEN [state |-> NoState, outs |-> <<>>]
            ELSE The({The({[state |-> done.state, outs |-> Append(before.outs, done.out)] :
                             done \in {KernelStep(before.state, xs[n])}}) : before \in {f[n - 1]}})]

LEMMA KernelOnwardLiteral ==
  ASSUME NEW d, NEW t
  PROVE  The({The({[state |-> done.state, outs |-> Append(before.outs, done.out)] :
                     done \in {KernelStep(before.state, t)}}) : before \in {d}}) = KernelOnward(d, t)
<1> DEFINE inner(before) == {[state |-> done.state, outs |-> Append(before.outs, done.out)] :
                               done \in {KernelStep(before.state, t)}}
<1>1. \A before : inner(before) = {KernelOnward(before, t)}
  BY DEF KernelOnward
<1> HIDE DEF inner
<1>2. {The(inner(before)) : before \in {d}} = {KernelOnward(d, t)}
  BY <1>1, TheIs
<1>3. The({The(inner(before)) : before \in {d}}) = KernelOnward(d, t)
  BY <1>2, TheIs
<1> QED BY <1>3 DEF inner

LEMMA KernelOnwardAgrees ==
  ASSUME NEW d \in Done, NEW t \in Token
  PROVE  KernelOnward(d, t) = Onward(d, t)
<1>1. d.state \in State
  BY DEF Done
<1>2. KernelStep(d.state, t).state = After(d.state, t) /\ KernelStep(d.state, t).out = Read(d.state, t)
  BY <1>1, KernelStepAgrees
<1> QED BY <1>2 DEF KernelOnward, Onward

(* The recurrent NKI kernel, which decays, reads, corrects and writes its  *)
(* state with matrix instructions, computes the recurrence of the          *)
(* sequential loop on every sequence of tokens.                            *)
THEOREM RecurrentAgrees == \A toks \in Seq(Token) : RecurrentKernel(toks) = Sequential(toks)
<1> SUFFICES ASSUME NEW toks \in Seq(Token) PROVE RecurrentKernel(toks) = Sequential(toks)
  OBVIOUS
<1> DEFINE n == Len(toks)
           C == CHOOSE f : KernelLiteral(f, toks)
<1>1. n \in Nat /\ \A k \in 1..n : toks[k] \in Token
  OBVIOUS
<1>2. PICK f : Trace(f, toks) /\ Sequential(toks) = f[n]
  BY Traced
<1>3. /\ f \in [0..n -> Done] /\ f[0] = Start
      /\ \A k \in 1..n : f[k] = KernelOnward(f[k - 1], toks[k])
  <2>1. f \in [0..n -> Done] /\ f[0] = Start /\ \A k \in 1..n : f[k] = Onward(f[k - 1], toks[k])
    BY <1>2 DEF Trace
  <2>2. \A k \in 1..n : k - 1 \in 0..n
    BY <1>1
  <2>3. \A k \in 1..n : KernelOnward(f[k - 1], toks[k]) = Onward(f[k - 1], toks[k])
    BY <1>1, <2>1, <2>2, KernelOnwardAgrees
  <2> QED BY <2>1, <2>3
<1>4. f = [k \in 0..n |-> IF k = 0 THEN Start ELSE KernelOnward(f[k - 1], toks[k])]
  BY <1>1, <1>3
<1>5. KernelLiteral(f, toks)
  BY <1>4, KernelOnwardLiteral DEF KernelLiteral, Start
<1>6. KernelLiteral(C, toks)
  BY <1>5
<1>7. RecurrentKernel(toks) = C[n]
  BY DEF RecurrentKernel, Run, KernelLiteral
<1> HIDE DEF C
<1>8. C = [k \in 0..n |-> IF k = 0 THEN Start ELSE KernelOnward(C[k - 1], toks[k])]
  BY <1>6, KernelOnwardLiteral DEF KernelLiteral, Start
<1>9. C[0] = Start /\ \A k \in 1..n : C[k] = KernelOnward(C[k - 1], toks[k])
  BY <1>1, <1>8
<1> DEFINE K == {k \in 0..n : C[k] = f[k]}
<1>10. 0 \in K /\ \A k \in 0..n : k \in K /\ k < n => k + 1 \in K
  <2>1. 0 \in K
    BY <1>1, <1>3, <1>9
  <2>2. ASSUME NEW k \in 0..n, k \in K, k < n PROVE k + 1 \in K
    <3>1. k + 1 \in 1..n /\ (k + 1) - 1 = k
      BY <1>1, <2>2
    <3>2. C[k + 1] = KernelOnward(C[k], toks[k + 1]) /\ f[k + 1] = KernelOnward(f[k], toks[k + 1])
      BY <1>3, <1>9, <3>1
    <3> QED BY <2>2, <3>1, <3>2
  <2> QED BY <2>1, <2>2
<1>11. C[n] = f[n]
  <2> HIDE DEF K, n
  <2>1. 0..n \subseteq K
    BY <1>1, <1>10, Upwards
  <2>2. n \in 0..n
    BY <1>1
  <2> QED BY <2>1, <2>2 DEF K
<1> QED BY <1>2, <1>7, <1>11

-------------------------------------------------------------------------------
(* POSITIONS STAY IN THE CACHE                                             *)

-------------------------------------------------------------------------------
(* The largest of a bounded set of numbers, and the least of two.          *)
LEMMA MaxIsMost ==
  ASSUME NEW S \in SUBSET Nat, S # {}, NEW b \in Nat, \A n \in S : n <= b
  PROVE  Max(S) \in S /\ \A n \in S : n <= Max(S)
<1> DEFINE T == {1..(b - n) : n \in S}
<1>1. \A n \in S : IsFiniteSet(1..(b - n)) /\ 1..(b - n) \in SUBSET Nat
  BY FS_Interval
<1>2. T \subseteq FiniteSubsetsOf(Nat) /\ T # {}
  BY <1>1 DEF FiniteSubsetsOf
<1>3. PICK x \in T : \A y \in T : ~ (<<y, x>> \in StrictSubsetOrdering(Nat))
  BY <1>2, FS_StrictSubsetOrderingWellFounded, WFMin
<1>4. PICK m \in S : x = 1..(b - m)
  OBVIOUS
<1>5. ASSUME NEW n \in S, m < n PROVE FALSE
  <2>1. b - m \in 1..(b - m) /\ b - m \notin 1..(b - n) /\ 1..(b - n) \subseteq 1..(b - m)
    BY <1>5
  <2>2. ~ (<<1..(b - n), 1..(b - m)>> \in StrictSubsetOrdering(Nat))
    BY <1>3, <1>4
  <2> QED BY <2>1, <2>2, <1>1 DEF StrictSubsetOrdering
<1>6. \E m1 \in S : \A n \in S : m1 >= n
  BY <1>5
<1>7. Max(S) \in S /\ \A n \in S : Max(S) >= n
  BY <1>6 DEF Max
<1> QED BY <1>7

LEMMA MinOfTwo ==
  ASSUME NEW a \in Nat, NEW c \in Nat
  PROVE  Min({a, c}) \in {a, c} /\ Min({a, c}) <= a /\ Min({a, c}) <= c
<1>1. \E x \in {a, c} : \A y \in {a, c} : x <= y
  <2>1. CASE a <= c
    BY <2>1
  <2>2. CASE ~(a <= c)
    BY <2>2
  <2> QED BY <2>1, <2>2
<1> QED BY <1>1 DEF Min

-------------------------------------------------------------------------------
(* The budget of a batch of admitted requests.                             *)

Built == build.seqLen \in Nat \ {0} /\ build.maxContext \in Nat /\ build.batch = Slots

LEMMA BudgetFits ==
  ASSUME Built, NEW n \in 1..Slots, NEW asks \in [1..n -> Asks],
         \A r \in 1..n : Admits(build, Len(asks[r].prompt))
  PROVE  /\ Budget(asks) \in Nat \ {0}
         /\ \A r \in 1..n : /\ Len(asks[r].prompt) \in Nat
                            /\ Len(asks[r].prompt) + Budget(asks) <= build.seqLen - 1
<1> DEFINE len(r) == Len(asks[r].prompt)
           new(r) == MaxNew(build, len(r), asks[r].tokens)
           L == {len(r) : r \in 1..n}
           M == {new(r) : r \in 1..n}
           S == build.seqLen
<1>1. S \in Nat /\ \A r \in 1..n : len(r) \in Nat /\ len(r) <= S /\ S - len(r) - 1 \in Nat \ {0}
  BY DEF Built, Admits, Allowance
<1>2. \A r \in 1..n : asks[r].tokens \in Nat \ {0}
  BY AsksAssumption
<1>3. \A r \in 1..n : new(r) \in Nat \ {0} /\ new(r) <= S
  <2> SUFFICES ASSUME NEW r \in 1..n PROVE new(r) \in Nat \ {0} /\ new(r) <= S
    OBVIOUS
  <2>1. new(r) = Min({asks[r].tokens, S - len(r) - 1})
    BY DEF MaxNew, Allowance
  <2> DEFINE asked == asks[r].tokens
             room == S - len(r) - 1
             least == Min({asked, room})
  <2>2. asked \in Nat \ {0} /\ room \in Nat \ {0} /\ room <= S
    BY <1>1, <1>2
  <2>3. least \in {asked, room} /\ least <= room
    BY <2>2, MinOfTwo
  <2>4. least \in Nat \ {0} /\ least <= S
    <3> HIDE DEF least, asked, room
    <3> QED BY <1>1, <2>2, <2>3
  <2> QED BY <2>1, <2>4
<1>4. 1 \in 1..n /\ DOMAIN asks = 1..n
  OBVIOUS
<1> HIDE DEF len, new, S
<1>5. Max(L) \in L /\ \A x \in L : x <= Max(L)
  <2>1. L \in SUBSET Nat /\ L # {} /\ \A x \in L : x <= S
    BY <1>1, <1>4
  <2> QED BY <2>1, <1>1, MaxIsMost
<1>6. Max(M) \in M
  <2>1. M \in SUBSET Nat /\ M # {} /\ \A x \in M : x <= S
    BY <1>1, <1>3, <1>4
  <2> QED BY <2>1, <1>1, MaxIsMost
<1>7. Max(M) \in Nat \ {0} /\ Max(L) \in Nat /\ S - Max(L) - 1 \in Nat \ {0}
  BY <1>1, <1>3, <1>5, <1>6
<1> DEFINE room == S - Max(L) - 1
           least == Min({Max(M), room})
<1>8. least \in Nat \ {0} /\ least <= room
  BY <1>7, MinOfTwo
<1>9. Budget(asks) = Max({1, least})
  BY <1>4 DEF Budget, len, new, S
<1>10. Max({1, least}) = least
  <2> HIDE DEF least
  <2>1. {1, least} \in SUBSET Nat /\ {1, least} # {} /\ \A x \in {1, least} : x <= least
    BY <1>8
  <2>2. Max({1, least}) \in {1, least} /\ \A x \in {1, least} : x <= Max({1, least})
    BY <1>8, <2>1, MaxIsMost
  <2> QED BY <1>8, <2>2
<1>11. \A r \in 1..n : len(r) <= Max(L)
  BY <1>5
<1>12. \A r \in 1..n : len(r) \in Nat /\ len(r) + least <= S - 1
  <2>1. \A l, most, more \in Nat : l <= most /\ more <= S - most - 1 => l + more <= S - 1
    BY <1>1
  <2>2. least \in Nat /\ least <= S - Max(L) - 1
    BY <1>8
  <2> HIDE DEF least, L
  <2> QED BY <1>1, <1>7, <1>11, <2>1, <2>2
<1> QED BY <1>8, <1>9, <1>10, <1>12 DEF len, S

-------------------------------------------------------------------------------
(* What a row has and may still get fits the cache; rows that only fill up *)
(* a prefill get nothing.                                                  *)
Room ==
    /\ Built
    /\ batch > 0 => \A r \in Row : r <= batch =>
          Len(fed[r]) + budget - decodes <= build.seqLen - 1

IInv == PositionsFit /\ Room

LEMMA InvInit == Init => IInv
<1> SUFFICES ASSUME Init PROVE IInv
  OBVIOUS
<1>1. PICK built \in Envs, now \in Envs : /\ built.maxBatch = Slots /\ Boots(built, now)
                                        /\ build = Limits(built, now)
                                        /\ kv = [s \in Row |-> [p \in 0..(built.seqLen - 1) |-> Unwritten]]
  BY DEF Init
<1>2. /\ build.seqLen = built.seqLen /\ build.maxContext = built.maxContext /\ build.batch = Slots
  BY <1>1 DEF Limits, Compiled
<1>3. Built
  BY <1>1, <1>2, EnvsAssumption DEF Built
<1>4. \A s \in Row : DOMAIN kv[s] = 0..(build.seqLen - 1)
  BY <1>1, <1>2
<1>5. \A r \in Row : fed[r] \in Seq(Tokens) /\ Len(fed[r]) = 0
  <2>1. <<>> \in Seq(Tokens) /\ Len(<<>>) = 0
    OBVIOUS
  <2> QED BY <2>1 DEF Init
<1>6. batch = 0 /\ budget = 1 /\ decodes = 0
  BY DEF Init
<1>7. PositionsFit
  BY <1>3, <1>4, <1>5, <1>6, SlotsAssumption DEF PositionsFit, Built
<1>8. Room
  BY <1>3, <1>6 DEF Room
<1> QED BY <1>7, <1>8 DEF IInv

-------------------------------------------------------------------------------
(* A batch is begun with room for all of its budget.                       *)
LEMMA BeginKeeps == IInv /\ Begin => IInv'
<1> SUFFICES ASSUME IInv, Begin PROVE IInv'
  OBVIOUS
<1>1. Built /\ Built'
  BY DEF IInv, Room, Begin, Built
<1>2. PICK n \in 1..build.batch : \E asks \in [1..n -> Asks] :
        /\ \A r \in 1..n : Admits(build, Len(asks[r].prompt))
        /\ batch' = n
        /\ fed' = [r \in Row |-> asks[IF r <= n THEN r ELSE 1].prompt]
        /\ budget' = Budget(asks)
  BY DEF Begin
<1>3. PICK asks \in [1..n -> Asks] :
        /\ \A r \in 1..n : Admits(build, Len(asks[r].prompt))
        /\ batch' = n
        /\ fed' = [r \in Row |-> asks[IF r <= n THEN r ELSE 1].prompt]
        /\ budget' = Budget(asks)
  BY <1>2
<1>4. n \in 1..Slots /\ 1 \in 1..n
  BY <1>1 DEF Built
<1>5. /\ Budget(asks) \in Nat \ {0}
      /\ \A r \in 1..n : /\ Len(asks[r].prompt) \in Nat
                         /\ Len(asks[r].prompt) + Budget(asks) <= build.seqLen - 1
  BY <1>1, <1>3, <1>4, BudgetFits
<1>6. \A r \in 1..n : asks[r].prompt \in Seq(Tokens)
  <2>1. \A a \in Asks : a.prompt \in Seq(Tokens)
    BY AsksAssumption
  <2> QED BY <2>1
<1>7. \A r \in Row : \E q \in 1..n : fed'[r] = asks[q].prompt /\ (r <= n => q = r)
  BY <1>3, <1>4 DEF Row
<1>8. build' = build /\ kv' = kv /\ decodes' = 0
  BY DEF Begin
<1>9. build.seqLen \in Nat
  BY <1>1 DEF Built
<1>10. \A r \in Row : fed'[r] \in Seq(Tokens) /\ Len(fed'[r]) \in Nat
                      /\ Len(fed'[r]) + budget' <= build.seqLen - 1
  BY <1>3, <1>5, <1>6, <1>7
<1>11. budget' \in Nat \ {0}
  BY <1>3, <1>5
<1>12. \A r \in Row : Len(fed'[r]) < build.seqLen
  BY <1>9, <1>10, <1>11
<1>13. budget' \in 1..build.seqLen
  <2>1. 1 \in Row
    BY SlotsAssumption DEF Row
  <2> QED BY <2>1, <1>9, <1>10, <1>11
<1>14. PositionsFit'
  BY <1>3, <1>4, <1>8, <1>10, <1>11, <1>12, <1>13, SlotsAssumption DEF IInv, PositionsFit
<1>15. Room'
  BY <1>1, <1>8, <1>9, <1>10, <1>11 DEF IInv, Room
<1> QED BY <1>14, <1>15 DEF IInv

(* A prefill overwrites positions, and adds none.                          *)
LEMMA PrefillKeeps ==
  ASSUME NEW rows, IInv, PrefillRows(rows)
  PROVE  IInv'
<1>1. UNCHANGED <<build, batch, fed, budget, decodes>>
  BY DEF PrefillRows
<1>2. \A s \in Row : DOMAIN kv'[s] = DOMAIN kv[s]
  <2>1. PICK keys : kv' = FillSlots(rows, keys)
    BY DEF PrefillRows
  <2> QED BY <2>1 DEF FillSlots
<1> QED BY <1>1, <1>2 DEF IInv, PositionsFit, Room, Built

(* A decode step feeds one more token to every row, and there was room.    *)
LEMMA DecodeKeeps == IInv /\ Decode => IInv'
<1> SUFFICES ASSUME IInv, Decode PROVE IInv'
  OBVIOUS
<1>1. PICK t \in [1..batch -> Sampled] :
        /\ \A s \in Row : DOMAIN kv'[s] = DOMAIN kv[s]
        /\ fed' = [r \in Row |-> IF r <= batch THEN Append(fed[r], t[r]) ELSE fed[r]]
  BY DEF Decode
<1>2. batch > 0 /\ decodes + 1 < budget /\ decodes' = decodes + 1
      /\ UNCHANGED <<build, batch, budget>>
  BY DEF Decode
<1>3. batch \in Nat /\ build.seqLen \in Nat /\ budget \in Nat /\ decodes \in Nat
  BY SlotsAssumption DEF IInv, PositionsFit, Room, Built
<1>4. \A r \in Row : r <= batch =>
        /\ fed'[r] \in Seq(Tokens) /\ Len(fed'[r]) = Len(fed[r]) + 1 /\ Len(fed[r]) \in Nat
  <2> SUFFICES ASSUME NEW r \in Row, r <= batch
               PROVE  /\ fed'[r] \in Seq(Tokens) /\ Len(fed'[r]) = Len(fed[r]) + 1
                      /\ Len(fed[r]) \in Nat
    OBVIOUS
  <2>1. fed'[r] = Append(fed[r], t[r])
    BY <1>1
  <2>2. fed[r] \in Seq(Tokens)
    BY DEF IInv, PositionsFit
  <2>3. t[r] \in Tokens
    BY <1>1, <1>3, SampledAssumption DEF Row
  <2> QED BY <2>1, <2>2, <2>3
<1>5. \A r \in Row : ~(r <= batch) => fed'[r] = fed[r]
  BY <1>1
<1>6. \A r \in Row : r <= batch => Len(fed[r]) + budget - decodes <= build.seqLen - 1
  BY <1>2 DEF IInv, Room
<1>7. \A r \in Row : fed'[r] \in Seq(Tokens) /\ Len(fed'[r]) < build.seqLen
  <2> SUFFICES ASSUME NEW r \in Row
               PROVE  fed'[r] \in Seq(Tokens) /\ Len(fed'[r]) < build.seqLen
    OBVIOUS
  <2>1. CASE r <= batch
    BY <2>1, <1>2, <1>3, <1>4, <1>6
  <2>2. CASE ~(r <= batch)
    BY <2>2, <1>5 DEF IInv, PositionsFit
  <2> QED BY <2>1, <2>2
<1>8. PositionsFit'
  BY <1>1, <1>2, <1>3, <1>7 DEF IInv, PositionsFit
<1>9. Room'
  <2>1. \A r \in Row : r <= batch' => Len(fed'[r]) + budget' - decodes' <= build'.seqLen - 1
    BY <1>2, <1>3, <1>4, <1>6
  <2> QED BY <2>1, <1>2 DEF IInv, Room, Built
<1> QED BY <1>8, <1>9 DEF IInv

(* What the batch used is let go.                                          *)
LEMMA ReturnsKeeps == IInv /\ Returns => IInv'
<1> SUFFICES ASSUME IInv, Returns PROVE IInv'
  OBVIOUS
<1>1. build.seqLen \in Nat /\ build.seqLen > 0
  BY DEF IInv, Room, Built
<1>2. \A r \in Row : fed'[r] \in Seq(Tokens) /\ Len(fed'[r]) = 0
  <2>1. <<>> \in Seq(Tokens) /\ Len(<<>>) = 0
    OBVIOUS
  <2> QED BY <2>1 DEF Returns
<1>3. batch' = 0 /\ decodes' = 0 /\ budget' = 1 /\ build' = build /\ kv' = kv
  BY DEF Returns
<1>4. PositionsFit'
  BY <1>1, <1>2, <1>3, SlotsAssumption DEF IInv, PositionsFit
<1>5. Room'
  BY <1>3 DEF IInv, Room, Built
<1> QED BY <1>4, <1>5 DEF IInv

(* Every position a row decodes at is one of the compiled cache: the       *)
(* budget of a batch is cut to what is left behind its longest prompt      *)
(* (_process_batch() of server.py), and no step is taken beyond it.        *)
THEOREM PositionsStayInside == Spec => []PositionsFit
<1>1. Init => IInv
  BY InvInit
<1>2. IInv /\ [Next]_vars => IInv'
  <2> SUFFICES ASSUME IInv, [Next]_vars PROVE IInv'
    OBVIOUS
  <2>1. CASE Begin
    BY <2>1, BeginKeeps
  <2>2. CASE PrefillOne
    BY <2>2, PrefillKeeps DEF PrefillOne
  <2>3. CASE PrefillAll
    BY <2>3, PrefillKeeps DEF PrefillAll
  <2>4. CASE Decode
    BY <2>4, DecodeKeeps
  <2>5. CASE Finish
    BY <2>5, ReturnsKeeps DEF Finish
  <2>6. CASE PrefillRaises
    BY <2>6, ReturnsKeeps DEF PrefillRaises
  <2>7. CASE UNCHANGED vars
    BY <2>7 DEF vars, IInv, PositionsFit, Room, Built
  <2> QED BY <2>1, <2>2, <2>3, <2>4, <2>5, <2>6, <2>7 DEF Next
<1>3. IInv => PositionsFit
  BY DEF IInv
<1> QED BY <1>1, <1>2, <1>3, PTL DEF Spec

-------------------------------------------------------------------------------
(* A SEQUENCE OF TOKENS ON ITS OWN                                         *)

(* What flows into the convolution, and its type.                          *)
Inflow == [Channel -> Z]

(* The convolution looks at its taps only.                                 *)
LEMMA ConvolveSame ==
  ASSUME NEW w, NEW u, \A k \in 1..Taps : w[k] = u[k]
  PROVE  Convolve(w) = Convolve(u)
<1>1. \A ch \in Channel : [k \in 1..Taps |-> Weight[ch][k] * w[k][ch]] = [k \in 1..Taps |-> Weight[ch][k] * u[k][ch]]
  OBVIOUS
<1>2. [ch \in Channel |-> Silu(Total([k \in 1..Taps |-> Weight[ch][k] * w[k][ch]]) % P)]
      = [ch \in Channel |-> Silu(Total([k \in 1..Taps |-> Weight[ch][k] * u[k][ch]]) % P)]
  BY <1>1
<1> QED BY <1>2, OnceIsIt DEF Convolve, Sum

LEMMA ConvolveType ==
  ASSUME NEW w, \A k \in 1..Taps : w[k] \in Inflow
  PROVE  Convolve(w) \in Inflow
<1>1. \A ch \in Channel : Silu(Total([k \in 1..Taps |-> Weight[ch][k] * w[k][ch]]) % P) \in Z
  <2> SUFFICES ASSUME NEW ch \in Channel
               PROVE  Silu(Total([k \in 1..Taps |-> Weight[ch][k] * w[k][ch]]) % P) \in Z
    OBVIOUS
  <2> DEFINE g == [k \in 1..Taps |-> Weight[ch][k] * w[k][ch]]
  <2>1. \A k \in 1..Taps : Weight[ch][k] \in Int /\ w[k][ch] \in Int
    BY WeightAssumption, Reduced DEF Inflow
  <2>2. g \in [1..Taps -> Int] /\ Taps \in Nat
    BY <2>1 DEF Taps
  <2> HIDE DEF g
  <2>3. Total(g) \in Int
    BY <2>2, TotalIsNumber
  <2>4. Total(g) % P \in Int
    BY <2>3, Modulo, Reduced
  <2> DEFINE y == Total(g) % P
  <2> HIDE DEF y
  <2>5. y \in Int
    BY <2>4 DEF y
  <2>6. y * y + y \in Int
    BY <2>5
  <2>7. Silu(y) \in Z
    BY <2>6, Modulo DEF Silu
  <2> QED BY <2>7 DEF y, g
<1>2. [ch \in Channel |-> Silu(Total([k \in 1..Taps |-> Weight[ch][k] * w[k][ch]]) % P)] \in Inflow
  BY <1>1 DEF Inflow
<1> QED BY <1>2, OnceIsIt DEF Convolve, Sum

(* Every token has an embedding.                                           *)
LEMMA Embedded ==
  \A t \in Tokens : Embedding[t].x \in Inflow /\ Embedding[t].b \in Z /\ Embedding[t].a \in Z \ {0}
  BY EmbeddingAssumption DEF Inflow

(* What the layer makes of an embedding is a token of the recurrence.      *)
LEMMA HeadTokenType ==
  ASSUME NEW c \in Inflow, NEW t \in Tokens, NEW valid
  PROVE  HeadToken(c, Embedding[t], valid) \in Token
<1>1. \A f \in Feature : c[<<"q", f>>] \in Z /\ c[<<"k", f>>] \in Z /\ c[<<"v", f>>] \in Z
  BY DEF Inflow, Channel
<1>2. CASE ~valid
  BY <1>2, BlankToken DEF HeadToken
<1>3. CASE valid
  BY <1>1, <1>3, Embedded DEF HeadToken, Token
<1> QED BY <1>2, <1>3

(* The taps that end at a place, silence before the beginning.             *)
Tapped(xs, i) == [k \in 1..Taps |-> IF i - Taps + k < 1 THEN Silent ELSE xs[i - Taps + k]]

LEMMA ConvAtIs == \A xs, i : ConvAt(xs, i) = Convolve(Tapped(xs, i))
  BY DEF ConvAt, Tapped

(* The convolution at a place looks at the places up to it.                *)
LEMMA ConvAtSame ==
  ASSUME NEW xs, NEW ys, NEW i \in Nat, \A j \in 1..i : xs[j] = ys[j]
  PROVE  ConvAt(xs, i) = ConvAt(ys, i)
<1> DEFINE w == Tapped(xs, i)
           u == Tapped(ys, i)
<1>1. \A k \in 1..Taps : w[k] = u[k]
  <2> SUFFICES ASSUME NEW k \in 1..Taps PROVE w[k] = u[k]
    OBVIOUS
  <2>1. CASE i - Taps + k < 1
    BY <2>1 DEF Tapped
  <2>2. CASE ~(i - Taps + k < 1)
    <3>1. i - Taps + k \in 1..i
      BY <2>2 DEF Taps
    <3> QED BY <3>1 DEF Tapped
  <2> QED BY <2>1, <2>2
<1> HIDE DEF w, u
<1>2. Convolve(w) = Convolve(u)
  BY <1>1, ConvolveSame
<1> QED BY <1>2, ConvAtIs DEF w, u

LEMMA ConvAtType ==
  ASSUME NEW xs, NEW i \in Nat, \A j \in 1..i : xs[j] \in Inflow
  PROVE  ConvAt(xs, i) \in Inflow
<1> DEFINE w == Tapped(xs, i)
<1>0. Silent \in Inflow
  BY BlankToken DEF Silent, Inflow
<1>1. \A k \in 1..Taps : w[k] \in Inflow
  <2> SUFFICES ASSUME NEW k \in 1..Taps PROVE w[k] \in Inflow
    OBVIOUS
  <2>1. CASE i - Taps + k < 1
    BY <2>1, <1>0 DEF Tapped
  <2>2. CASE ~(i - Taps + k < 1)
    <3>1. i - Taps + k \in 1..i
      BY <2>2 DEF Taps
    <3> QED BY <3>1, <2>2 DEF Tapped
  <2> QED BY <2>1, <2>2
<1> HIDE DEF w
<1>2. Convolve(w) \in Inflow
  BY <1>1, ConvolveType
<1> QED BY <1>2, ConvAtIs DEF w

(* A sequence of tokens on its own.                                        *)
Xs(s) == [i \in 1..Len(s) |-> Embedding[s[i]].x]
Valid(c, t) == HeadToken(c, Embedding[t], TRUE)
Heads(s) == [i \in 1..Len(s) |-> Valid(ConvAt(Xs(s), i), s[i])]

(* A sequence on its own is a run of the recurrence.                       *)
LEMMA AloneIs == \A s : Alone(s) = Sequential(Heads(s))
  BY OnceIsIt DEF Alone, Xs, Heads, Valid

(* The inputs of a sequence on its own.                                    *)
LEMMA HeadsType ==
  ASSUME NEW s \in Seq(Tokens)
  PROVE  /\ Heads(s) \in Seq(Token) /\ Len(Heads(s)) = Len(s)
         /\ \A i \in 1..Len(s) : Xs(s)[i] = Embedding[s[i]].x /\ Xs(s)[i] \in Inflow /\ s[i] \in Tokens
<1>1. \A i \in 1..Len(s) : Xs(s)[i] = Embedding[s[i]].x /\ Xs(s)[i] \in Inflow /\ s[i] \in Tokens
  <2>1. \A i \in 1..Len(s) : s[i] \in Tokens
    OBVIOUS
  <2> QED BY <2>1, Embedded DEF Xs
<1>2. \A i \in 1..Len(s) : Valid(ConvAt(Xs(s), i), s[i]) \in Token
  <2> SUFFICES ASSUME NEW i \in 1..Len(s)
               PROVE  Valid(ConvAt(Xs(s), i), s[i]) \in Token
    OBVIOUS
  <2>1. i \in Nat /\ \A j \in 1..i : Xs(s)[j] \in Inflow
    <3>1. \A j \in 1..i : j \in 1..Len(s)
      OBVIOUS
    <3> QED BY <1>1, <3>1
  <2>2. ConvAt(Xs(s), i) \in Inflow
    BY <2>1, ConvAtType
  <2> QED BY <1>1, <2>2, HeadTokenType DEF Valid
<1>3. Len(s) \in Nat
  OBVIOUS
<1>4. Heads(s) \in [1..Len(s) -> Token]
  BY <1>2 DEF Heads
<1> QED BY <1>1, <1>3, <1>4

(* Every kernel of the builds computes what the recurrence does.  The      *)
(* theorem TokenByTokenAgrees gives it for the builds that run token by    *)
(* token.                                                                  *)
KernelsAgree ==
    \A e \in Envs : \A toks \in Seq(Token) :
        Len(toks) \in 1..e.seqLen => Prefill(e.kernels, toks) = Sequential(toks)

(* The padding behind a prompt is blank to the recurrence.                 *)
LEMMA PaddedHeads ==
  ASSUME NEW s \in Seq(Tokens), \A i \in 1..Len(s) : s[i] # Pad,
         NEW xs, Len(xs) \in Nat, Len(s) <= Len(xs),
         \A i \in 1..Len(s) : xs[i] = Embedding[s[i]].x
  PROVE  /\ HeadTokens(s, 0, xs) \in Seq(Token) /\ Len(HeadTokens(s, 0, xs)) = Len(xs)
         /\ Sequential(HeadTokens(s, 0, xs)).state = Alone(s).state
         /\ \A i \in 1..Len(s) : Sequential(HeadTokens(s, 0, xs)).outs[i] = Alone(s).outs[i]
<1> DEFINE toks == HeadTokens(s, 0, xs)
           n == Len(s)
           m == Len(xs)
<1>1. n \in Nat /\ m \in Nat /\ n <= m
  OBVIOUS
<1>2. /\ Heads(s) \in Seq(Token) /\ Len(Heads(s)) = n
      /\ \A i \in 1..n : Xs(s)[i] = xs[i] /\ Xs(s)[i] \in Inflow /\ s[i] \in Tokens
  BY HeadsType
<1>3. toks = [i \in 1..m |->
                IF i \in 1..n THEN Valid(ConvAt(xs, i), s[i]) ELSE Blank]
  <2>1. \A i \in 1..m : i - 0 = i /\ (Counts(s, 0, i) <=> i \in 1..n)
    BY <1>1 DEF Counts
  <2> QED BY <2>1 DEF HeadTokens, Valid
<1> HIDE DEF toks
<1>4. \A i \in 1..n : toks[i] = Heads(s)[i] /\ i \in 1..m
  <2> SUFFICES ASSUME NEW i \in 1..n PROVE toks[i] = Heads(s)[i] /\ i \in 1..m
    OBVIOUS
  <2>1. i \in 1..m /\ toks[i] = Valid(ConvAt(xs, i), s[i])
    BY <1>1, <1>3
  <2>2. Heads(s)[i] = Valid(ConvAt(Xs(s), i), s[i])
    BY DEF Heads
  <2>3. i \in Nat /\ \A j \in 1..i : xs[j] = Xs(s)[j]
    BY <1>1, <1>2
  <2>4. ConvAt(xs, i) = ConvAt(Xs(s), i)
    BY <2>3, ConvAtSame
  <2> QED BY <2>1, <2>2, <2>4
<1>5. \A i \in (n + 1)..m : toks[i] = Blank
  BY <1>1, <1>3
<1>6. \A i \in 1..m : toks[i] \in Token
  <2> SUFFICES ASSUME NEW i \in 1..m PROVE toks[i] \in Token
    OBVIOUS
  <2>1. CASE i \in 1..n
    BY <2>1, <1>2, <1>4
  <2>2. CASE i \notin 1..n
    BY <2>2, <1>3, BlankToken
  <2> QED BY <2>1, <2>2
<1>7. toks \in Seq(Token) /\ Len(toks) = m
  <2>1. toks \in [1..m -> Token]
    BY <1>3, <1>6
  <2> QED BY <2>1, <1>1
<1>8. /\ Sequential(toks).state = Sequential(Heads(s)).state
      /\ \A i \in 1..n : Sequential(toks).outs[i] = Sequential(Heads(s)).outs[i]
  BY <1>1, <1>2, <1>4, <1>5, <1>7, PaddedRun
<1> QED BY <1>7, <1>8, AloneIs DEF toks

(* A sequence on its own leaves a state and one output per token.          *)
LEMMA AloneType ==
  ASSUME NEW s \in Seq(Tokens)
  PROVE  Alone(s) \in Done /\ Alone(s).state \in State /\ Len(Alone(s).outs) = Len(s)
         /\ Alone(s).outs \in Seq(Out)
<1>1. PICK f : Trace(f, Heads(s)) /\ Sequential(Heads(s)) = f[Len(Heads(s))]
  BY HeadsType, Traced
<1>2. Len(Heads(s)) = Len(s) /\ Heads(s) \in Seq(Token) /\ Len(s) \in 0..Len(s)
  BY HeadsType
<1> QED BY <1>1, <1>2, TraceFacts, AloneIs

(* One token more on a sequence on its own.                                *)
LEMMA NextToken ==
  ASSUME NEW s \in Seq(Tokens), Len(s) >= Taps - 1, NEW t \in Tokens, NEW w,
         \A k \in 1..Taps - 1 : w[k] = Embedding[s[Len(s) - (Taps - 1) + k]].x,
         w[Taps] = Embedding[t].x
  PROVE  Alone(Append(s, t)) = Onward(Alone(s), Valid(Convolve(w), t))
<1> DEFINE n == Len(s)
           l == Append(s, t)
           xs == Xs(l)
<1>1. n \in Nat /\ l \in Seq(Tokens) /\ Len(l) = n + 1 /\ l[n + 1] = t /\ \A i \in 1..n : l[i] = s[i]
  OBVIOUS
<1> HIDE DEF l
<1>2. /\ Heads(l) \in Seq(Token) /\ Len(Heads(l)) = n + 1
      /\ Heads(s) \in Seq(Token) /\ Len(Heads(s)) = n
      /\ \A i \in 1..n : Xs(s)[i] = Embedding[s[i]].x
      /\ \A i \in 1..(n + 1) : xs[i] = Embedding[l[i]].x
  <2>1. Heads(l) \in Seq(Token) /\ Len(Heads(l)) = Len(l) /\ \A i \in 1..Len(l) : Xs(l)[i] = Embedding[l[i]].x
    BY <1>1, HeadsType
  <2>2. Heads(s) \in Seq(Token) /\ Len(Heads(s)) = Len(s) /\ \A i \in 1..Len(s) : Xs(s)[i] = Embedding[s[i]].x
    BY HeadsType
  <2> QED BY <1>1, <2>1, <2>2
<1> HIDE DEF xs
<1>3. \A i \in 1..n : Heads(l)[i] = Heads(s)[i]
  <2> SUFFICES ASSUME NEW i \in 1..n PROVE Heads(l)[i] = Heads(s)[i]
    OBVIOUS
  <2>1. i \in 1..(n + 1) /\ i \in Nat /\ l[i] = s[i]
    BY <1>1
  <2>2. \A j \in 1..i : xs[j] = Xs(s)[j]
    <3> SUFFICES ASSUME NEW j \in 1..i PROVE xs[j] = Xs(s)[j]
      OBVIOUS
    <3>1. j \in 1..n /\ j \in 1..(n + 1)
      BY <1>1
    <3> QED BY <3>1, <1>1, <1>2
  <2>3. ConvAt(xs, i) = ConvAt(Xs(s), i)
    BY <2>1, <2>2, ConvAtSame
  <2> QED BY <1>1, <2>1, <2>3 DEF Heads, xs
<1>4. Heads(l)[n + 1] = Valid(Convolve(w), t)
  <2> DEFINE u == Tapped(xs, n + 1)
  <2>1. ConvAt(xs, n + 1) = Convolve(u)
    BY ConvAtIs
  <2>2. \A k \in 1..Taps : u[k] = w[k]
    <3> SUFFICES ASSUME NEW k \in 1..Taps PROVE u[k] = w[k]
      OBVIOUS
    <3>1. /\ ~((n + 1) - Taps + k < 1) /\ (n + 1) - Taps + k \in 1..(n + 1)
          /\ (n + 1) - Taps + k = n - (Taps - 1) + k
      BY <1>1 DEF Taps
    <3>2. u[k] = Embedding[l[(n + 1) - Taps + k]].x
      <4>1. u[k] = IF (n + 1) - Taps + k < 1 THEN Silent ELSE xs[(n + 1) - Taps + k]
        BY DEF Tapped
      <4>2. u[k] = xs[(n + 1) - Taps + k]
        BY <3>1, <4>1
      <4> QED BY <3>1, <4>2, <1>2
    <3>3. CASE k = Taps
      <4>1. (n + 1) - Taps + k = n + 1
        BY <3>3, <1>1 DEF Taps
      <4> QED BY <3>2, <3>3, <4>1, <1>1
    <3>4. CASE k \in 1..Taps - 1
      <4>1. (n + 1) - Taps + k \in 1..n
        BY <3>4, <3>1, <1>1 DEF Taps
      <4>2. l[(n + 1) - Taps + k] = s[n - (Taps - 1) + k]
        BY <4>1, <3>1, <1>1
      <4> QED BY <3>2, <3>4, <4>2
    <3>5. k = Taps \/ k \in 1..Taps - 1
      BY DEF Taps
    <3> QED BY <3>3, <3>4, <3>5
  <2> HIDE DEF u
  <2>3. Convolve(u) = Convolve(w)
    BY <2>2, ConvolveSame
  <2>4. Heads(l)[n + 1] = Valid(ConvAt(xs, n + 1), l[n + 1])
    BY <1>1 DEF Heads, xs
  <2> QED BY <1>1, <2>1, <2>3, <2>4
<1>5. Sequential(Heads(l)) = Onward(Sequential(Heads(s)), Heads(l)[Len(Heads(l))])
  <2>1. Len(Heads(l)) = Len(Heads(s)) + 1 /\ \A i \in 1..Len(Heads(s)) : Heads(l)[i] = Heads(s)[i]
    BY <1>2, <1>3
  <2> QED BY <1>2, <2>1, OneMore
<1>6. Alone(l) = Onward(Alone(s), Valid(Convolve(w), t))
  BY <1>2, <1>4, <1>5, AloneIs
<1> QED BY <1>6 DEF l

(* So what StateIsOwnCorrect assumes of the kernels holds of every build   *)
(* whose prefill is the sequential loop or the recurrent kernel.           *)
THEOREM TokenByTokenAgrees ==
  ASSUME \A e \in Envs : \/ e.kernels = {"DELTANET_SEQUENTIAL"}
                         \/ /\ e.kernels \cap {"USE_PYTORCH_CHUNK", "USE_NKI_CHUNKED"} = {}
                            /\ "USE_NKI" \in e.kernels
  PROVE  KernelsAgree
<1> SUFFICES ASSUME NEW e \in Envs, NEW toks \in Seq(Token)
             PROVE  Prefill(e.kernels, toks) = Sequential(toks)
  BY DEF KernelsAgree
<1>1. CASE e.kernels = {"DELTANET_SEQUENTIAL"}
  BY <1>1 DEF Prefill
<1>2. CASE /\ e.kernels \cap {"USE_PYTORCH_CHUNK", "USE_NKI_CHUNKED"} = {}
           /\ "USE_NKI" \in e.kernels
  <2>1. e.kernels # {"DELTANET_SEQUENTIAL"}
    BY <1>2
  <2>2. Prefill(e.kernels, toks) = RecurrentKernel(toks)
    BY <1>2, <2>1 DEF Prefill
  <2> QED BY <2>2, RecurrentAgrees
<1> QED BY <1>1, <1>2

-------------------------------------------------------------------------------
(* THE SHAPE OF THE STATE                                                  *)

(* The build is of an environment, the prompts in flight are admitted      *)
(* ones.                                                                   *)
BuiltOf == \E e \in Envs : Resolves(e) /\ e.maxBatch = Slots /\ build = Compiled(e)

Prompts ==
    /\ \A r \in Row : pads[r] \in Nat
    /\ LeftPadding \/ \A r \in Row : pads[r] = 0
    /\ batch > 0 /\ ~(1..batch \subseteq ready) =>
          \A r \in Row : pads[r] + Len(fed[r]) <= build.maxContext

(* The inductive invariant of TypeOK.                                      *)
TInv == TypeOK /\ Room /\ BuiltOf /\ Prompts

(* A build has a bucket as long as its context.                            *)
LEMMA BuiltFacts ==
  ASSUME BuiltOf
  PROVE  /\ build.seqLen \in Nat \ {0} /\ build.maxContext \in Nat /\ build.maxContext <= build.seqLen
         /\ build.maxContext \in build.buckets /\ build.batch = Slots
         /\ \A b \in build.buckets : b \in Nat /\ b <= build.maxContext /\ b >= 3
         /\ \E e \in Envs : build.kernels = e.kernels /\ build.seqLen = e.seqLen
<1>1. PICK e \in Envs : Resolves(e) /\ e.maxBatch = Slots /\ build = Compiled(e)
  BY DEF BuiltOf
<1>2. /\ build.seqLen = e.seqLen /\ build.maxContext = e.maxContext /\ build.batch = e.maxBatch
      /\ build.buckets = ContextBuckets(e) /\ build.kernels = e.kernels
  BY <1>1 DEF Compiled
<1>3. /\ e.seqLen \in Nat \ {0} /\ e.maxContext \in Nat /\ e.maxContext >= 3
      /\ \A b \in e.buckets : b \in Nat /\ b >= 3
  BY EnvsAssumption DEF Taps
<1> QED BY <1>1, <1>2, <1>3 DEF Resolves, ContextBuckets

(* A set of numbers has a least one.                                       *)
LEMMA ZeroIsLeast ==
  ASSUME NEW S, S \subseteq Nat, S # {}
  PROVE  Min(S) \in S /\ \A y \in S : Min(S) <= y
<1> DEFINE R == OpToRel(<, Nat)
<1>0. \A x, y \in Nat : x < y => <<x, y>> \in R
  BY DEF OpToRel
<1>a. IsWellFoundedOn(R, Nat)
  BY NatLessThanWellFounded
<1> HIDE DEF R
<1>1. PICK x \in S : \A y \in S : ~(<<y, x>> \in R)
  BY <1>a, WFMin
<1>2. \A y \in S : x <= y
  <2> SUFFICES ASSUME NEW y \in S PROVE x <= y
    OBVIOUS
  <2>1. x \in Nat /\ y \in Nat /\ ~(y < x)
    BY <1>0, <1>1
  <2> QED BY <2>1
<1>3. Min(S) = CHOOSE z \in S : \A y \in S : z <= y
  BY DEF Min
<1> QED BY <1>2, <1>3

(* The prefill length holds every prompt, padded, and is one that was      *)
(* compiled.                                                               *)
LEMMA LengthFits ==
  ASSUME BuiltOf, Prompts, PositionsFit, batch > 0, ~(1..batch \subseteq ready)
  PROVE  /\ Length \in 1..build.seqLen /\ Length >= 3
         /\ \A r \in Row : pads[r] + Len(fed[r]) <= Length /\ Len(fed[r]) \in Nat
<1> DEFINE M == {pads[r] + Len(fed[r]) : r \in Row}
           B == {b \in build.buckets : b >= Max(M)}
<1>1. \A r \in Row : pads[r] \in Nat /\ Len(fed[r]) \in Nat /\ pads[r] + Len(fed[r]) <= build.maxContext
  BY DEF Prompts, PositionsFit
<1>2. 1 \in Row
  BY SlotsAssumption DEF Row
<1>3. M \in SUBSET Nat /\ M # {} /\ \A n \in M : n <= build.maxContext
  BY <1>1, <1>2
<1>4. Max(M) \in M /\ \A n \in M : n <= Max(M)
  BY <1>3, BuiltFacts, MaxIsMost
<1>5. B \subseteq Nat /\ B # {} /\ \A b \in B : b >= Max(M) /\ b <= build.maxContext /\ b >= 3
  <2>1. build.maxContext \in B
    BY <1>3, <1>4, BuiltFacts
  <2> QED BY <2>1, BuiltFacts
<1>6. Length = Min(B)
  BY DEF Length, Bucket
<1>7. Length \in B
  BY <1>5, <1>6, ZeroIsLeast
<1> HIDE DEF B, M
<1>8. /\ Length \in Nat /\ Length >= Max(M) /\ Length <= build.maxContext /\ Max(M) \in Nat
      /\ Length >= 3
  BY <1>3, <1>4, <1>5, <1>7
<1>9. \A r \in Row : pads[r] + Len(fed[r]) <= Length
  <2>1. \A r \in Row : pads[r] + Len(fed[r]) <= Max(M)
    BY <1>4 DEF M
  <2> QED BY <2>1, <1>1, <1>8
<1> QED BY <1>1, <1>8, <1>9, BuiltFacts

(* What a prefill feeds to the recurrence.                                 *)
LEMMA HeadTokensType ==
  ASSUME NEW p \in Seq(Tokens), NEW pad \in Nat, NEW xs, Len(xs) \in Nat,
         \A i \in 1..Len(xs) : xs[i] \in Inflow
  PROVE  HeadTokens(p, pad, xs) \in Seq(Token) /\ Len(HeadTokens(p, pad, xs)) = Len(xs)
<1> DEFINE toks == HeadTokens(p, pad, xs)
           m == Len(xs)
<1>1. toks = [i \in 1..m |->
                IF Counts(p, pad, i) THEN Valid(ConvAt(xs, i), p[i - pad]) ELSE Blank]
  BY DEF HeadTokens, Valid
<1>2. \A c \in Inflow : \A t \in Tokens : Valid(c, t) \in Token
  BY HeadTokenType DEF Valid
<1> HIDE DEF toks
<1>3. \A i \in 1..m : toks[i] \in Token
  <2> SUFFICES ASSUME NEW i \in 1..m PROVE toks[i] \in Token
    OBVIOUS
  <2>1. CASE Counts(p, pad, i)
    <3>1. p[i - pad] \in Tokens
      BY <2>1 DEF Counts
    <3>2. i \in Nat /\ \A j \in 1..i : xs[j] \in Inflow
      OBVIOUS
    <3>3. ConvAt(xs, i) \in Inflow
      BY <3>2, ConvAtType
    <3> QED BY <1>1, <1>2, <2>1, <3>1, <3>3
  <2>2. CASE ~Counts(p, pad, i)
    BY <1>1, <2>2, BlankToken
  <2> QED BY <2>1, <2>2
<1>4. toks \in [1..m -> Token]
  BY <1>1, <1>3
<1>5. toks \in Seq(Token) /\ Len(toks) = m
  BY <1>4
<1> QED BY <1>5 DEF toks

(* The inputs of a prefill are as long as the bucket, the prompt first.    *)
LEMMA InputsFacts ==
  ASSUME NEW r \in Row, NEW length \in Nat, NEW junk \in Junk, fed[r] \in Seq(Tokens), pads[r] \in Nat
  PROVE  /\ Len(Inputs(r, length, junk)) = length
         /\ \A i \in 1..length : Inputs(r, length, junk)[i] \in Inflow
         /\ pads[r] = 0 => \A i \in 1..length : i <= Len(fed[r]) /\ fed[r][i] # Pad =>
               Inputs(r, length, junk)[i] = Embedding[fed[r][i]].x
<1> DEFINE noise == [ch \in Channel |-> junk]
           xs == Inputs(r, length, junk)
<1>1. noise \in Inflow
  BY BoundsAssumption DEF Inflow
<1>2. xs = [i \in 1..length |->
              IF Counts(fed[r], pads[r], i) THEN Embedding[fed[r][i - pads[r]]].x ELSE noise]
  BY DEF Inputs
<1> HIDE DEF xs, noise
<1>3. Len(xs) = length
  BY <1>2
<1>4. \A i \in 1..length : xs[i] \in Inflow
  <2> SUFFICES ASSUME NEW i \in 1..length PROVE xs[i] \in Inflow
    OBVIOUS
  <2>1. CASE Counts(fed[r], pads[r], i)
    <3>1. fed[r][i - pads[r]] \in Tokens
      BY <2>1 DEF Counts
    <3> QED BY <1>2, <2>1, <3>1, Embedded
  <2>2. CASE ~Counts(fed[r], pads[r], i)
    BY <1>1, <1>2, <2>2
  <2> QED BY <2>1, <2>2
<1>5. ASSUME pads[r] = 0, NEW i \in 1..length, i <= Len(fed[r]), fed[r][i] # Pad
      PROVE  xs[i] = Embedding[fed[r][i]].x
  <2>1. i - pads[r] = i /\ Counts(fed[r], pads[r], i)
    BY <1>5 DEF Counts
  <2> QED BY <1>2, <2>1
<1> QED BY <1>3, <1>4, <1>5 DEF xs

LEMMA UpToN == ASSUME NEW n \in Nat PROVE IsFiniteSet(1..n) /\ Cardinality(1..n) = n
  BY FS_Interval

(* The inputs gathered for the convolution state.                          *)
LEMMA ConvStateFacts ==
  ASSUME NEW p \in Seq(Tokens), NEW xs, Len(xs) \in Nat, Len(xs) >= 3, Len(p) <= Len(xs),
         \A i \in 1..Len(xs) : xs[i] \in Inflow
  PROVE  /\ ConvState(p, xs) \in [1..3 -> Inflow]
         /\ (\A i \in 1..Len(p) : p[i] # Pad) /\ Len(p) >= 3 =>
               ConvState(p, xs) = [j \in 1..3 |-> xs[(Len(p) - 3) + j]]
<1> DEFINE V == {i \in 1..Len(p) : p[i] # Pad}
           valid == Cardinality(V)
           base == IF valid < 3 THEN 0 ELSE valid - 3
<1>1. Len(p) \in Nat /\ IsFiniteSet(1..Len(p)) /\ Cardinality(1..Len(p)) = Len(p)
  <2>1. Len(p) \in Nat
    OBVIOUS
  <2> QED BY <2>1, UpToN
<1>2. valid \in Nat /\ valid <= Len(p)
  <2>1. V \subseteq 1..Len(p)
    OBVIOUS
  <2> QED BY <1>1, <2>1, FS_Subset, FS_CardinalityType
<1>3. (\A i \in 1..Len(p) : p[i] # Pad) => valid = Len(p)
  <2>1. (\A i \in 1..Len(p) : p[i] # Pad) => V = 1..Len(p)
    OBVIOUS
  <2> QED BY <1>1, <2>1
<1>4. ConvState(p, xs) = [j \in 1..3 |-> xs[base + j]]
  BY DEF ConvState, Taps
<1> HIDE DEF valid
<1>5. \A j \in 1..3 : base + j \in 1..Len(xs)
  BY <1>1, <1>2
<1> QED BY <1>1, <1>3, <1>4, <1>5

(* What a prefill of some rows makes of every one of them.                 *)
Prefilled(rows, junk, xs, ran, keys) ==
    /\ \A r \in rows :
         /\ xs[r] = Inputs(r, Length, junk)
         /\ ran[r] = Prefill(build.kernels, HeadTokens(fed[r], pads[r], xs[r]))
         /\ keys[r] = Keys(r, xs[r], ran[r].outs)
    /\ rec' = [s \in Row |-> IF s \in rows THEN ran[s].state ELSE rec[s]]
    /\ conv' = [s \in Row |-> IF s \in rows THEN ConvState(fed[s], xs[s]) ELSE conv[s]]
    /\ \A s \in Row :
            out'[s] = IF s \in rows THEN CausalOut(keys[s], LastToken(PositionIds(s, Length)))
                         ELSE out[s]
    /\ kv' = FillSlots(rows, keys)

LEMMA PrefillUnpacked ==
  ASSUME NEW rows, rows \subseteq Row, PrefillRows(rows)
  PROVE  \E junk, xs, ran, keys : junk \in Junk /\ Prefilled(rows, junk, xs, ran, keys)
<1>1. PICK junk \in Junk :
        \E xs \in {[r \in rows |-> Once(Inputs(r, Length, junk))]} :
        \E ran \in {[r \in rows |-> Once(Prefill(build.kernels, HeadTokens(fed[r], pads[r], xs[r])))]} :
        \E keys \in {[r \in rows |-> Once(Keys(r, xs[r], ran[r].outs))]} :
            /\ PrefillLayer(rows, fed, xs, ran)
            /\ kv' = FillSlots(rows, keys)
            /\ out' = WriteRows(out, rows,
                   [r \in rows |-> CausalOut(keys[r], LastToken(PositionIds(r, Length)))])
  BY DEF PrefillRows
<1>2. PICK xs \in {[r \in rows |-> Once(Inputs(r, Length, junk))]} :
        \E ran \in {[r \in rows |-> Once(Prefill(build.kernels, HeadTokens(fed[r], pads[r], xs[r])))]} :
        \E keys \in {[r \in rows |-> Once(Keys(r, xs[r], ran[r].outs))]} :
            /\ PrefillLayer(rows, fed, xs, ran)
            /\ kv' = FillSlots(rows, keys)
            /\ out' = WriteRows(out, rows,
                   [r \in rows |-> CausalOut(keys[r], LastToken(PositionIds(r, Length)))])
  BY <1>1
<1>3. PICK ran \in {[r \in rows |-> Once(Prefill(build.kernels, HeadTokens(fed[r], pads[r], xs[r])))]} :
        \E keys \in {[r \in rows |-> Once(Keys(r, xs[r], ran[r].outs))]} :
            /\ PrefillLayer(rows, fed, xs, ran)
            /\ kv' = FillSlots(rows, keys)
            /\ out' = WriteRows(out, rows,
                   [r \in rows |-> CausalOut(keys[r], LastToken(PositionIds(r, Length)))])
  BY <1>2
<1>4. PICK keys \in {[r \in rows |-> Once(Keys(r, xs[r], ran[r].outs))]} :
            /\ PrefillLayer(rows, fed, xs, ran)
            /\ kv' = FillSlots(rows, keys)
            /\ out' = WriteRows(out, rows,
                   [r \in rows |-> CausalOut(keys[r], LastToken(PositionIds(r, Length)))])
  BY <1>3
<1>5. \A r \in rows :
        /\ xs[r] = Inputs(r, Length, junk)
        /\ ran[r] = Prefill(build.kernels, HeadTokens(fed[r], pads[r], xs[r]))
        /\ keys[r] = Keys(r, xs[r], ran[r].outs)
  BY OnceIsIt
<1>6. \A s \in Row :
        out'[s] = IF s \in rows THEN CausalOut(keys[s], LastToken(PositionIds(s, Length))) ELSE out[s]
  BY <1>4 DEF WriteRows
<1>7. /\ rec' = WriteRows(rec, rows, [r \in rows |-> ran[r].state])
      /\ conv' = WriteRows(conv, rows, [r \in rows |-> ConvState(fed[r], xs[r])])
  BY <1>4 DEF PrefillLayer, RecAfter, ConvAfter
<1>8. rec' = [s \in Row |-> IF s \in rows THEN ran[s].state ELSE rec[s]]
  BY <1>7 DEF WriteRows
<1>9. conv' = [s \in Row |-> IF s \in rows THEN ConvState(fed[s], xs[s]) ELSE conv[s]]
  BY <1>7 DEF WriteRows
<1>10. Prefilled(rows, junk, xs, ran, keys)
  BY <1>4, <1>5, <1>6, <1>8, <1>9 DEF Prefilled
<1> QED BY <1>10

(* A prefill keeps the shape of the state.                                 *)
LEMMA PrefillType ==
  ASSUME KernelsAgree, TInv, NEW rows, rows \subseteq Row, PrefillRows(rows),
         batch > 0, ~(1..batch \subseteq ready)
  PROVE  LayerTypeOK'
<1>0. LayerTypeOK /\ PositionsFit /\ BuiltOf /\ Prompts
  BY DEF TInv, TypeOK
<1>a. PICK junk, xs, ran, keys : junk \in Junk /\ Prefilled(rows, junk, xs, ran, keys)
  BY PrefillUnpacked
<1>1. /\ \A r \in rows :
           /\ xs[r] = Inputs(r, Length, junk)
           /\ ran[r] = Prefill(build.kernels, HeadTokens(fed[r], pads[r], xs[r]))
      /\ rec' = [s \in Row |-> IF s \in rows THEN ran[s].state ELSE rec[s]]
      /\ conv' = [s \in Row |-> IF s \in rows THEN ConvState(fed[s], xs[s]) ELSE conv[s]]
  BY <1>a DEF Prefilled
<1>2. /\ Length \in 1..build.seqLen /\ Length \in Nat /\ Length >= 3
      /\ \A r \in Row : /\ pads[r] + Len(fed[r]) <= Length /\ Len(fed[r]) \in Nat
                        /\ fed[r] \in Seq(Tokens) /\ pads[r] \in Nat
  BY <1>0, LengthFits DEF PositionsFit, Prompts
<1>3. ASSUME NEW r \in rows
      PROVE  /\ ran[r].state \in State
             /\ ConvState(fed[r], xs[r]) \in [1..Taps - 1 -> Inflow]
  <2>0. r \in Row
    OBVIOUS
  <2>1. Len(xs[r]) = Length /\ \A i \in 1..Length : xs[r][i] \in Inflow
    BY <1>1, <1>2, <1>a, <2>0, InputsFacts
  <2>2. /\ HeadTokens(fed[r], pads[r], xs[r]) \in Seq(Token)
        /\ Len(HeadTokens(fed[r], pads[r], xs[r])) = Length
    BY <1>2, <2>0, <2>1, HeadTokensType
  <2>3. ran[r] = Sequential(HeadTokens(fed[r], pads[r], xs[r]))
    <3>1. PICK e \in Envs : build.kernels = e.kernels /\ build.seqLen = e.seqLen
      BY <1>0, BuiltFacts
    <3> QED BY <1>1, <1>2, <2>2, <3>1 DEF KernelsAgree
  <2>4. ran[r].state \in State
    <3>1. PICK f : /\ Trace(f, HeadTokens(fed[r], pads[r], xs[r]))
                   /\ ran[r] = f[Len(HeadTokens(fed[r], pads[r], xs[r]))]
      BY <2>2, <2>3, Traced
    <3>2. Length \in 0..Length
      BY <1>2
    <3> QED BY <2>2, <3>1, <3>2, TraceFacts
  <2>5. fed[r] \in Seq(Tokens) /\ Len(fed[r]) <= Len(xs[r])
    BY <1>2, <2>0, <2>1
  <2>6. ConvState(fed[r], xs[r]) \in [1..3 -> Inflow]
    BY <1>2, <2>1, <2>5, ConvStateFacts
  <2> QED BY <2>4, <2>6 DEF Taps
<1>4. rec' \in [Row -> State]
  BY <1>0, <1>1, <1>3 DEF LayerTypeOK
<1>5. conv' \in [Row -> [1..(Taps - 1) -> [Channel -> Z]]]
  BY <1>0, <1>1, <1>3 DEF LayerTypeOK, Inflow
<1> QED BY <1>4, <1>5 DEF LayerTypeOK

(* The initial state and every action keep TInv.                           *)
LEMMA TypeInit == Init => TInv
<1> SUFFICES ASSUME Init PROVE TInv
  OBVIOUS
<1>1. PositionsFit /\ Room
  BY InvInit DEF IInv
<1>2. PICK built \in Envs, now \in Envs : /\ built.maxBatch = Slots /\ Boots(built, now)
                                        /\ build = Limits(built, now)
  BY DEF Init
<1>3. BuiltOf
  BY <1>2 DEF Boots, Limits, BuiltOf
<1>4. Silent \in Inflow
  BY BlankToken DEF Silent, Inflow
<1>5. LayerTypeOK
  BY <1>4, BlankToken DEF Init, InitLayer, LayerTypeOK, Inflow
<1>6. batch = 0 /\ ready = {} /\ batches = 0 /\ steps = 0 /\ pads = [r \in Row |-> 0]
  BY DEF Init
<1>7. Prompts
  BY <1>6 DEF Prompts
<1>8. TypeOK
  BY <1>1, <1>5, <1>6, BoundsAssumption DEF TypeOK
<1> QED BY <1>1, <1>3, <1>7, <1>8 DEF TInv

LEMMA TypeBegin == TInv /\ Begin => TInv'
<1> SUFFICES ASSUME TInv, Begin PROVE TInv'
  OBVIOUS
<1>1. IInv /\ LayerTypeOK /\ BuiltOf /\ batches \in 0..MaxBatches /\ steps \in 0..MaxDecodes
  BY DEF TInv, IInv, TypeOK
<1>2. PositionsFit' /\ Room'
  BY <1>1, BeginKeeps DEF IInv
<1>3. PICK n \in 1..build.batch : \E asks \in [1..n -> Asks] :
        /\ \A r \in 1..n : Admits(build, Len(asks[r].prompt))
        /\ fed' = [r \in Row |-> asks[IF r <= n THEN r ELSE 1].prompt]
        /\ pads' = [r \in Row |->
              IF LeftPadding THEN Max({Len(fed'[q]) : q \in Row}) - Len(fed'[r]) ELSE 0]
  BY DEF Begin
<1>4. PICK asks \in [1..n -> Asks] :
        /\ \A r \in 1..n : Admits(build, Len(asks[r].prompt))
        /\ fed' = [r \in Row |-> asks[IF r <= n THEN r ELSE 1].prompt]
        /\ pads' = [r \in Row |->
              IF LeftPadding THEN Max({Len(fed'[q]) : q \in Row}) - Len(fed'[r]) ELSE 0]
  BY <1>3
<1>5. n \in 1..Slots /\ 1 \in 1..n /\ build.maxContext \in Nat
  BY <1>1, BuiltFacts DEF Built
<1>6. \A r \in Row : \E q \in 1..n : fed'[r] = asks[q].prompt
  BY <1>4, <1>5 DEF Row
<1>7. ASSUME NEW r \in Row
      PROVE  Len(fed'[r]) \in Nat /\ Len(fed'[r]) <= build.maxContext
  <2>1. PICK q \in 1..n : fed'[r] = asks[q].prompt
    BY <1>6
  <2>2. Len(asks[q].prompt) \in 1..build.maxContext
    BY <1>4 DEF Admits
  <2> QED BY <1>5, <2>1, <2>2
<1>8. ASSUME NEW r \in Row
      PROVE  /\ pads'[r] \in Nat /\ (LeftPadding \/ pads'[r] = 0)
             /\ pads'[r] + Len(fed'[r]) <= build.maxContext
  <2> DEFINE L == {Len(fed'[q]) : q \in Row}
  <2>1. L \in SUBSET Nat /\ L # {} /\ \A x \in L : x <= build.maxContext
    BY <1>7, <1>8
  <2>2. Max(L) \in L /\ \A x \in L : x <= Max(L)
    BY <1>5, <2>1, MaxIsMost
  <2>3. Max(L) \in Nat /\ Max(L) <= build.maxContext /\ Len(fed'[r]) <= Max(L) /\ Len(fed'[r]) \in Nat
    BY <1>7, <1>8, <2>1, <2>2
  <2>4. CASE LeftPadding
    <3>1. pads'[r] = Max(L) - Len(fed'[r])
      BY <1>4, <1>8, <2>4
    <3> HIDE DEF L
    <3> QED BY <1>5, <2>3, <2>4, <3>1
  <2>5. CASE ~LeftPadding
    <3>1. pads'[r] = 0
      BY <1>4, <1>8, <2>5
    <3> QED BY <1>7, <1>8, <3>1
  <2> QED BY <2>4, <2>5
<1>9. build' = build /\ ready' = {} /\ batches' = batches + 1 /\ batches < MaxBatches
      /\ UNCHANGED <<rec, conv, steps>>
  BY DEF Begin
<1>10. Prompts'
  BY <1>7, <1>8, <1>9 DEF Prompts
<1>11. LayerTypeOK' /\ BuiltOf'
  BY <1>1, <1>9 DEF LayerTypeOK, BuiltOf
<1>12. TypeOK'
  <2>1. batches' \in 0..MaxBatches
    BY <1>1, <1>9, BoundsAssumption
  <2> QED BY <1>1, <1>2, <1>9, <1>11, <2>1 DEF TypeOK
<1> QED BY <1>2, <1>10, <1>11, <1>12 DEF TInv

LEMMA TypePrefill ==
  ASSUME KernelsAgree, TInv, NEW rows, rows \subseteq Row, PrefillRows(rows),
         batch > 0, ~(1..batch \subseteq ready)
  PROVE  TInv'
<1>1. LayerTypeOK'
  BY PrefillType
<1>2. PositionsFit' /\ Room'
  BY PrefillKeeps DEF IInv, TInv, TypeOK
<1>3. UNCHANGED <<build, batch, fed, pads, steps, batches>> /\ ready' = ready \cup rows
  BY DEF PrefillRows
<1>4. TypeOK'
  BY <1>1, <1>2, <1>3 DEF TInv, TypeOK
<1>5. Prompts'
  <2>1. ~(1..batch' \subseteq ready') => ~(1..batch \subseteq ready)
    BY <1>3
  <2> QED BY <1>3, <2>1 DEF TInv, Prompts
<1> QED BY <1>2, <1>3, <1>4, <1>5 DEF TInv, BuiltOf

(* A slot that has not been prefilled is left while fewer than batch are.  *)
LEMMA OneLeft ==
  ASSUME batch \in 0..Slots, ready \subseteq Row, Cardinality(ready) < batch
  PROVE  /\ ~(1..batch \subseteq ready) /\ batch > 0
         /\ Cardinality(ready) \in Nat /\ Cardinality(ready) + 1 \in Row
<1>1. IsFiniteSet(Row)
  BY SlotsAssumption, FS_Interval DEF Row
<1>2. IsFiniteSet(ready) /\ Cardinality(ready) \in Nat
  BY <1>1, FS_Subset, FS_CardinalityType
<1>3. batch \in Nat /\ batch > 0
  BY <1>2, SlotsAssumption
<1>4. IsFiniteSet(1..batch) /\ Cardinality(1..batch) = batch
  BY <1>3, FS_Interval
<1>5. ASSUME 1..batch \subseteq ready PROVE FALSE
  <2>1. Cardinality(1..batch) <= Cardinality(ready)
    BY <1>2, <1>5, FS_Subset
  <2> QED BY <1>2, <1>3, <1>4, <2>1
<1> QED BY <1>2, <1>3, <1>5, SlotsAssumption DEF Row

LEMMA TypeReturns == TInv /\ Returns => TInv'
<1> SUFFICES ASSUME TInv, Returns PROVE TInv'
  OBVIOUS
<1>1. IInv /\ LayerTypeOK /\ BuiltOf /\ batches \in 0..MaxBatches /\ steps \in 0..MaxDecodes
  BY DEF TInv, IInv, TypeOK
<1>2. PositionsFit' /\ Room'
  BY <1>1, ReturnsKeeps DEF IInv
<1>3. batch' = 0 /\ ready' = {} /\ pads' = [r \in Row |-> 0] /\ UNCHANGED <<build, rec, conv, steps, batches>>
  BY DEF Returns
<1>4. Prompts'
  BY <1>3 DEF Prompts
<1> QED BY <1>1, <1>2, <1>3, <1>4 DEF TInv, TypeOK, LayerTypeOK, BuiltOf

(* What a decode step makes of every row.                                  *)
Heading(tok, r) == HeadToken(Convolve(Window(tok, r)), Embedding[tok[r]], tok[r] # Pad)
Active(tok, r) ==
    Entry(Embedding[tok[r]].x, Read(rec[r], Heading(tok, r)), Flat(Clamped(r)))

Decoded(tok) ==
    /\ rec' = [r \in Row |-> After(rec[r], Heading(tok, r))]
    /\ conv' = [r \in Row |-> Tail(Window(tok, r))]
    /\ kv' = [r \in Row |-> [kv[r] EXCEPT ![Clamped(r)] = Active(tok, r)]]
    /\ out' = [r \in Row |-> TokenOut(r, Active(tok, r))]
    /\ fed' = [r \in Row |-> IF r <= batch THEN Append(fed[r], tok[r]) ELSE fed[r]]

LEMMA DecodeUnpacked ==
  ASSUME Decode, batch \in 0..Slots
  PROVE  \E tok \in [Row -> Tokens] : Decoded(tok)
<1>1. PICK t \in [1..batch -> Sampled] :
        \E tok \in {[r \in Row |-> IF r <= batch THEN t[r] ELSE Pad]} :
        \E ran \in {Stepped(tok)} :
        \E active \in {[r \in Row |-> Entry(Embedding[tok[r]].x, ran[r].out, Flat(Clamped(r)))]} :
            /\ DecodeLayer(tok, ran)
            /\ kv' = [r \in Row |-> [kv[r] EXCEPT ![Clamped(r)] = active[r]]]
            /\ out' = [r \in Row |-> TokenOut(r, active[r])]
            /\ fed' = [r \in Row |-> IF r <= batch THEN Append(fed[r], t[r]) ELSE fed[r]]
  BY DEF Decode
<1>2. PICK tok : 
            /\ tok = [r \in Row |-> IF r <= batch THEN t[r] ELSE Pad]
            /\ \E ran \in {Stepped(tok)} :
               \E active \in {[r \in Row |-> Entry(Embedding[tok[r]].x, ran[r].out, Flat(Clamped(r)))]} :
                  /\ DecodeLayer(tok, ran)
                  /\ kv' = [r \in Row |-> [kv[r] EXCEPT ![Clamped(r)] = active[r]]]
                  /\ out' = [r \in Row |-> TokenOut(r, active[r])]
                  /\ fed' = [r \in Row |-> IF r <= batch THEN Append(fed[r], t[r]) ELSE fed[r]]
  BY <1>1
<1>3. PICK ran : 
            /\ ran = Stepped(tok)
            /\ \E active \in {[r \in Row |-> Entry(Embedding[tok[r]].x, ran[r].out, Flat(Clamped(r)))]} :
                  /\ DecodeLayer(tok, ran)
                  /\ kv' = [r \in Row |-> [kv[r] EXCEPT ![Clamped(r)] = active[r]]]
                  /\ out' = [r \in Row |-> TokenOut(r, active[r])]
                  /\ fed' = [r \in Row |-> IF r <= batch THEN Append(fed[r], t[r]) ELSE fed[r]]
  BY <1>2
<1>4. PICK active : 
                  /\ active = [r \in Row |-> Entry(Embedding[tok[r]].x, ran[r].out, Flat(Clamped(r)))]
                  /\ DecodeLayer(tok, ran)
                  /\ kv' = [r \in Row |-> [kv[r] EXCEPT ![Clamped(r)] = active[r]]]
                  /\ out' = [r \in Row |-> TokenOut(r, active[r])]
                  /\ fed' = [r \in Row |-> IF r <= batch THEN Append(fed[r], t[r]) ELSE fed[r]]
  BY <1>3
<1>5. tok \in [Row -> Tokens] /\ \A r \in Row : r <= batch => tok[r] = t[r]
  <2>1. \A r \in Row : r <= batch => r \in 1..batch
    BY SlotsAssumption DEF Row
  <2> QED BY <1>2, <2>1, SampledAssumption, EmbeddingAssumption
<1>6. \A r \in Row : ran[r].state = After(rec[r], Heading(tok, r)) /\ ran[r].out = Read(rec[r], Heading(tok, r))
  <2>1. \A r \in Row : ran[r] = Step(rec[r], Heading(tok, r))
    BY <1>3, OnceIsIt DEF Stepped, Heading
  <2>2. \A S, t1 : Step(S, t1).state = After(S, t1) /\ Step(S, t1).out = Read(S, t1)
    BY StepIs
  <2> QED BY <2>1, <2>2
<1>7. ASSUME NEW r \in Row PROVE active[r] = Active(tok, r)
  <2>1. active[r] = Entry(Embedding[tok[r]].x, ran[r].out, Flat(Clamped(r)))
    BY <1>4, <1>7
  <2>2. ran[r].out = Read(rec[r], Heading(tok, r))
    BY <1>7, <1>6
  <2> QED BY <2>1, <2>2 DEF Active
<1>8. rec' = [r \in Row |-> After(rec[r], Heading(tok, r))]
  <2>1. rec' = [r \in Row |-> ran[r].state]
    BY <1>4 DEF DecodeLayer
  <2>2. \A r \in Row : ran[r].state = After(rec[r], Heading(tok, r))
    BY <1>6
  <2> QED BY <2>1, <2>2
<1>9. conv' = [r \in Row |-> Tail(Window(tok, r))]
  BY <1>4 DEF DecodeLayer
<1>10. kv' = [r \in Row |-> [kv[r] EXCEPT ![Clamped(r)] = Active(tok, r)]]
  BY <1>4, <1>7
<1>11. out' = [r \in Row |-> TokenOut(r, Active(tok, r))]
  BY <1>4, <1>7
<1>12. fed' = [r \in Row |-> IF r <= batch THEN Append(fed[r], tok[r]) ELSE fed[r]]
  BY <1>4, <1>5
<1>13. Decoded(tok)
  BY <1>8, <1>9, <1>10, <1>11, <1>12 DEF Decoded
<1> QED BY <1>5, <1>13

(* The window after a step: the old one shifted, the new input last.       *)
LEMMA Moved ==
  ASSUME NEW S, NEW c \in Seq(S), Len(c) = 3, NEW x \in S, NEW w, w = Append(c, x)
  PROVE  /\ w \in Seq(S) /\ w # <<>> /\ Len(w) = 4
         /\ w[4] = x /\ \A k \in 1..3 : w[k] = c[k]
<1>1. Len(c) + 1 = 4
  OBVIOUS
<1>2. w \in Seq(S) /\ w # <<>> /\ Len(w) = 4
  BY <1>1, Appended
<1>3. w[4] = x
  <2>1. w[Len(c) + 1] = x
    BY Appended
  <2> QED BY <1>1, <2>1
<1>4. \A k \in 1..3 : w[k] = c[k]
  <2>1. \A k \in 1..Len(c) : w[k] = c[k]
    BY Appended
  <2> QED BY <1>1, <2>1
<1> QED BY <1>2, <1>3, <1>4
Shifted(S, c, x, w, t) ==
    /\ w[4] = x /\ \A k \in 1..3 : w[k] = c[k]
    /\ \A k \in 1..4 : w[k] \in S
    /\ t \in [1..3 -> S] /\ \A k \in 1..3 : t[k] = w[k + 1]

LEMMA Shift ==
  ASSUME NEW S, NEW c \in [1..3 -> S], NEW x \in S
  PROVE  Shifted(S, c, x, Append(c, x), Tail(Append(c, x)))
<1>6. PICK w : w = Append(c, x)
  OBVIOUS
<1>7. PICK t : t = Tail(w)
  OBVIOUS
<1>1. c \in Seq(S) /\ Len(c) = 3
  BY FunctionsAreSequences
<1>2. w \in Seq(S) /\ w # <<>> /\ Len(w) = 4 /\ w[4] = x /\ \A k \in 1..3 : w[k] = c[k]
  BY <1>1, <1>6, Moved
<1>3. \A k \in 1..4 : w[k] \in S
  BY <1>2, ElementOfSeq
<1>4. t \in Seq(S) /\ Len(t) = 3 /\ \A k \in 1..3 : t[k] = w[k + 1]
  <2>1. Tail(w) \in Seq(S) /\ Len(Tail(w)) = Len(w) - 1
        /\ \A k \in 1..Len(Tail(w)) : Tail(w)[k] = w[k + 1]
    BY <1>2, HeadTailProperties
  <2>2. Len(w) - 1 = 3
    BY <1>2
  <2> QED BY <1>7, <2>1, <2>2
<1>5. t \in [1..3 -> S]
  BY <1>4, LenProperties
<1> QED BY <1>2, <1>3, <1>4, <1>5, <1>6, <1>7 DEF Shifted

LEMMA WindowFacts ==
  ASSUME LayerTypeOK, NEW tok \in [Row -> Tokens], NEW r \in Row
  PROVE  /\ \A k \in 1..Taps - 1 : Window(tok, r)[k] = conv[r][k]
         /\ Window(tok, r)[Taps] = Embedding[tok[r]].x
         /\ \A k \in 1..Taps : Window(tok, r)[k] \in Inflow
         /\ Heading(tok, r) \in Token
         /\ Tail(Window(tok, r)) \in [1..Taps - 1 -> Inflow]
         /\ \A k \in 1..Taps - 1 : Tail(Window(tok, r))[k] = Window(tok, r)[k + 1]
<1>1. PICK c : c = conv[r]
  OBVIOUS
<1>2. PICK x : x = Embedding[tok[r]].x
  OBVIOUS
<1>3. PICK w : w = Append(c, x)
  OBVIOUS
<1>4. PICK t : t = Tail(w)
  OBVIOUS
<1>5. tok[r] \in Tokens /\ x \in Inflow
  BY <1>2, Embedded
<1>6. c \in [1..3 -> Inflow]
  BY <1>1 DEF LayerTypeOK, Inflow, Taps
<1>7. /\ w[4] = x /\ \A k \in 1..3 : w[k] = c[k]
      /\ \A k \in 1..4 : w[k] \in Inflow
      /\ t \in [1..3 -> Inflow] /\ \A k \in 1..3 : t[k] = w[k + 1]
  <2>1. Shifted(Inflow, c, x, Append(c, x), Tail(Append(c, x)))
    BY <1>5, <1>6, Shift
  <2> QED BY <2>1, <1>3, <1>4 DEF Shifted
<1>8. w = Window(tok, r)
  BY <1>1, <1>2, <1>3 DEF Window
<1>9. Heading(tok, r) \in Token
  <2>1. Convolve(w) \in Inflow
    BY <1>7, ConvolveType DEF Taps
  <2> QED BY <2>1, <1>5, <1>8, HeadTokenType DEF Heading
<1>10. 1..Taps = 1..4 /\ 1..Taps - 1 = 1..3 /\ Taps = 4
  BY DEF Taps
<1> QED BY <1>1, <1>2, <1>4, <1>7, <1>8, <1>9, <1>10

LEMMA TypeDecode == TInv /\ Decode => TInv'
<1> SUFFICES ASSUME TInv, Decode PROVE TInv'
  OBVIOUS
<1>1. IInv /\ LayerTypeOK /\ BuiltOf /\ PositionsFit /\ Prompts
      /\ ready \subseteq Row /\ batches \in 0..MaxBatches /\ steps \in 0..MaxDecodes
  BY DEF TInv, IInv, TypeOK
<1>2. IInv'
  BY <1>1, DecodeKeeps
<1>3. PICK tok \in [Row -> Tokens] : Decoded(tok)
  BY <1>1, DecodeUnpacked DEF PositionsFit
<1>4. LayerTypeOK'
  <2>1. \A r \in Row : After(rec[r], Heading(tok, r)) \in State
    <3> SUFFICES ASSUME NEW r \in Row PROVE After(rec[r], Heading(tok, r)) \in State
      OBVIOUS
    <3>1. rec[r] \in State
      BY <1>1 DEF LayerTypeOK
    <3>2. Heading(tok, r) \in Token
      BY <1>1, WindowFacts
    <3> QED BY <3>1, <3>2, StepType
  <2>2. \A r \in Row : Tail(Window(tok, r)) \in [1..Taps - 1 -> Inflow]
    BY <1>1, WindowFacts
  <2>3. rec' \in [Row -> State]
    BY <1>3, <2>1 DEF Decoded
  <2>4. conv' \in [Row -> [1..Taps - 1 -> Inflow]]
    BY <1>3, <2>2 DEF Decoded
  <2> QED BY <2>3, <2>4 DEF LayerTypeOK, Inflow
<1>5. /\ batch > 0 /\ 1..batch \subseteq ready /\ steps < MaxDecodes /\ steps' = steps + 1
      /\ UNCHANGED <<build, batch, pads, budget, ready, batches>>
  BY DEF Decode
<1>6. Prompts'
  BY <1>1, <1>5 DEF Prompts
<1>7. steps' \in 0..MaxDecodes
  BY <1>1, <1>5, BoundsAssumption
<1> QED BY <1>1, <1>2, <1>4, <1>5, <1>6, <1>7 DEF TInv, IInv, TypeOK, BuiltOf

(* The recurrent state, the convolution window, the cache and the outputs  *)
(* keep the shapes the compiled model declares, in every build.            *)
THEOREM TypeCorrect == ASSUME KernelsAgree PROVE Spec => []TypeOK
<1>1. Init => TInv
  BY TypeInit
<1>2. TInv /\ [Next]_vars => TInv'
  <2> SUFFICES ASSUME TInv, [Next]_vars PROVE TInv'
    OBVIOUS
  <2>1. CASE Begin
    BY <2>1, TypeBegin
  <2>2. CASE PrefillOne
    <3>1. /\ ~(1..batch \subseteq ready) /\ batch > 0
          /\ Cardinality(ready) \in Nat /\ Cardinality(ready) + 1 \in Row
      BY <2>2, OneLeft DEF PrefillOne, TInv, TypeOK, PositionsFit
    <3> QED BY <2>2, <3>1, KernelsAgree, TypePrefill DEF PrefillOne
  <2>3. CASE PrefillAll
    <3>1. ~(1..batch \subseteq ready) /\ batch > 0
      <4>1. ready = {} /\ batch > 0 /\ batch \in Nat
        BY <2>3, SlotsAssumption DEF PrefillAll, TInv, TypeOK, PositionsFit
      <4>2. 1 \in 1..batch
        BY <4>1
      <4> QED BY <4>1, <4>2
    <3> QED BY <2>3, <3>1, KernelsAgree, TypePrefill DEF PrefillAll
  <2>4. CASE Decode
    BY <2>4, TypeDecode
  <2>5. CASE Finish
    BY <2>5, TypeReturns DEF Finish
  <2>6. CASE PrefillRaises
    BY <2>6, TypeReturns DEF PrefillRaises
  <2>7. CASE UNCHANGED vars
    BY <2>7 DEF vars, TInv, TypeOK, LayerTypeOK, PositionsFit, Room, Built, BuiltOf, Prompts
  <2> QED BY <2>1, <2>2, <2>3, <2>4, <2>5, <2>6, <2>7 DEF Next
<1>3. TInv => TypeOK
  BY DEF TInv
<1> QED BY <1>1, <1>2, <1>3, PTL DEF Spec

-------------------------------------------------------------------------------
(* ISOLATION OF THE SLOTS                                                  *)

(* What a sequence on its own leaves at a position of the cache.           *)
Mark(s, p) == Entry(Embedding[s[p + 1]].x, Alone(s).outs[p + 1], Flat(p))

(* A slot holds what its own tokens, alone, leave.  StateIsOwn and         *)
(* OutputIsOwn say it of the recurrent state and the last output; it takes *)
(* the window and the cache to be inductive.                               *)
Carried(r) ==
    /\ rec[r] = Alone(fed[r]).state
    /\ \A k \in 1..(Taps - 1) : conv[r][k] = Embedding[fed[r][Len(fed[r]) - (Taps - 1) + k]].x
    /\ \A p \in 0..(Len(fed[r]) - 1) : kv[r][p] = Mark(fed[r], p)
    /\ out[r] = [p \in 0..(Len(fed[r]) - 1) |-> Mark(fed[r], p)]

(* Right after the prefill, of a prompt too short for the convolution too. *)
Fresh(r) ==
    /\ rec[r] = Alone(fed[r]).state
    /\ Len(fed[r]) >= 2 => out[r] = [p \in 0..(Len(fed[r]) - 1) |-> Mark(fed[r], p)]

Isolated ==
    \A r \in Row : Serving(r) /\ NoPadFed(r) =>
        /\ decodes = 0 => Fresh(r)
        /\ Prompted(r) >= 3 => Carried(r)

(* One more token leaves what the others left, and adds its own.           *)
Grown(s, t, l, h) ==
    /\ Alone(l).state = After(Alone(s).state, h)
    /\ \A p \in 0..(Len(s) - 1) : Mark(l, p) = Mark(s, p)
    /\ Mark(l, Len(s)) = Entry(Embedding[t].x, Read(Alone(s).state, h), Flat(Len(s)))

(* The window holds the last inputs of a sequence, and one more.           *)
Follows(w, s, t) ==
    /\ \A k \in 1..Taps - 1 : w[k] = Embedding[s[Len(s) - (Taps - 1) + k]].x
    /\ w[Taps] = Embedding[t].x

(* A position of the cache does not change when a token is added.          *)
LEMMA OneMark ==
  ASSUME NEW s \in Seq(Tokens), Len(s) >= Taps - 1, NEW t \in Tokens, NEW w, Follows(w, s, t)
  PROVE  Grown(s, t, Append(s, t), Valid(Convolve(w), t))
<1>a. PICK l : l = Append(s, t)
  OBVIOUS
<1>b. PICK h : h = Valid(Convolve(w), t)
  OBVIOUS
<1>c. /\ \A k \in 1..Taps - 1 : w[k] = Embedding[s[Len(s) - (Taps - 1) + k]].x
      /\ w[Taps] = Embedding[t].x
  BY DEF Follows
<1> DEFINE n == Len(s)
           outs == Alone(s).outs
           o == Read(Alone(s).state, h)
<1>1. Alone(l) = Onward(Alone(s), h)
  BY <1>a, <1>b, <1>c, NextToken
<1>2. Alone(l).state = After(Alone(s).state, h) /\ Alone(l).outs = Append(outs, o)
  BY <1>1 DEF Onward
<1>3. n \in Nat /\ l[n + 1] = t /\ \A i \in 1..n : l[i] = s[i]
  BY <1>a
<1>4. Alone(s).state \in State /\ outs \in Seq(Out) /\ Len(outs) = n
  BY AloneType
<1>5. h \in Token
  <2>0. /\ \A k \in 1..Taps - 1 : s[Len(s) - (Taps - 1) + k] \in Tokens
        /\ \A k \in 1..Taps : k \in 1..Taps - 1 \/ k = Taps
    BY <1>3 DEF Taps
  <2>1. \A k \in 1..Taps : w[k] \in Inflow
    BY <2>0, <1>c, Embedded
  <2>2. Convolve(w) \in Inflow
    BY <2>1, ConvolveType
  <2> QED BY <2>2, <1>b, HeadTokenType DEF Valid
<1>6. o \in Out
  BY <1>4, <1>5, StepType DEF Out
<1> HIDE DEF outs, o
<1>7. Append(outs, o)[n + 1] = o /\ \A i \in 1..n : Append(outs, o)[i] = outs[i]
  BY <1>4, <1>6, Appended
<1>8. \A p \in 0..(n - 1) : Mark(l, p) = Mark(s, p)
  <2> SUFFICES ASSUME NEW p \in 0..(n - 1) PROVE Mark(l, p) = Mark(s, p)
    OBVIOUS
  <2>1. p + 1 \in 1..n
    BY <1>3
  <2>2. l[p + 1] = s[p + 1] /\ Alone(l).outs[p + 1] = Alone(s).outs[p + 1]
    BY <2>1, <1>2, <1>3, <1>7 DEF outs
  <2> QED BY <2>2 DEF Mark
<1>9. Mark(l, n) = Entry(Embedding[t].x, o, Flat(n))
  <2>1. l[n + 1] = t /\ Alone(l).outs[n + 1] = o
    BY <1>2, <1>3, <1>7
  <2> QED BY <2>1 DEF Mark
<1>10. Grown(s, t, l, h)
  BY <1>2, <1>8, <1>9 DEF o, Grown
<1> QED BY <1>10, <1>a, <1>b

(* The position of the last token of a prompt has the first greatest id.   *)
LEMMA LastIsLast ==
  ASSUME NEW n \in Nat, n >= 2, NEW m \in Nat, n <= m, NEW ids,
         ids = [i \in 1..m |-> IF i <= n THEN i - 1 ELSE 1]
  PROVE  LastToken(ids) = n
<1> DEFINE S == {ids[j] : j \in DOMAIN ids}
<1>1. DOMAIN ids = 1..m /\ \A i \in 1..m : ids[i] = IF i <= n THEN i - 1 ELSE 1
  OBVIOUS
<1>2. n \in 1..m /\ ids[n] = n - 1
  BY <1>1
<1>3. \A i \in 1..m : ids[i] \in Nat /\ ids[i] <= n - 1 /\ (ids[i] = n - 1 => n <= i)
  <2> SUFFICES ASSUME NEW i \in 1..m
               PROVE  ids[i] \in Nat /\ ids[i] <= n - 1 /\ (ids[i] = n - 1 => n <= i)
    OBVIOUS
  <2>1. CASE i <= n
    <3>1. ids[i] = i - 1
      BY <1>1, <2>1
    <3> QED BY <2>1, <3>1
  <2>2. CASE ~(i <= n)
    <3>1. ids[i] = 1
      BY <1>1, <2>2
    <3> QED BY <2>2, <3>1
  <2> QED BY <2>1, <2>2
<1>4. S \in SUBSET Nat /\ n - 1 \in S /\ \A x \in S : x <= n - 1
  BY <1>1, <1>2, <1>3
<1> HIDE DEF S
<1>5. n - 1 \in Nat
  OBVIOUS
<1>6. Max(S) = n - 1
  <2>1. Max(S) \in S /\ \A x \in S : x <= Max(S)
    BY <1>4, <1>5, MaxIsMost
  <2>2. Max(S) \in Nat /\ Max(S) <= n - 1 /\ n - 1 <= Max(S)
    BY <1>4, <2>1
  <2> QED BY <2>2, <1>5
<1> DEFINE I == {i \in 1..m : ids[i] = n - 1}
<1>7. LastToken(ids) = Min(I)
  BY <1>1, <1>6 DEF LastToken, S
<1>8. I \subseteq Nat /\ n \in I /\ \A i \in I : n <= i
  BY <1>2, <1>3
<1> HIDE DEF I
<1>9. Min(I) \in I /\ Min(I) <= n
  BY <1>8, ZeroIsLeast
<1>10. n <= Min(I) /\ Min(I) \in Nat
  BY <1>8, <1>9
<1> QED BY <1>7, <1>9, <1>10

(* The keys of a prefill without padding.                                  *)
LEMMA KeysAre ==
  ASSUME NEW r \in Row, pads[r] = 0, fed[r] \in Seq(Tokens),
         NEW xs, Len(xs) \in Nat, Len(fed[r]) <= Len(xs), NEW outs
  PROVE  /\ Len(Keys(r, xs, outs)) = Len(xs)
         /\ \A i \in 1..Len(fed[r]) : Keys(r, xs, outs)[i] = Entry(xs[i], outs[i], Flat(i - 1))
         /\ Len(fed[r]) >= 2 => LastToken(PositionIds(r, Len(xs))) = Len(fed[r])
<1>1. PICK n : n = Len(fed[r])
  OBVIOUS
<1>2. PICK m : m = Len(xs)
  OBVIOUS
<1>3. n \in Nat /\ m \in Nat /\ n <= m
  BY <1>1, <1>2
<1>4. PositionIds(r, m) = [i \in 1..m |-> IF i <= n THEN i - 1 ELSE 1]
  <2>1. \A i \in 1..m : (i - pads[r] \in 1..Len(fed[r]) <=> i <= n) /\ i - pads[r] - 1 = i - 1
    BY <1>1, <1>3
  <2>2. PositionIds(r, m) = [i \in 1..m |-> IF i - pads[r] \in 1..Len(fed[r]) THEN i - pads[r] - 1 ELSE 1]
    BY DEF PositionIds
  <2>3. ASSUME NEW i \in 1..m
        PROVE  (IF i - pads[r] \in 1..Len(fed[r]) THEN i - pads[r] - 1 ELSE 1)
                 = (IF i <= n THEN i - 1 ELSE 1)
    <3>1. CASE i <= n
      BY <2>1, <2>3, <3>1
    <3>2. CASE ~(i <= n)
      BY <2>1, <2>3, <3>2
    <3> QED BY <3>1, <3>2
  <2> QED BY <2>2, <2>3
<1>5. n >= 2 => LastToken(PositionIds(r, m)) = n
  BY <1>3, <1>4, LastIsLast
<1>6. Keys(r, xs, outs) =
        [i \in 1..m |-> Entry(xs[i], outs[i],
                          Flat(IF build.textOnly THEN PositionIds(r, m)[i] ELSE i - 1))]
  BY <1>2 DEF Keys
<1>7. Len(Keys(r, xs, outs)) = m
  BY <1>3, <1>6
<1>8. ASSUME NEW i \in 1..n PROVE Keys(r, xs, outs)[i] = Entry(xs[i], outs[i], Flat(i - 1))
  <2>1. i \in 1..m /\ i <= n
    BY <1>3, <1>8
  <2>2. PositionIds(r, m)[i] = i - 1
    BY <1>4, <2>1
  <2>3. CASE build.textOnly
    BY <1>6, <2>1, <2>2, <2>3
  <2>4. CASE ~build.textOnly
    BY <1>6, <2>1, <2>4
  <2> QED BY <2>3, <2>4
<1> QED BY <1>1, <1>2, <1>5, <1>7, <1>8

(* A row after its prefill.                                                *)
LEMMA PrefillRow ==
  ASSUME KernelsAgree, ~LeftPadding, TInv, NEW rows, rows \subseteq Row, PrefillRows(rows),
         batch > 0, ~(1..batch \subseteq ready), NEW r \in rows, NoPadFed(r)
  PROVE  Fresh(r)' /\ (Len(fed[r]) >= 3 => Carried(r)')
<1>0. r \in Row /\ PositionsFit /\ BuiltOf /\ Prompts /\ LayerTypeOK
  BY DEF TInv, TypeOK
<1>a. PICK junk, xs, ran, keys : junk \in Junk /\ Prefilled(rows, junk, xs, ran, keys)
  BY PrefillUnpacked
<1>b. PICK s : s = fed[r]
  OBVIOUS
<1>c. PICK n : n = Len(s)
  OBVIOUS
<1>d. PICK m : m = Length
  OBVIOUS
<1>1. /\ xs[r] = Inputs(r, Length, junk)
      /\ ran[r] = Prefill(build.kernels, HeadTokens(fed[r], pads[r], xs[r]))
      /\ keys[r] = Keys(r, xs[r], ran[r].outs)
      /\ rec'[r] = ran[r].state
      /\ conv'[r] = ConvState(fed[r], xs[r])
      /\ out'[r] = CausalOut(keys[r], LastToken(PositionIds(r, Length)))
      /\ kv' = FillSlots(rows, keys)
  BY <1>a, <1>0 DEF Prefilled
<1>2. /\ m \in 1..build.seqLen /\ m \in Nat /\ m >= 3 /\ n \in Nat /\ n <= m
      /\ s \in Seq(Tokens) /\ pads[r] = 0
  <2>1. /\ Length \in 1..build.seqLen /\ Length >= 3
        /\ pads[r] + Len(fed[r]) <= Length /\ Len(fed[r]) \in Nat
    BY <1>0, LengthFits
  <2>2. pads[r] = 0 /\ fed[r] \in Seq(Tokens)
    BY <1>0 DEF Prompts, PositionsFit
  <2> QED BY <2>1, <2>2, <1>b, <1>c, <1>d
<1>e. \A i \in 1..n : s[i] # Pad
  BY <1>b, <1>c DEF NoPadFed
<1>3. /\ Len(xs[r]) = m
      /\ \A i \in 1..m : xs[r][i] \in Inflow
      /\ \A i \in 1..n : xs[r][i] = Embedding[s[i]].x
  <2>1. /\ Len(xs[r]) = Length
        /\ \A i \in 1..Length : xs[r][i] \in Inflow
        /\ \A i \in 1..Length : i <= Len(fed[r]) /\ fed[r][i] # Pad => xs[r][i] = Embedding[fed[r][i]].x
    BY <1>0, <1>1, <1>2, <1>a, <1>b, <1>d, InputsFacts
  <2> QED BY <2>1, <1>2, <1>b, <1>c, <1>d, <1>e
<1>4. /\ HeadTokens(s, 0, xs[r]) \in Seq(Token) /\ Len(HeadTokens(s, 0, xs[r])) = m
      /\ Sequential(HeadTokens(s, 0, xs[r])).state = Alone(s).state
      /\ \A i \in 1..n : Sequential(HeadTokens(s, 0, xs[r])).outs[i] = Alone(s).outs[i]
  BY <1>2, <1>3, <1>c, <1>e, PaddedHeads
<1>5. ran[r] = Sequential(HeadTokens(s, 0, xs[r]))
  <2>1. PICK e \in Envs : build.kernels = e.kernels /\ build.seqLen = e.seqLen
    BY <1>0, BuiltFacts
  <2>2. ran[r] = Prefill(e.kernels, HeadTokens(s, 0, xs[r]))
    BY <1>1, <1>2, <1>b, <2>1
  <2> QED BY <1>2, <1>4, <2>1, <2>2 DEF KernelsAgree
<1>6. ran[r].state = Alone(s).state /\ \A i \in 1..n : ran[r].outs[i] = Alone(s).outs[i]
  BY <1>4, <1>5
<1>7. /\ Len(keys[r]) = m
      /\ \A i \in 1..n : keys[r][i] = Entry(xs[r][i], ran[r].outs[i], Flat(i - 1))
      /\ n >= 2 => LastToken(PositionIds(r, Length)) = n
  <2>1. Len(xs[r]) \in Nat /\ Len(fed[r]) <= Len(xs[r]) /\ fed[r] \in Seq(Tokens)
    BY <1>2, <1>3, <1>b, <1>c
  <2>2. /\ Len(Keys(r, xs[r], ran[r].outs)) = Len(xs[r])
        /\ \A i \in 1..Len(fed[r]) :
             Keys(r, xs[r], ran[r].outs)[i] = Entry(xs[r][i], ran[r].outs[i], Flat(i - 1))
        /\ Len(fed[r]) >= 2 => LastToken(PositionIds(r, Len(xs[r]))) = Len(fed[r])
    <3>1. r \in Row /\ pads[r] = 0
      BY <1>0, <1>2
    <3>2. PICK x : x = xs[r]
      OBVIOUS
    <3>3. PICK o : o = ran[r].outs
      OBVIOUS
    <3>4. /\ Len(Keys(r, x, o)) = Len(x)
          /\ \A i \in 1..Len(fed[r]) : Keys(r, x, o)[i] = Entry(x[i], o[i], Flat(i - 1))
          /\ Len(fed[r]) >= 2 => LastToken(PositionIds(r, Len(x))) = Len(fed[r])
      <4>1. Len(x) \in Nat /\ Len(fed[r]) <= Len(x) /\ fed[r] \in Seq(Tokens)
        BY <2>1, <3>2
      <4> QED BY <4>1, <3>1, KeysAre
    <3> QED BY <3>2, <3>3, <3>4
  <2>3. keys[r] = Keys(r, xs[r], ran[r].outs) /\ Len(xs[r]) = Length /\ Len(fed[r]) = n
    BY <1>1, <1>3, <1>b, <1>c, <1>d
  <2> QED BY <2>2, <2>3, <1>d
<1>8. \A p \in 0..(n - 1) : keys[r][p + 1] = Mark(s, p)
  <2> SUFFICES ASSUME NEW p \in 0..(n - 1) PROVE keys[r][p + 1] = Mark(s, p)
    OBVIOUS
  <2>1. p + 1 \in 1..n /\ (p + 1) - 1 = p
    BY <1>2
  <2>2. keys[r][p + 1] = Entry(xs[r][p + 1], ran[r].outs[p + 1], Flat((p + 1) - 1))
    BY <1>7, <2>1
  <2>3. xs[r][p + 1] = Embedding[s[p + 1]].x /\ ran[r].outs[p + 1] = Alone(s).outs[p + 1]
    BY <1>3, <1>6, <2>1
  <2> QED BY <2>1, <2>2, <2>3 DEF Mark
<1>9. fed' = fed
  BY DEF PrefillRows
<1>10. rec'[r] = Alone(s).state
  BY <1>1, <1>6
<1>11. ASSUME n >= 3
       PROVE  \A k \in 1..(Taps - 1) : conv'[r][k] = Embedding[s[n - (Taps - 1) + k]].x
  <2>1. conv'[r] = [j \in 1..3 |-> xs[r][(n - 3) + j]]
    <3>1. Len(xs[r]) \in Nat /\ Len(xs[r]) >= 3 /\ Len(s) <= Len(xs[r]) /\ Len(s) = n
      BY <1>2, <1>3, <1>c
    <3>2. \A i \in 1..Len(xs[r]) : xs[r][i] \in Inflow
      BY <1>3
    <3>3. ConvState(s, xs[r]) = [j \in 1..3 |-> xs[r][(Len(s) - 3) + j]]
      BY <3>1, <3>2, <1>2, <1>e, <1>11, ConvStateFacts
    <3> QED BY <3>1, <3>3, <1>1, <1>b
  <2>2. \A j \in 1..3 : (n - 3) + j \in 1..n
    BY <1>2, <1>11
  <2>3. \A j \in 1..3 : conv'[r][j] = Embedding[s[(n - 3) + j]].x
    BY <2>1, <2>2, <1>3
  <2> QED BY <2>3, <1>2 DEF Taps
<1>12. \A p \in 0..(n - 1) : kv'[r][p] = Mark(s, p)
  <2> SUFFICES ASSUME NEW p \in 0..(n - 1) PROVE kv'[r][p] = Mark(s, p)
    OBVIOUS
  <2>1. DOMAIN kv[r] = 0..(build.seqLen - 1) /\ build.seqLen \in Nat
    BY <1>0, BuiltFacts DEF PositionsFit
  <2>2. p \in DOMAIN kv[r] /\ p < m
    BY <2>1, <1>2
  <2>3. kv'[r] = [q \in DOMAIN kv[r] |-> IF q < Len(keys[r]) THEN keys[r][q + 1] ELSE kv[r][q]]
    BY <1>0, <1>1 DEF FillSlots
  <2>4. kv'[r][p] = keys[r][p + 1]
    BY <2>2, <2>3, <1>7
  <2> QED BY <2>4, <1>8
<1>13. n >= 2 => out'[r] = [p \in 0..(n - 1) |-> Mark(s, p)]
  <2>1. n >= 2 => out'[r] = [p \in 0..(n - 1) |-> keys[r][p + 1]]
    BY <1>1, <1>7 DEF CausalOut
  <2> QED BY <2>1, <1>8
<1>14. Fresh(r)'
  BY <1>9, <1>10, <1>13, <1>b, <1>c DEF Fresh
<1>15. n >= 3 => Carried(r)'
  BY <1>2, <1>9, <1>10, <1>11, <1>12, <1>13, <1>b, <1>c DEF Carried
<1> QED BY <1>14, <1>15, <1>b, <1>c

(* A row after a decode step: one token more, that is not the padding.     *)
LEMMA DecodeRow ==
  ASSUME ~LeftPadding, TInv, NEW tok \in [Row -> Tokens], Decoded(tok),
         NEW r \in Row, r <= batch, batch > 0, tok[r] # Pad, Len(fed[r]) >= 3, Carried(r)
  PROVE  Carried(r)'
<1>0. PositionsFit /\ BuiltOf /\ Prompts /\ LayerTypeOK
  BY DEF TInv, TypeOK
<1>a. PICK s : s = fed[r]
  OBVIOUS
<1>b. PICK n : n = Len(s)
  OBVIOUS
<1>c. PICK t : t = tok[r]
  OBVIOUS
<1>d. PICK w : w = Window(tok, r)
  OBVIOUS
<1>e. PICK l : l = Append(s, t)
  OBVIOUS
<1>f. PICK h : h = Valid(Convolve(w), t)
  OBVIOUS
<1>1. /\ s \in Seq(Tokens) /\ n \in Nat /\ n >= 3 /\ n < build.seqLen /\ build.seqLen \in Nat
      /\ pads[r] = 0 /\ t \in Tokens /\ DOMAIN kv[r] = 0..(build.seqLen - 1)
  <2>1. fed[r] \in Seq(Tokens) /\ Len(fed[r]) < build.seqLen /\ DOMAIN kv[r] = 0..(build.seqLen - 1)
    BY <1>0 DEF PositionsFit
  <2>2. pads[r] = 0
    BY <1>0 DEF Prompts
  <2> QED BY <2>1, <2>2, <1>0, <1>a, <1>b, <1>c, BuiltFacts
<1>2. /\ rec[r] = Alone(s).state
      /\ \A k \in 1..3 : conv[r][k] = Embedding[s[n - 3 + k]].x
      /\ \A p \in 0..(n - 1) : kv[r][p] = Mark(s, p)
  BY <1>a, <1>b DEF Carried, Taps
<1>3. /\ \A k \in 1..3 : w[k] = conv[r][k]
      /\ w[4] = Embedding[t].x
      /\ \A k \in 1..3 : Tail(w)[k] = w[k + 1]
  <2>1. /\ \A k \in 1..Taps - 1 : w[k] = conv[r][k]
        /\ w[Taps] = Embedding[t].x
        /\ \A k \in 1..Taps - 1 : Tail(w)[k] = w[k + 1]
    BY <1>0, <1>c, <1>d, WindowFacts
  <2>2. 1..Taps - 1 = 1..3 /\ Taps = 4
    BY DEF Taps
  <2> QED BY <2>1, <2>2
<1>4. \A k \in 1..3 : w[k] = Embedding[s[n - 3 + k]].x
  BY <1>2, <1>3
<1>5. Heading(tok, r) = h
  BY <1>c, <1>d, <1>f DEF Heading, Valid, HeadToken
<1>6. /\ Alone(l).state = After(Alone(s).state, h)
      /\ \A p \in 0..(n - 1) : Mark(l, p) = Mark(s, p)
      /\ Mark(l, n) = Entry(Embedding[t].x, Read(Alone(s).state, h), Flat(n))
  <2>1. Len(s) >= Taps - 1 /\ Follows(w, s, t)
    BY <1>1, <1>3, <1>4, <1>b DEF Taps, Follows
  <2>2. Grown(s, t, Append(s, t), Valid(Convolve(w), t))
    BY <2>1, <1>1, OneMark
  <2>3. Grown(s, t, l, h)
    BY <2>2, <1>e, <1>f
  <2> QED BY <2>3, <1>b DEF Grown
<1>7. /\ fed'[r] = l /\ Len(l) = n + 1 /\ l[n + 1] = t /\ \A i \in 1..n : l[i] = s[i]
  <2>1. fed'[r] = l
    BY <1>a, <1>c, <1>e DEF Decoded
  <2> QED BY <2>1, <1>1, <1>b, <1>e, Appended
<1>8. Position(r) = n /\ Clamped(r) = n
  <2>1. Position(r) = n
    BY <1>a, <1>b DEF Position
  <2>2. n <= build.seqLen - 1 /\ build.seqLen - 1 \in Nat
    BY <1>1
  <2>3. Min({n, build.seqLen - 1}) = n
    <3>1. Min({n, build.seqLen - 1}) \in {n, build.seqLen - 1} /\ Min({n, build.seqLen - 1}) <= n
      BY <1>1, <2>2, MinOfTwo
    <3> QED BY <3>1, <2>2, <1>1
  <2> QED BY <2>1, <2>3 DEF Clamped
<1>9. Active(tok, r) = Mark(l, n)
  BY <1>2, <1>5, <1>6, <1>8, <1>c DEF Active
<1>10. rec'[r] = Alone(l).state
  <2>1. rec'[r] = After(rec[r], Heading(tok, r))
    BY DEF Decoded
  <2> QED BY <2>1, <1>2, <1>5, <1>6
<1>11. \A k \in 1..3 : conv'[r][k] = Embedding[l[(n + 1) - 3 + k]].x
  <2>1. conv'[r] = Tail(w)
    BY <1>d DEF Decoded
  <2> SUFFICES ASSUME NEW k \in 1..3 PROVE conv'[r][k] = Embedding[l[(n + 1) - 3 + k]].x
    OBVIOUS
  <2>2. conv'[r][k] = w[k + 1]
    BY <2>1, <1>3
  <2>3. CASE k = 3
    <3>1. (n + 1) - 3 + k = n + 1 /\ k + 1 = 4
      BY <2>3, <1>1
    <3> QED BY <3>1, <2>2, <1>3, <1>7
  <2>4. CASE k \in 1..2
    <3>1. k + 1 \in 1..3 /\ n - 3 + (k + 1) \in 1..n /\ (n + 1) - 3 + k = n - 3 + (k + 1)
      BY <2>4, <1>1
    <3> QED BY <3>1, <2>2, <1>4, <1>7
  <2> QED BY <2>3, <2>4
<1>12. \A p \in 0..n : kv'[r][p] = Mark(l, p)
  <2>1. kv'[r] = [kv[r] EXCEPT ![n] = Mark(l, n)]
    BY <1>8, <1>9 DEF Decoded
  <2>2. n \in DOMAIN kv[r] /\ \A p \in 0..n : p \in DOMAIN kv[r]
    BY <1>1
  <2> SUFFICES ASSUME NEW p \in 0..n PROVE kv'[r][p] = Mark(l, p)
    OBVIOUS
  <2>3. CASE p = n
    BY <2>1, <2>2, <2>3
  <2>4. CASE p \in 0..(n - 1)
    BY <2>1, <2>2, <2>4, <1>1, <1>2, <1>6
  <2> QED BY <2>3, <2>4, <1>1
<1>13. out'[r] = [p \in 0..n |-> Mark(l, p)]
  <2>1. out'[r] = TokenOut(r, Mark(l, n))
    BY <1>9 DEF Decoded
  <2>2. TokenOut(r, Mark(l, n)) =
          [p \in 0..n |-> IF p = n THEN Mark(l, n)
                          ELSE IF p + pads[r] < build.seqLen THEN kv[r][p + pads[r]] ELSE Unwritten]
    BY <1>8 DEF TokenOut
  <2>3. ASSUME NEW p \in 0..n
        PROVE  (IF p = n THEN Mark(l, n)
                ELSE IF p + pads[r] < build.seqLen THEN kv[r][p + pads[r]] ELSE Unwritten) = Mark(l, p)
    <3>1. CASE p = n
      BY <3>1
    <3>2. CASE p # n
      <4>1. p \in 0..(n - 1) /\ p + pads[r] = p /\ p < build.seqLen
        BY <1>1, <2>3, <3>2
      <4>2. kv[r][p] = Mark(l, p)
        BY <4>1, <1>2, <1>6
      <4> QED BY <3>2, <4>1, <4>2
    <3> QED BY <3>1, <3>2
  <2> QED BY <2>1, <2>2, <2>3
<1>14. n + 1 - 1 = n /\ Len(fed'[r]) - 1 = n
  BY <1>1, <1>7
<1> QED BY <1>7, <1>10, <1>11, <1>12, <1>13, <1>14 DEF Carried, Taps

(* The inductive invariant of StateIsOwn and OutputIsOwn.                  *)
OwnInv == TInv /\ Isolated

(* A prefill makes the slots it fills anew and leaves the others alone.    *)
LEMMA OwnPrefill ==
  ASSUME KernelsAgree, ~LeftPadding, OwnInv, NEW rows, rows \subseteq Row, PrefillRows(rows),
         batch > 0, ~(1..batch \subseteq ready)
  PROVE  OwnInv'
<1>0. TInv /\ Isolated
  BY DEF OwnInv
<1>1. TInv'
  BY <1>0, TypePrefill
<1>2. PICK junk, xs, ran, keys : junk \in Junk /\ Prefilled(rows, junk, xs, ran, keys)
  BY PrefillUnpacked
<1>3. UNCHANGED <<batch, fed, decodes>> /\ ready' = ready \cup rows
  BY DEF PrefillRows
<1>4. ASSUME NEW r \in Row, Serving(r)', NoPadFed(r)'
      PROVE  (decodes = 0 => Fresh(r)') /\ (Prompted(r) >= 3 => Carried(r)')
  <2>1. CASE r \in rows
    <3>1. NoPadFed(r)
      BY <1>3, <1>4 DEF NoPadFed
    <3>2. Prompted(r) >= 3 => Len(fed[r]) >= 3
      <4>1. Len(fed[r]) \in Nat /\ decodes \in Nat
        BY <1>0 DEF TInv, TypeOK, PositionsFit
      <4> QED BY <4>1 DEF Prompted
    <3> QED BY <1>0, <2>1, <3>1, <3>2, PrefillRow
  <2>2. CASE r \notin rows
    <3>1. Serving(r) /\ NoPadFed(r)
      BY <1>3, <1>4, <2>2 DEF Serving, NoPadFed
    <3>2. (decodes = 0 => Fresh(r)) /\ (Prompted(r) >= 3 => Carried(r))
      BY <1>0, <1>4, <3>1 DEF Isolated
    <3>3. rec'[r] = rec[r] /\ conv'[r] = conv[r] /\ out'[r] = out[r] /\ kv'[r] = kv[r]
      BY <1>2, <1>4, <2>2 DEF Prefilled, FillSlots
    <3> QED BY <1>3, <3>2, <3>3 DEF Carried, Fresh
  <2> QED BY <2>1, <2>2
<1>5. \A r \in Row : Prompted(r)' = Prompted(r)
  BY <1>3 DEF Prompted
<1> QED BY <1>1, <1>3, <1>4, <1>5 DEF OwnInv, Isolated

(* A decode step adds one token to every slot of the batch.                *)
LEMMA OwnDecode ==
  ASSUME ~LeftPadding, OwnInv, Decode
  PROVE  OwnInv'
<1>0. TInv /\ Isolated /\ PositionsFit /\ batch \in 0..Slots
  BY DEF OwnInv, TInv, TypeOK, PositionsFit
<1>1. TInv'
  BY <1>0, TypeDecode
<1>2. PICK tok \in [Row -> Tokens] : Decoded(tok)
  BY <1>0, DecodeUnpacked
<1>3. batch > 0 /\ UNCHANGED <<batch, ready>> /\ decodes \in Nat /\ decodes' = decodes + 1
  BY <1>0 DEF Decode, PositionsFit
<1>4. ASSUME NEW r \in Row, Serving(r)', NoPadFed(r)', Prompted(r)' >= 3
      PROVE  Carried(r)'
  <2>1. Serving(r) /\ r <= batch
    BY <1>3, <1>4 DEF Serving
  <2>2. fed[r] \in Seq(Tokens) /\ tok[r] \in Tokens /\ fed'[r] = Append(fed[r], tok[r])
    BY <1>0, <1>2, <1>4, <2>1 DEF PositionsFit, Decoded
  <2>3. /\ Len(fed'[r]) = Len(fed[r]) + 1 /\ fed'[r][Len(fed[r]) + 1] = tok[r]
        /\ \A i \in 1..Len(fed[r]) : fed'[r][i] = fed[r][i]
    BY <2>2, Appended
  <2>4. tok[r] # Pad /\ NoPadFed(r)
    <3>1. \A i \in 1..(Len(fed[r]) + 1) : fed'[r][i] # Pad
      BY <1>4, <2>3 DEF NoPadFed
    <3>2. Len(fed[r]) \in Nat
      BY <2>2
    <3> QED BY <3>1, <3>2, <2>3 DEF NoPadFed
  <2>5. Prompted(r) >= 3 /\ Len(fed[r]) >= 3
    <3>1. Len(fed[r]) \in Nat
      BY <2>2
    <3> QED BY <3>1, <1>3, <1>4, <2>3 DEF Prompted
  <2>6. Carried(r)
    BY <1>0, <1>4, <2>1, <2>4, <2>5 DEF Isolated
  <2> QED BY <1>0, <1>2, <1>3, <1>4, <2>1, <2>4, <2>5, <2>6, DecodeRow
<1>5. decodes' # 0
  BY <1>3
<1> QED BY <1>1, <1>4, <1>5 DEF OwnInv, Isolated

LEMMA OwnStep ==
  ASSUME KernelsAgree, ~LeftPadding, OwnInv, [Next]_vars
  PROVE  OwnInv'
<1>0. TInv /\ Isolated
  BY DEF OwnInv
<1>1. ASSUME Begin \/ Returns PROVE OwnInv'
  <2>1. TInv'
    BY <1>0, <1>1, TypeBegin, TypeReturns
  <2>2. ready' = {}
    BY <1>1 DEF Begin, Returns
  <2> QED BY <2>1, <2>2 DEF OwnInv, Isolated, Serving
<1>2. CASE Begin
  BY <1>1, <1>2
<1>3. CASE PrefillOne
  <2>1. /\ ~(1..batch \subseteq ready) /\ batch > 0
        /\ Cardinality(ready) \in Nat /\ Cardinality(ready) + 1 \in Row
    BY <1>0, <1>3, OneLeft DEF PrefillOne, TInv, TypeOK, PositionsFit
  <2> QED BY <1>3, <2>1, OwnPrefill DEF PrefillOne
<1>4. CASE PrefillAll
  <2>1. ready = {} /\ batch > 0 /\ batch \in Nat
    BY <1>0, <1>4, SlotsAssumption DEF PrefillAll, TInv, TypeOK, PositionsFit
  <2>2. 1 \in 1..batch
    BY <2>1
  <2> QED BY <1>4, <2>1, <2>2, OwnPrefill DEF PrefillAll
<1>5. CASE Decode
  BY <1>5, OwnDecode
<1>6. CASE Finish
  BY <1>1, <1>6 DEF Finish
<1>7. CASE PrefillRaises
  BY <1>1, <1>7 DEF PrefillRaises
<1>8. CASE UNCHANGED vars
  BY <1>8 DEF vars, OwnInv, Isolated, Fresh, Prompted, Carried, Mark, Serving, TInv, TypeOK, LayerTypeOK,
              PositionsFit, Room, Built, BuiltOf, Prompts, NoPadFed
<1> QED BY <1>2, <1>3, <1>4, <1>5, <1>6, <1>7, <1>8 DEF Next

LEMMA OwnAlways == ASSUME KernelsAgree, ~LeftPadding PROVE Spec => []OwnInv
<1>1. Init => OwnInv
  <2>1. Init => ready = {}
    BY DEF Init
  <2> QED BY <2>1, TypeInit DEF OwnInv, Isolated, Serving
<1>2. OwnInv /\ [Next]_vars => OwnInv'
  BY OwnStep
<1> QED BY <1>1, <1>2, PTL DEF Spec

(* The recurrent state of a slot that is serving is the one its own tokens *)
(* leave, whatever ran in the slot before and whatever runs beside it,     *)
(* unless prompts are padded on the left, or it decodes from a prompt of   *)
(* one or two tokens.                                                      *)
THEOREM StateIsOwnCorrect == ASSUME KernelsAgree, ~LeftPadding PROVE Spec => []StateIsOwn
<1>1. OwnInv => StateIsOwn
  <2> SUFFICES ASSUME OwnInv, NEW r \in Row, Serving(r), NoPadFed(r), decodes > 0 => Prompted(r) >= 3
               PROVE  rec[r] = Alone(fed[r]).state
    BY DEF StateIsOwn, Taps
  <2>1. decodes = 0 \/ decodes > 0
    BY DEF OwnInv, TInv, TypeOK, PositionsFit
  <2> QED BY <2>1 DEF OwnInv, Isolated, Fresh, Carried
<1> QED BY <1>1, OwnAlways, PTL

(* So is the output its next token is chosen from: the first one of every  *)
(* prompt of two tokens or more, later ones of three or more.              *)
THEOREM OutputIsOwnCorrect == ASSUME KernelsAgree, ~LeftPadding PROVE Spec => []OutputIsOwn
<1>1. OwnInv => OutputIsOwn
  <2> SUFFICES ASSUME OwnInv, NEW r \in Row, Serving(r), NoPadFed(r),
                      Prompted(r) >= (IF decodes = 0 THEN 2 ELSE 3)
               PROVE  out[r] = [p \in 0..(Len(fed[r]) - 1) |-> Mark(fed[r], p)]
    BY DEF OutputIsOwn, Mark, Taps
  <2>1. CASE decodes = 0
    <3>1. Len(fed[r]) \in Nat
      BY DEF OwnInv, TInv, TypeOK, PositionsFit
    <3>2. Len(fed[r]) >= 2
      BY <2>1, <3>1 DEF Prompted
    <3> QED BY <2>1, <3>2 DEF OwnInv, Isolated, Fresh
  <2>2. CASE decodes # 0
    BY <2>2 DEF OwnInv, Isolated, Carried
  <2> QED BY <2>1, <2>2
<1> QED BY <1>1, OwnAlways, PTL

===============================================================================
