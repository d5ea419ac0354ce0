----------------------------- MODULE ReplicaProofs ----------------------------
(***************************************************************************)
(* A replica keeps within the compiled context and within each request's   *)
(* limit, forgets nobody, gives every token to the client it is for and    *)
(* keeps what Completions promises, for every number of requests, every    *)
(* shape of the artifact and every size of a batch.                        *)
(***************************************************************************)
EXTENDS ReplicaServer, FiniteSetTheorems, SequenceTheorems, WellFoundedInduction, TLAPS

-------------------------------------------------------------------------------
(* Sequences and what they hold.                                           *)

LEMMA ElementsType ==
  ASSUME NEW S, NEW s \in Seq(S)
  PROVE  Elements(s) \in SUBSET S
  BY ElementOfSeq, LenProperties DEF Elements

LEMMA ElementsAppend ==
  ASSUME NEW S, NEW s \in Seq(S), NEW x \in S
  PROVE  Elements(Append(s, x)) = Elements(s) \cup {x}
<1>1. Len(s) \in Nat /\ DOMAIN s = 1..Len(s)
  BY LenProperties
<1>2. /\ DOMAIN Append(s, x) = 1..(Len(s) + 1)
      /\ \A i \in 1..Len(s) : Append(s, x)[i] = s[i]
      /\ Append(s, x)[Len(s) + 1] = x
  BY <1>1
<1>3. \A i \in 1..(Len(s) + 1) : i \in 1..Len(s) \/ i = Len(s) + 1
  BY <1>1
<1>4. Len(s) + 1 \in 1..(Len(s) + 1) /\ 1..Len(s) \subseteq 1..(Len(s) + 1)
  BY <1>1
<1>5. \A e : e \in Elements(Append(s, x)) <=> e \in Elements(s) \/ e = x
  BY <1>1, <1>2, <1>3, <1>4, Zenon DEF Elements
<1> QED BY <1>5

LEMMA ElementsHeadTail ==
  ASSUME NEW S, NEW s \in Seq(S), s # <<>>
  PROVE  Elements(s) = {Head(s)} \cup Elements(Tail(s))
<1>1. Len(s) \in Nat \ {0} /\ DOMAIN s = 1..Len(s)
  BY EmptySeq, LenProperties
<1>2. Tail(s) \in Seq(S) /\ Len(Tail(s)) = Len(s) - 1 /\ DOMAIN Tail(s) = 1..(Len(s) - 1)
  BY HeadTailProperties, LenProperties
<1>3. Head(s) = s[1] /\ \A i \in 1..(Len(s) - 1) : Tail(s)[i] = s[i + 1]
  BY <1>1, <1>2
<1>4. \A i \in 1..Len(s) : s[i] \in {Head(s)} \cup Elements(Tail(s))
  <2> SUFFICES ASSUME NEW i \in 1..Len(s), i # 1 PROVE s[i] \in Elements(Tail(s))
    BY <1>3
  <2>1. i - 1 \in 1..(Len(s) - 1) /\ Tail(s)[i - 1] = s[i]
    BY <1>1, <1>3
  <2> QED BY <2>1, <1>2 DEF Elements
<1>5. \A i \in 1..(Len(s) - 1) : Tail(s)[i] \in Elements(s)
  BY <1>1, <1>3 DEF Elements
<1>6. Head(s) \in Elements(s)
  BY <1>1, <1>3 DEF Elements
<1> QED BY <1>1, <1>2, <1>4, <1>5, <1>6 DEF Elements

(* What WindowEnds drains goes from the queue to the batch.                *)
LEMMA ElementsDrained ==
  ASSUME NEW S, NEW s \in Seq(S), NEW q \in Seq(S), NEW k \in 0..Len(q)
  PROVE  LET taken == s \o SubSeq(q, 1, k)
             rest == SubSeq(q, k + 1, Len(q)) IN
         /\ taken \in Seq(S) /\ rest \in Seq(S)
         /\ Len(taken) = Len(s) + k
         /\ Elements(taken) \cup Elements(rest) = Elements(s) \cup Elements(q)
         /\ Elements(s) \subseteq Elements(taken)
<1> DEFINE head == SubSeq(q, 1, k)
           rest == SubSeq(q, k + 1, Len(q))
           taken == s \o head
<1>0. Len(q) \in Nat /\ Len(s) \in Nat /\ DOMAIN q = 1..Len(q) /\ DOMAIN s = 1..Len(s)
  BY LenProperties
<1>1. head \in Seq(S) /\ Len(head) = k /\ \A i \in 1..k : head[i] = q[i]
  <2>1. \A i \in 1..k : q[i] \in S
    BY <1>0, ElementOfSeq
  <2>2. /\ head \in Seq(S) /\ Len(head) = (IF 1 <= k THEN k - 1 + 1 ELSE 0)
        /\ \A i \in 1..(k - 1 + 1) : head[i] = q[1 + i - 1]
    BY <1>0, <2>1, SubSeqProperties
  <2> HIDE DEF head
  <2> QED BY <1>0, <2>2
<1>2. /\ rest \in Seq(S) /\ Len(rest) = Len(q) - k
      /\ \A i \in 1..(Len(q) - k) : rest[i] = q[k + i]
  <2>1. \A i \in (k + 1)..Len(q) : q[i] \in S
    BY <1>0, ElementOfSeq
  <2>2. /\ rest \in Seq(S)
        /\ Len(rest) = (IF k + 1 <= Len(q) THEN Len(q) - (k + 1) + 1 ELSE 0)
        /\ \A i \in 1..(Len(q) - (k + 1) + 1) : rest[i] = q[(k + 1) + i - 1]
    BY <1>0, <2>1, SubSeqProperties
  <2> HIDE DEF rest
  <2>3. Len(q) - (k + 1) + 1 = Len(q) - k /\ Len(rest) = Len(q) - k
    <3>1. k \in Nat /\ k <= Len(q) /\ Len(q) \in Nat
      BY <1>0
    <3>2. CASE k + 1 <= Len(q)
      BY <3>1, <3>2, <2>2
    <3>3. CASE ~(k + 1 <= Len(q))
      <4>1. k = Len(q)
        BY <3>1, <3>3
      <4> QED BY <3>3, <4>1, <2>2, <3>1
    <3> QED BY <3>2, <3>3
  <2>4. ASSUME NEW i \in 1..(Len(q) - k) PROVE rest[i] = q[k + i]
    <3>1. (k + 1) + i - 1 = k + i
      BY <1>0
    <3> QED BY <3>1, <2>2, <2>3
  <2> QED BY <2>2, <2>3, <2>4
<1>3. /\ taken \in Seq(S) /\ Len(taken) = Len(s) + k
      /\ \A i \in 1..(Len(s) + k) : taken[i] = IF i <= Len(s) THEN s[i] ELSE head[i - Len(s)]
  BY <1>1, ConcatProperties
<1> HIDE DEF head, rest, taken
<1>4. DOMAIN rest = 1..(Len(q) - k) /\ DOMAIN taken = 1..(Len(s) + k)
  BY <1>2, <1>3, LenProperties
<1>5. \A i \in 1..(Len(s) + k) : taken[i] \in Elements(s) \cup Elements(q)
  <2> TAKE i \in 1..(Len(s) + k)
  <2>1. CASE i <= Len(s)
    BY <2>1, <1>0, <1>3 DEF Elements
  <2>2. CASE i > Len(s)
    <3>1. i - Len(s) \in 1..k /\ i - Len(s) \in DOMAIN q
      BY <2>2, <1>0
    <3>2. taken[i] = q[i - Len(s)]
      BY <2>2, <3>1, <1>0, <1>1, <1>3
    <3> QED BY <3>1, <3>2 DEF Elements
  <2> QED BY <2>1, <2>2, <1>0
<1>6. \A i \in 1..(Len(q) - k) : rest[i] \in Elements(q)
  <2> TAKE i \in 1..(Len(q) - k)
  <2>1. k + i \in DOMAIN q
    BY <1>0
  <2> QED BY <2>1, <1>2 DEF Elements
<1>7. \A i \in 1..Len(s) : s[i] \in Elements(taken)
  <2> TAKE i \in 1..Len(s)
  <2>1. i \in 1..(Len(s) + k) /\ taken[i] = s[i]
    BY <1>0, <1>3
  <2> QED BY <2>1, <1>4 DEF Elements
<1>8. \A i \in 1..Len(q) : q[i] \in Elements(taken) \cup Elements(rest)
  <2> TAKE i \in 1..Len(q)
  <2>1. CASE i <= k
    <3>1. /\ Len(s) + i \in 1..(Len(s) + k)
          /\ ~(Len(s) + i <= Len(s)) /\ (Len(s) + i) - Len(s) = i /\ i \in 1..k
      BY <2>1, <1>0
    <3>2. taken[Len(s) + i] = q[i]
      BY <3>1, <1>1, <1>3
    <3> QED BY <3>1, <3>2, <1>4 DEF Elements
  <2>2. CASE i > k
    <3>1. i - k \in 1..(Len(q) - k) /\ k + (i - k) = i
      BY <2>2, <1>0
    <3>2. rest[i - k] = q[i]
      BY <3>1, <1>2
    <3> QED BY <3>1, <3>2, <1>4 DEF Elements
  <2> QED BY <2>1, <2>2, <1>0
<1>9. Elements(taken) \cup Elements(rest) = Elements(s) \cup Elements(q)
  BY <1>0, <1>4, <1>5, <1>6, <1>7, <1>8 DEF Elements
<1>10. Elements(s) \subseteq Elements(taken)
  BY <1>0, <1>7 DEF Elements
<1> QED BY <1>2, <1>3, <1>9, <1>10 DEF head, rest, taken

(* The largest of a bounded set of numbers.                                *)
LEMMA MostIsMost ==
  ASSUME NEW S \in SUBSET Nat, S # {}, NEW b \in Nat, \A n \in S : n <= b
  PROVE  Most(S) \in S /\ \A n \in S : n <= Most(S)
<1> DEFINE T == {1..(b - n) : n \in S}
<1>1. \A n \in S : IsFiniteSet(1..(b - n)) /\ 1..(b - n) \in SUBSET Nat
  BY FS_Interval
<1>2. T \subseteq FiniteSubsetsOf(Nat) /\ T # {}
  BY <1>1 DEF FiniteSubsetsOf
<1>3. \E x \in T : \A y \in T : ~ (<<y, x>> \in StrictSubsetOrdering(Nat))
  BY <1>2, FS_StrictSubsetOrderingWellFounded, WFMin
<1>4. PICK m \in S : \A n \in S : ~ (<<1..(b - n), 1..(b - m)>> \in StrictSubsetOrdering(Nat))
  BY <1>3
<1>5. ASSUME NEW n \in S, m < n PROVE FALSE
  <2>1. b - m \in 1..(b - m) /\ b - m \notin 1..(b - n) /\ 1..(b - n) \subseteq 1..(b - m)
    BY <1>5
  <2> QED BY <2>1, <1>1, <1>4 DEF StrictSubsetOrdering
<1>6. \E m1 \in S : \A n \in S : n <= m1
  BY <1>5
<1> QED BY <1>6 DEF Most

-------------------------------------------------------------------------------
(* The invariant.                                                          *)

(* What is queued or decoded has been admitted, and fits.                  *)
Admitted == \A r \in Elements(queue) \cup Elements(batch) : Admissible(r)

(* A row that goes on is below its limit.                                  *)
RowLimits ==
    \A r \in Requests :
        /\ rows[r].tokens > 0 => rows[r].tokens <= Limit(r)
        /\ ~rows[r].done /\ rows[r].tokens > 0 => rows[r].tokens < Limit(r)

(* The return of the thread is the last of the callbacks, and the loop     *)
(* waits for it: nothing else takes the batch from the thread.             *)
CallsInOrder ==
    \/ calls \in Seq(Post)
    \/ /\ thread = "off" /\ loop \in {"decode", "stopped"}
       /\ \E posts \in Seq(Post), end \in Return : calls = Append(posts, end)

Decoding ==
    /\ loop = "idle" => batch = <<>>
    /\ loop \in {"window", "decode"} => batch # <<>>
    /\ thread = "decode" =>
          /\ loop \in {"decode", "stopped"} /\ batch # <<>>
          /\ step = 0 \/ step <= Budget

Stopped == loop = "stopped" => ~serving

IInv ==
    /\ TypeOK /\ Admitted /\ RowLimits
    /\ CallsInOrder /\ Decoding /\ Stopped
    /\ NoRequestLost

(* What an admitted request may have.                                      *)
LEMMA AdmissibleLimit ==
  ASSUME TypeOK, NEW r \in Requests
  PROVE  /\ Limit(r) \in Int /\ ask[r].prompt \in Nat
         /\ Admissible(r) => /\ ask[r].prompt \in 1..MaxContext
                             /\ ask[r].prompt + 1 <= SeqLen - 1
                             /\ Limit(r) \in Nat \ {0} /\ Limit(r) <= SeqLen
<1>1. ask[r].prompt \in Nat /\ ask[r].tokens \in Nat \ {0}
  BY AsksAssumption DEF TypeOK, Ask
<1> QED BY <1>1, ShapeAssumption DEF Admissible, Limit, Room, Lesser

(* The prompts of a batch and what it may decode fit seq_len together.     *)
LEMMA BudgetFits ==
  ASSUME TypeOK, Admitted, batch # <<>>
  PROVE  Budget \in Nat /\ Padded \in Nat /\ Padded + Budget < SeqLen
<1> DEFINE P == {ask[r].prompt : r \in Elements(batch)}
           M == {Limit(r) : r \in Elements(batch)}
<1>1. Elements(batch) \in SUBSET Requests /\ Elements(batch) # {}
  <2>1. batch \in Seq(Requests)
    BY DEF TypeOK
  <2>2. Elements(batch) = {Head(batch)} \cup Elements(Tail(batch))
    BY <2>1, ElementsHeadTail
  <2> QED BY <2>1, <2>2, ElementsType
<1>2. \A r \in Elements(batch) : /\ ask[r].prompt \in Nat /\ ask[r].prompt + 1 <= SeqLen - 1
                                  /\ Limit(r) \in Nat /\ Limit(r) <= SeqLen
  BY <1>1, AdmissibleLimit, ShapeAssumption DEF Admitted
<1>3. SeqLen \in Nat
  BY ShapeAssumption
<1>4. Most(P) \in P
  <2>1. P \in SUBSET Nat /\ P # {} /\ \A n \in P : n <= SeqLen
    BY <1>1, <1>2, <1>3
  <2> QED BY <2>1, <1>3, MostIsMost
<1>5. Most(M) \in M
  <2>1. M \in SUBSET Nat /\ M # {} /\ \A n \in M : n <= SeqLen
    BY <1>1, <1>2, <1>3
  <2> QED BY <2>1, <1>3, MostIsMost
<1>6. Padded \in Nat /\ Padded + 1 <= SeqLen - 1
  BY <1>2, <1>4 DEF Padded
<1>7. Most(M) \in Nat
  BY <1>2, <1>5
<1> QED BY <1>3, <1>6, <1>7 DEF Budget, Lesser

(* What one sample does to a row.                                          *)
LEMMA SteppedRow ==
  ASSUME TypeOK, RowLimits, NEW r \in Requests, Admissible(r), NEW sample \in SampleKinds
  PROVE  /\ Stepped(r, sample) \in [tokens: Nat, done: BOOLEAN, reason: Reasons]
         /\ Stepped(r, sample).tokens > 0 => Stepped(r, sample).tokens <= Limit(r)
         /\ ~Stepped(r, sample).done /\ Stepped(r, sample).tokens > 0
                => Stepped(r, sample).tokens < Limit(r)
<1>1. rows[r] \in [tokens: Nat, done: BOOLEAN, reason: Reasons]
  BY DEF TypeOK
<1>2. Limit(r) \in Nat \ {0}
  BY AdmissibleLimit
<1>3. CASE Appends(r, sample)
  <2>1. Stepped(r, sample) = [rows[r] EXCEPT !.tokens = rows[r].tokens + 1,
                                             !.done = (rows[r].tokens + 1 >= Limit(r))]
    BY <1>3 DEF Stepped
  <2>2. ~rows[r].done
    BY <1>3 DEF Appends
  <2>3. rows[r].tokens \in Nat /\ rows[r].tokens + 1 <= Limit(r)
    BY <1>1, <1>2, <2>2 DEF RowLimits
  <2>4. /\ Stepped(r, sample).tokens = rows[r].tokens + 1
        /\ Stepped(r, sample).done = (rows[r].tokens + 1 >= Limit(r))
        /\ Stepped(r, sample) \in [tokens: Nat, done: BOOLEAN, reason: Reasons]
    <3> DEFINE n == rows[r].tokens + 1
               over == n >= Limit(r)
    <3>1. n \in Nat /\ over \in BOOLEAN
      BY <2>3
    <3>2. Stepped(r, sample) = [rows[r] EXCEPT !.tokens = n, !.done = over]
      BY <2>1
    <3> HIDE DEF n, over
    <3>3. /\ Stepped(r, sample) \in [tokens: Nat, done: BOOLEAN, reason: Reasons]
          /\ Stepped(r, sample).tokens = n /\ Stepped(r, sample).done = over
      BY <1>1, <3>1, <3>2
    <3> QED BY <3>3 DEF n, over
  <2>5. ~Stepped(r, sample).done => rows[r].tokens + 1 < Limit(r)
    BY <1>2, <2>3, <2>4
  <2> QED BY <2>3, <2>4, <2>5
<1>4. CASE ~Appends(r, sample) /\ rows[r].done
  BY <1>1, <1>4 DEF Stepped, RowLimits
<1>5. CASE ~Appends(r, sample) /\ ~rows[r].done
  <2>1. Stepped(r, sample) = [rows[r] EXCEPT !.done = TRUE,
                                 !.reason = IF sample = "invalid" THEN "error" ELSE "stop"]
    BY <1>5 DEF Stepped
  <2> QED BY <1>1, <1>2, <2>1 DEF RowLimits, Reasons
<1> QED BY <1>3, <1>4, <1>5

(* What one step posts to the event loop.                                  *)
LEMMA PostedType ==
  ASSUME TypeOK, NEW samples \in [Elements(batch) -> Samples],
         NEW heard \in InOrder(Hearing(samples))
  PROVE  [n \in 1..Cardinality(Hearing(samples)) |->
             [to |-> batch[heard[n]], what |-> samples[batch[heard[n]]]]] \in Seq(Post)
<1> DEFINE count == Cardinality(Hearing(samples))
<1>1. batch \in [1..Len(batch) -> Requests] /\ Len(batch) \in Nat
  BY LenProperties DEF TypeOK
<1>2. Hearing(samples) \in SUBSET (1..Len(batch))
  BY <1>1 DEF Hearing
<1>3. count \in Nat
  <2>1. IsFiniteSet(1..Len(batch))
    BY <1>1, FS_Interval
  <2>2. IsFiniteSet(Hearing(samples))
    BY <1>2, <2>1, FS_Subset
  <2> QED BY <2>2, FS_CardinalityType
<1>4. heard \in [1..count -> Hearing(samples)]
  BY DEF InOrder
<1>5. ASSUME NEW n \in 1..count
      PROVE  [to |-> batch[heard[n]], what |-> samples[batch[heard[n]]]] \in Post
  <2>1. heard[n] \in Hearing(samples)
    BY <1>4
  <2>2. batch[heard[n]] \in Requests
    BY <1>1, <1>2, <2>1
  <2>3. samples[batch[heard[n]]] \in {"whole", "part", "eos"}
    BY <2>1 DEF Hearing, Appends
  <2> QED BY <2>2, <2>3 DEF Post
<1> HIDE DEF count
<1>6. [n \in 1..count |-> [to |-> batch[heard[n]], what |-> samples[batch[heard[n]]]]]
          \in [1..count -> Post]
  BY <1>5
<1>7. [1..count -> Post] \subseteq Seq(Post)
  BY <1>3, SeqDef
<1> QED BY <1>6, <1>7 DEF count

-------------------------------------------------------------------------------
(* Each step keeps the invariant.                                          *)

LEMMA AdmittedKept ==
  ASSUME Admitted, ask' = ask,
         Elements(queue') \cup Elements(batch') \subseteq Elements(queue) \cup Elements(batch)
  PROVE  Admitted'
  BY DEF Admitted, Admissible, Room

LEMMA RowLimitsKept ==
  ASSUME RowLimits, UNCHANGED <<ask, rows>>
  PROVE  RowLimits'
  BY DEF RowLimits, Limit, Room

LEMMA BudgetKept ==
  ASSUME UNCHANGED <<ask, batch>>
  PROVE  Budget' = Budget
  BY Zenon DEF Budget, Padded, Limit, Room

LEMMA InitInv == Init => IInv
<1> SUFFICES ASSUME Init PROVE IInv
  OBVIOUS
<1>1. TypeOK
  BY ShapeAssumption, EmptySeq DEF Init, TypeOK, Statuses, Reasons
<1>2. Elements(queue) = {} /\ Elements(batch) = {}
  BY DEF Init, Elements
<1>3. Admitted /\ RowLimits
  BY <1>2 DEF Init, Admitted, RowLimits
<1>4. CallsInOrder /\ Decoding /\ Stopped /\ NoRequestLost
  BY EmptySeq DEF Init, CallsInOrder, Decoding, Stopped, NoRequestLost
<1> QED BY <1>1, <1>3, <1>4 DEF IInv

LEMMA ArriveInv == ASSUME IInv, NEW r \in Requests, Arrive(r) PROVE IInv'
<1>1. /\ queue \in Seq(Requests)
      /\ Elements(Append(queue, r)) = Elements(queue) \cup {r}
  BY ElementsAppend DEF IInv, TypeOK
<1>2. CASE Admissible(r)
  <2>1. TypeOK'
    <3>1. queue' = Append(queue, r) /\ status' = [status EXCEPT ![r] = "waiting"]
      BY <1>2 DEF Arrive
    <3>2. queue' \in Seq(Requests)
      BY <1>1, <3>1, AppendProperties
    <3>3. status' \in [Requests -> Statuses]
      BY <3>1 DEF IInv, TypeOK, Statuses
    <3> QED BY <3>2, <3>3 DEF IInv, TypeOK, Arrive
  <2>2. Admitted'
    BY <1>1, <1>2 DEF IInv, Admitted, Admissible, Room, Arrive
  <2>3. NoRequestLost'
    BY <1>1, <1>2 DEF IInv, TypeOK, NoRequestLost, Stopped, Arrive
  <2> QED BY <2>1, <2>2, <2>3, RowLimitsKept, BudgetKept
          DEF IInv, CallsInOrder, Decoding, Stopped, Arrive
<1>3. CASE ~Admissible(r)
  <2>1. TypeOK'
    BY <1>3 DEF IInv, TypeOK, Arrive, Statuses
  <2>2. Admitted'
    BY <1>3, AdmittedKept DEF IInv, Arrive
  <2>3. NoRequestLost'
    BY <1>3 DEF IInv, TypeOK, NoRequestLost, Arrive
  <2> QED BY <2>1, <2>2, <2>3, RowLimitsKept, BudgetKept
          DEF IInv, CallsInOrder, Decoding, Stopped, Arrive
<1> QED BY <1>2, <1>3

LEMMA ClientLeavesInv == ASSUME IInv, NEW r \in Requests, ClientLeaves(r) PROVE IInv'
<1>1. TypeOK'
  BY DEF IInv, TypeOK, ClientLeaves, Statuses
<1>2. NoRequestLost'
  BY DEF IInv, TypeOK, NoRequestLost, ClientLeaves
<1> QED BY <1>1, <1>2, AdmittedKept, RowLimitsKept, BudgetKept
        DEF IInv, CallsInOrder, Decoding, Stopped, ClientLeaves

LEMMA SseReadsInv == ASSUME IInv, NEW r \in Requests, SseReads(r) PROVE IInv'
<1>1. /\ stream[r] \in Seq(StreamEvents) /\ stream[r] # <<>>
      /\ got[r] \in [read: Nat, sent: Nat]
  BY DEF IInv, TypeOK, SseReads
<1>2. /\ Tail(stream[r]) \in Seq(StreamEvents)
      /\ Elements(stream[r]) = {Head(stream[r])} \cup Elements(Tail(stream[r]))
  BY <1>1, ElementsHeadTail, HeadTailProperties
<1>3. stream' \in [Requests -> Seq(StreamEvents)]
  BY <1>2 DEF IInv, TypeOK, SseReads
<1>4. got' \in [Requests -> [read: Nat, sent: Nat]] /\ status' \in [Requests -> Statuses]
  <2>1. got[r].read + 1 \in Nat
    BY <1>1
  <2>2. CASE Head(stream[r]) \in {"done", "error"}
    BY <2>2 DEF IInv, TypeOK, SseReads, Statuses
  <2>3. CASE Head(stream[r]) \notin {"done", "error"}
    <3>1. \/ got' = [got EXCEPT ![r] = [read |-> got[r].read + 1, sent |-> got[r].read + 1]]
          \/ got' = [got EXCEPT ![r].read = got[r].read + 1]
      BY <2>3 DEF SseReads
    <3>2. UNCHANGED status
      BY <2>3 DEF SseReads
    <3>3. CASE got' = [got EXCEPT ![r] = [read |-> got[r].read + 1, sent |-> got[r].read + 1]]
      BY <2>1, <3>2, <3>3 DEF IInv, TypeOK
    <3>4. CASE got' = [got EXCEPT ![r].read = got[r].read + 1]
      <4>1. got' = [got EXCEPT ![r] = [got[r] EXCEPT !.read = got[r].read + 1]]
        BY <3>4
      <4>2. [got[r] EXCEPT !.read = got[r].read + 1] \in [read: Nat, sent: Nat]
        BY <1>1, <2>1
      <4> HIDE <3>4
      <4> QED BY <4>1, <4>2, <3>2 DEF IInv, TypeOK
    <3> QED BY <3>1, <3>3, <3>4
  <2> QED BY <2>2, <2>3
<1>5. TypeOK'
  BY <1>3, <1>4 DEF IInv, TypeOK, SseReads
<1>6. NoRequestLost'
  <2> SUFFICES ASSUME NEW q \in Requests, status'[q] = "waiting"
               PROVE  /\ loop # "stopped"
                      /\ \/ q \in Elements(queue) \cup Elements(batch)
                         \/ /\ ask[q].stream
                            /\ Elements(stream'[q]) \cap {"done", "error"} # {}
    BY DEF NoRequestLost, SseReads
  <2>1. status[q] = "waiting"
    BY DEF IInv, TypeOK, SseReads
  <2>2. CASE q = r
    <3>1. Head(stream[r]) \notin {"done", "error"}
      BY <2>2 DEF IInv, TypeOK, SseReads
    <3>2. stream'[q] = Tail(stream[r])
      BY <2>2 DEF IInv, TypeOK, SseReads
    <3> QED BY <1>2, <2>1, <2>2, <3>1, <3>2 DEF IInv, NoRequestLost
  <2>3. CASE q # r
    <3>1. stream'[q] = stream[q]
      BY <2>3 DEF IInv, TypeOK, SseReads
    <3> QED BY <2>1, <3>1 DEF IInv, NoRequestLost
  <2> QED BY <2>2, <2>3
<1> QED BY <1>5, <1>6, AdmittedKept, RowLimitsKept, BudgetKept
        DEF IInv, CallsInOrder, Decoding, Stopped, SseReads

LEMMA LoopTakesFirstInv == ASSUME IInv, LoopTakesFirst PROVE IInv'
<1>1. queue \in Seq(Requests) /\ queue # <<>> /\ batch = <<>> /\ loop = "idle"
  BY DEF IInv, TypeOK, Decoding, LoopTakesFirst
<1>2. /\ Head(queue) \in Requests /\ Tail(queue) \in Seq(Requests)
      /\ Elements(queue) = {Head(queue)} \cup Elements(Tail(queue))
  BY <1>1, ElementsHeadTail, HeadTailProperties
<1>3. batch' = <<Head(queue)>> /\ queue' = Tail(queue)
  BY DEF LoopTakesFirst
<1>4. Elements(batch) = {} /\ Elements(batch') = {Head(queue)}
  BY <1>1, <1>2, <1>3 DEF Elements
<1>5. batch' \in Seq(Requests) /\ Len(batch') = 1 /\ batch' # <<>>
  BY <1>2, <1>3
<1>6. Elements(queue') \cup Elements(batch') = Elements(queue) \cup Elements(batch)
  BY <1>2, <1>3, <1>4
<1>7. TypeOK'
  BY <1>2, <1>3, <1>5, ShapeAssumption DEF IInv, TypeOK, LoopTakesFirst
<1>8. NoRequestLost'
  BY <1>6 DEF IInv, NoRequestLost, LoopTakesFirst
<1>9. thread # "decode"
  BY <1>1 DEF IInv, Decoding
<1>10. CallsInOrder' /\ Decoding' /\ Stopped'
  BY <1>1, <1>5, <1>9 DEF IInv, CallsInOrder, Decoding, Stopped, LoopTakesFirst
<1>11. Admitted' /\ RowLimits'
  BY <1>6, AdmittedKept, RowLimitsKept DEF IInv, LoopTakesFirst
<1> QED BY <1>7, <1>8, <1>10, <1>11 DEF IInv

LEMMA WindowTakesInv == ASSUME IInv, WindowTakes PROVE IInv'
<1>1. /\ queue \in Seq(Requests) /\ queue # <<>> /\ batch \in Seq(Requests)
      /\ Len(batch) < MaxBatch /\ loop = "window"
  BY DEF IInv, TypeOK, WindowTakes
<1>2. /\ Head(queue) \in Requests /\ Tail(queue) \in Seq(Requests)
      /\ Elements(queue) = {Head(queue)} \cup Elements(Tail(queue))
  BY <1>1, ElementsHeadTail, HeadTailProperties
<1>3. batch' = Append(batch, Head(queue)) /\ queue' = Tail(queue)
  BY DEF WindowTakes
<1>4. Elements(batch') = Elements(batch) \cup {Head(queue)}
  BY <1>1, <1>2, <1>3, ElementsAppend
<1>5. batch' \in Seq(Requests) /\ Len(batch') = Len(batch) + 1 /\ batch' # <<>>
  BY <1>1, <1>2, <1>3, AppendProperties
<1>6. Elements(queue') \cup Elements(batch') = Elements(queue) \cup Elements(batch)
  BY <1>2, <1>3, <1>4
<1>7. TypeOK'
  <2>1. Len(batch') <= MaxBatch
    BY <1>1, <1>5, ShapeAssumption, LenProperties
  <2> QED BY <1>2, <1>3, <1>5, <2>1 DEF IInv, TypeOK, WindowTakes
<1>8. NoRequestLost'
  BY <1>6 DEF IInv, NoRequestLost, WindowTakes
<1>9. thread # "decode"
  BY <1>1 DEF IInv, Decoding
<1>10. CallsInOrder' /\ Decoding' /\ Stopped'
  BY <1>1, <1>5, <1>9 DEF IInv, CallsInOrder, Decoding, Stopped, WindowTakes
<1>11. Admitted' /\ RowLimits'
  BY <1>6, AdmittedKept, RowLimitsKept DEF IInv, WindowTakes
<1> QED BY <1>7, <1>8, <1>10, <1>11 DEF IInv

LEMMA WindowEndsInv == ASSUME IInv, WindowEnds PROVE IInv'
<1>1. /\ queue \in Seq(Requests) /\ batch \in Seq(Requests)
      /\ Len(batch) <= MaxBatch /\ batch # <<>> /\ loop = "window"
  BY DEF IInv, TypeOK, Decoding, WindowEnds
<1>2. PICK k \in {0, Lesser(MaxBatch - Len(batch), Len(queue))} :
          /\ batch' = batch \o SubSeq(queue, 1, k)
          /\ queue' = SubSeq(queue, k + 1, Len(queue))
  BY DEF WindowEnds
<1>3. k \in 0..Len(queue) /\ Len(batch) + k <= MaxBatch
  <2>1. Len(queue) \in Nat /\ Len(batch) \in Nat /\ MaxBatch \in Nat
    BY <1>1, ShapeAssumption, LenProperties
  <2> QED BY <1>1, <1>2, <2>1 DEF Lesser
<1>4. /\ batch' \in Seq(Requests) /\ queue' \in Seq(Requests) /\ Len(batch') = Len(batch) + k
      /\ Elements(batch') \cup Elements(queue') = Elements(batch) \cup Elements(queue)
  BY <1>1, <1>2, <1>3, ElementsDrained
<1>5. batch' # <<>>
  <2>1. Len(batch) \in Nat \ {0}
    BY <1>1, EmptySeq, LenProperties
  <2>2. Len(batch') > 0
    BY <1>3, <1>4, <2>1
  <2> QED BY <2>2, <1>4, EmptySeq
<1>6. TypeOK'
  BY <1>3, <1>4 DEF IInv, TypeOK, WindowEnds
<1>7. NoRequestLost'
  BY <1>4 DEF IInv, NoRequestLost, WindowEnds
<1>8. calls \in Seq(Post)
  BY <1>1 DEF IInv, CallsInOrder
<1>9. CallsInOrder' /\ Decoding' /\ Stopped'
  BY <1>5, <1>8 DEF CallsInOrder, Decoding, Stopped, WindowEnds
<1>10. Admitted' /\ RowLimits'
  BY <1>4, AdmittedKept, RowLimitsKept DEF IInv, WindowEnds
<1> QED BY <1>6, <1>7, <1>9, <1>10 DEF IInv

LEMMA DecodeStepInv == ASSUME IInv, DecodeStep PROVE IInv'
<1>1. thread = "decode" /\ step < Budget /\ step' = step + 1 /\ batch # <<>>
  BY DEF IInv, Decoding, DecodeStep, Generating
<1>2. calls \in Seq(Post)
  BY <1>1 DEF IInv, CallsInOrder
<1>3. PICK samples \in [Elements(batch) -> Samples] :
         /\ rows' = [r \in Requests |->
                        IF r \in Elements(batch) THEN Stepped(r, samples[r]) ELSE rows[r]]
         /\ \E heard \in InOrder(Hearing(samples)) :
               calls' = calls \o [n \in 1..Cardinality(Hearing(samples)) |->
                           [to |-> batch[heard[n]], what |-> samples[batch[heard[n]]]]]
  BY DEF DecodeStep
<1>4. ASSUME NEW r \in Elements(batch) PROVE samples[r] \in SampleKinds /\ Admissible(r)
  BY SamplesAssumption DEF IInv, Admitted
<1>5. calls' \in Seq(Post)
  <2>1. PICK heard \in InOrder(Hearing(samples)) :
               calls' = calls \o [n \in 1..Cardinality(Hearing(samples)) |->
                           [to |-> batch[heard[n]], what |-> samples[batch[heard[n]]]]]
    BY <1>3
  <2>2. [n \in 1..Cardinality(Hearing(samples)) |->
             [to |-> batch[heard[n]], what |-> samples[batch[heard[n]]]]] \in Seq(Post)
    BY PostedType DEF IInv
  <2> QED BY <1>2, <2>1, <2>2, ConcatProperties
<1>6. rows' \in [Requests -> [tokens: Nat, done: BOOLEAN, reason: Reasons]]
  <2>1. \A r \in Requests : rows[r] \in [tokens: Nat, done: BOOLEAN, reason: Reasons]
    BY DEF IInv, TypeOK
  <2>2. \A r \in Requests : r \in Elements(batch) =>
           Stepped(r, samples[r]) \in [tokens: Nat, done: BOOLEAN, reason: Reasons]
    BY <1>4, SteppedRow DEF IInv
  <2> QED BY <1>3, <2>1, <2>2
<1>7. RowLimits'
  <2> SUFFICES ASSUME NEW r \in Requests
               PROVE  /\ rows'[r].tokens > 0 => rows'[r].tokens <= Limit(r)
                      /\ ~rows'[r].done /\ rows'[r].tokens > 0 => rows'[r].tokens < Limit(r)
    BY DEF RowLimits, Limit, Room, DecodeStep
  <2>1. CASE r \in Elements(batch)
    BY <1>3, <1>4, <2>1, SteppedRow DEF IInv
  <2>2. CASE r \notin Elements(batch)
    BY <1>3, <2>2 DEF IInv, RowLimits
  <2> QED BY <2>1, <2>2
<1>8. Decoding'
  <2>1. Budget' = Budget
    BY BudgetKept DEF DecodeStep
  <2>2. Budget \in Nat /\ step \in Nat
    BY <1>1, BudgetFits DEF IInv, TypeOK
  <2>3. step' <= Budget'
    BY <1>1, <2>1, <2>2
  <2> QED BY <2>3 DEF IInv, Decoding, DecodeStep
<1>9. TypeOK'
  <2>1. step' \in Nat
    BY <1>1 DEF IInv, TypeOK
  <2>2. calls' \in Seq(Post \cup Return)
    BY <1>5
  <2> QED BY <1>6, <2>1, <2>2 DEF IInv, TypeOK, DecodeStep
<1>10. Admitted'
  BY AdmittedKept DEF IInv, DecodeStep
<1>11. CallsInOrder' /\ Stopped' /\ NoRequestLost'
  BY <1>5 DEF IInv, CallsInOrder, Stopped, NoRequestLost, DecodeStep
<1> QED BY <1>7, <1>8, <1>9, <1>10, <1>11 DEF IInv

LEMMA ThreadEndsInv == ASSUME IInv, ThreadReturns \/ DeviceFails PROVE IInv'
<1>1. thread = "decode" /\ loop \in {"decode", "stopped"} /\ calls \in Seq(Post)
  BY DEF IInv, CallsInOrder, Decoding, ThreadReturns, DeviceFails
<1>2. PICK end \in Return : calls' = Append(calls, end)
  BY DEF Return, ThreadReturns, DeviceFails
<1>3. TypeOK'
  <2>1. calls \in Seq(Post \cup Return)
    BY DEF IInv, TypeOK
  <2>2. calls' \in Seq(Post \cup Return)
    BY <1>2, <2>1, AppendProperties
  <2> QED BY <2>2 DEF IInv, TypeOK, ThreadReturns, DeviceFails
<1>4. CallsInOrder'
  BY <1>1, <1>2 DEF CallsInOrder, ThreadReturns, DeviceFails
<1>5. Admitted' /\ RowLimits'
  BY AdmittedKept, RowLimitsKept DEF IInv, ThreadReturns, DeviceFails
<1>6. Decoding' /\ Stopped' /\ NoRequestLost'
  BY DEF IInv, Decoding, Stopped, NoRequestLost, ThreadReturns, DeviceFails
<1> QED BY <1>3, <1>4, <1>5, <1>6 DEF IInv

(* The callbacks are what the thread posted, then its return.              *)
LEMMA PostsThenReturn ==
  ASSUME NEW posts \in Seq(Post), NEW end \in Return
  PROVE  /\ posts = <<>> => /\ Head(Append(posts, end)) = end
                            /\ Tail(Append(posts, end)) = <<>>
         /\ posts # <<>> => /\ Head(Append(posts, end)) \in Post
                            /\ Tail(posts) \in Seq(Post)
                            /\ Tail(Append(posts, end)) = Append(Tail(posts), end)
<1> DEFINE T == Post \cup Return
<1>1. posts \in Seq(T) /\ end \in T
  OBVIOUS
<1>2. CASE posts = <<>>
  <2>1. Append(posts, end) = <<end>>
    BY <1>2
  <2> QED BY <1>2, <2>1
<1>3. CASE posts # <<>>
  <2>1. Head(posts) \in Post /\ Tail(posts) \in Seq(Post)
    BY <1>3, HeadTailProperties
  <2>2. /\ Head(Append(posts, end)) = Head(posts)
        /\ Tail(Append(posts, end)) = Append(Tail(posts), end)
    BY <1>1, <1>3, HeadTailAppend
  <2> QED BY <1>3, <2>1, <2>2
<1> QED BY <1>2, <1>3

LEMMA Kinds ==
  /\ \A call \in Post : /\ call.to \in Requests /\ call.what \in {"whole", "part", "eos"}
                        /\ call.what \notin {"returned", "raised"}
  /\ \A call \in Return : /\ call.what \in {"returned", "raised"}
                          /\ call.what \notin {"whole", "part", "eos"}
  BY DEF Post, Return

LEMMA TokenReachesStreamInv == ASSUME IInv, TokenReachesStream PROVE IInv'
<1> DEFINE call == Head(calls)
<1>1. calls # <<>> /\ calls \in Seq(Post \cup Return) /\ call.what \in {"whole", "part", "eos"}
  BY DEF IInv, TypeOK, TokenReachesStream
<1>2. call \in Post \cup Return /\ calls' = Tail(calls) /\ calls' \in Seq(Post \cup Return)
  BY <1>1, HeadTailProperties DEF TokenReachesStream
<1>3. call.to \in Requests
  BY <1>1, <1>2, Kinds
<1>4. stream' = [stream EXCEPT ![call.to] = Append(@, call.what)]
  BY DEF TokenReachesStream
<1> DEFINE to == call.to
           longer == Append(stream[to], call.what)
<1>5. /\ longer \in Seq(StreamEvents)
      /\ Elements(longer) = Elements(stream[to]) \cup {call.what}
  <2>1. stream[to] \in Seq(StreamEvents) /\ call.what \in StreamEvents
    BY <1>1, <1>3 DEF IInv, TypeOK, StreamEvents
  <2> QED BY <2>1, AppendProperties, ElementsAppend
<1>6. stream' = [stream EXCEPT ![to] = longer]
  BY <1>4
<1> HIDE DEF to, longer
<1>7. TypeOK'
  <2>1. stream \in [Requests -> Seq(StreamEvents)]
    BY DEF IInv, TypeOK
  <2>2. stream' \in [Requests -> Seq(StreamEvents)]
    BY <1>5, <1>6, <2>1
  <2>3. UNCHANGED <<ask, status, queue, batch, loop, thread, step, rows, got, serving>>
    BY DEF TokenReachesStream
  <2> QED BY <1>2, <2>2, <2>3 DEF IInv, TypeOK
<1>8. NoRequestLost'
  <2>1. \A r \in Requests : Elements(stream[r]) \subseteq Elements(stream'[r])
    <3> TAKE r \in Requests
    <3>1. CASE r = to
      <4>1. stream'[r] = longer
        BY <1>6, <3>1 DEF IInv, TypeOK
      <4> QED BY <1>5, <3>1, <4>1
    <3>2. CASE r # to
      BY <1>6, <3>2 DEF IInv, TypeOK
    <3> QED BY <3>1, <3>2
  <2> QED BY <2>1 DEF IInv, NoRequestLost, TokenReachesStream
<1>9. CallsInOrder'
  <2>1. CASE calls \in Seq(Post)
    <3>1. calls' \in Seq(Post)
      BY <1>1, <1>2, <2>1, HeadTailProperties
    <3> QED BY <3>1 DEF CallsInOrder
  <2>2. CASE calls \notin Seq(Post)
    <3>1. PICK posts \in Seq(Post), end \in Return : calls = Append(posts, end)
      BY <2>2 DEF IInv, CallsInOrder
    <3>2. posts # <<>>
      BY <1>1, <3>1, PostsThenReturn, Kinds
    <3>3. Tail(posts) \in Seq(Post) /\ calls' = Append(Tail(posts), end)
      BY <1>2, <3>1, <3>2, PostsThenReturn
    <3> QED BY <2>2, <3>3 DEF IInv, CallsInOrder, TokenReachesStream
  <2> QED BY <2>1, <2>2
<1>10. Decoding' /\ Stopped'
  <2>1. Budget' = Budget
    BY BudgetKept DEF TokenReachesStream
  <2> QED BY <2>1 DEF IInv, Decoding, Stopped, TokenReachesStream
<1>11. Admitted' /\ RowLimits'
  BY AdmittedKept, RowLimitsKept DEF IInv, TokenReachesStream
<1> QED BY <1>7, <1>8, <1>9, <1>10, <1>11 DEF IInv

LEMMA BatchResumesInv == ASSUME IInv, BatchResumes PROVE IInv'
<1> DEFINE failed == Head(calls).what = "raised"
           end == IF failed THEN "error" ELSE "done"
           answer == IF failed THEN "failed" ELSE "ok"
<1>1. /\ calls # <<>> /\ calls \in Seq(Post \cup Return) /\ calls' = Tail(calls)
      /\ Head(calls).what \in {"returned", "raised"} /\ loop # "stopped"
  BY DEF IInv, TypeOK, BatchResumes
<1>2. thread = "off" /\ calls' = <<>>
  <2>1. calls \notin Seq(Post)
    BY <1>1, HeadTailProperties, Kinds
  <2>2. thread = "off"
    BY <2>1 DEF IInv, CallsInOrder
  <2>3. PICK posts \in Seq(Post), last \in Return : calls = Append(posts, last)
    BY <2>1 DEF IInv, CallsInOrder
  <2>4. posts = <<>>
    BY <1>1, <2>3, PostsThenReturn, Kinds
  <2> QED BY <1>1, <2>2, <2>3, <2>4, PostsThenReturn
<1>3. stream' = [r \in Requests |-> IF r \in Elements(batch) /\ ask[r].stream
                                   THEN Append(stream[r], end) ELSE stream[r]]
  BY DEF BatchResumes
<1>4. status' = [r \in Requests |-> IF r \in Elements(batch) /\ ~ask[r].stream
                                   THEN answer ELSE status[r]]
  BY DEF BatchResumes
<1>5. end \in {"done", "error"} /\ answer \in {"ok", "failed"}
  OBVIOUS
<1> HIDE DEF failed, end, answer
<1>6. \A r \in Requests :
         /\ stream[r] \in Seq(StreamEvents)
         /\ Append(stream[r], end) \in Seq(StreamEvents)
         /\ Elements(Append(stream[r], end)) = Elements(stream[r]) \cup {end}
  <2> TAKE r \in Requests
  <2>1. stream[r] \in Seq(StreamEvents) /\ end \in StreamEvents
    BY <1>5 DEF IInv, TypeOK, StreamEvents
  <2> QED BY <2>1, AppendProperties, ElementsAppend
<1>7. batch' = <<>> /\ loop' = "idle" /\ Elements(batch') = {}
  BY DEF BatchResumes, Elements
<1>8. TypeOK'
  <2>1. stream' \in [Requests -> Seq(StreamEvents)]
    BY <1>3, <1>6
  <2>2. status' \in [Requests -> Statuses]
    BY <1>4, <1>5 DEF IInv, TypeOK, Statuses
  <2>3. batch' \in Seq(Requests) /\ Len(batch') <= MaxBatch
    BY <1>7, ShapeAssumption
  <2>4. calls' \in Seq(Post \cup Return)
    BY <1>1, HeadTailProperties
  <2> QED BY <1>7, <2>1, <2>2, <2>3, <2>4 DEF IInv, TypeOK, BatchResumes
<1>9. NoRequestLost'
  <2> SUFFICES ASSUME NEW r \in Requests, status'[r] = "waiting"
               PROVE  \/ r \in Elements(queue)
                      \/ /\ ask[r].stream
                         /\ Elements(stream'[r]) \cap {"done", "error"} # {}
    BY <1>7 DEF NoRequestLost, BatchResumes
  <2>1. status[r] = "waiting" /\ (r \in Elements(batch) => ask[r].stream)
    BY <1>4, <1>5
  <2>2. CASE r \in Elements(batch)
    <3>1. stream'[r] = Append(stream[r], end)
      BY <1>3, <2>1, <2>2
    <3> QED BY <1>5, <1>6, <2>1, <2>2, <3>1
  <2>3. CASE r \notin Elements(batch)
    <3>1. stream'[r] = stream[r]
      BY <1>3, <2>3
    <3> QED BY <2>1, <2>3, <3>1 DEF IInv, NoRequestLost
  <2> QED BY <2>2, <2>3
<1>10. CallsInOrder' /\ Decoding' /\ Stopped'
  BY <1>2, <1>7, EmptySeq DEF IInv, CallsInOrder, Decoding, Stopped, BatchResumes
<1>11. Admitted' /\ RowLimits'
  <2>1. Elements(queue') = Elements(queue)
    BY DEF BatchResumes
  <2> QED BY <1>7, <2>1, AdmittedKept, RowLimitsKept DEF IInv, BatchResumes
<1> QED BY <1>8, <1>9, <1>10, <1>11 DEF IInv

LEMMA ShutdownInv == ASSUME IInv, Sigterm \/ StopWorker PROVE IInv'
<1>1. TypeOK'
  BY DEF IInv, TypeOK, Sigterm, StopWorker
<1>2. Admitted' /\ RowLimits'
  BY AdmittedKept, RowLimitsKept DEF IInv, Sigterm, StopWorker
<1>3. CallsInOrder' /\ Decoding' /\ Stopped'
  <2>1. Budget' = Budget
    BY BudgetKept DEF Sigterm, StopWorker
  <2> QED BY <2>1 DEF IInv, CallsInOrder, Decoding, Stopped, Sigterm, StopWorker
<1>4. NoRequestLost'
  BY DEF IInv, NoRequestLost, Sigterm, StopWorker
<1> QED BY <1>1, <1>2, <1>3, <1>4 DEF IInv

LEMMA StutterInv == ASSUME IInv, UNCHANGED vars PROVE IInv'
<1>1. TypeOK' /\ NoRequestLost'
  BY DEF IInv, TypeOK, NoRequestLost, vars
<1>2. Admitted' /\ RowLimits'
  BY AdmittedKept, RowLimitsKept DEF IInv, vars
<1>3. Budget' = Budget
  BY BudgetKept DEF vars
<1>4. CallsInOrder' /\ Decoding' /\ Stopped'
  BY <1>3 DEF IInv, CallsInOrder, Decoding, Stopped, vars
<1> QED BY <1>1, <1>2, <1>4 DEF IInv

LEMMA NextInv == IInv /\ [Next]_vars => IInv'
<1> SUFFICES ASSUME IInv, [Next]_vars PROVE IInv'
  OBVIOUS
<1>1. ASSUME NEW r \in Requests, Arrive(r) \/ ClientLeaves(r) \/ SseReads(r) PROVE IInv'
  BY <1>1, ArriveInv, ClientLeavesInv, SseReadsInv
<1>2. CASE BatchLoop
  BY <1>2, LoopTakesFirstInv, WindowTakesInv, WindowEndsInv DEF BatchLoop
<1>3. CASE Thread
  BY <1>3, DecodeStepInv, ThreadEndsInv DEF Thread
<1>4. CASE Callbacks
  BY <1>4, TokenReachesStreamInv, BatchResumesInv DEF Callbacks
<1>5. CASE Sigterm \/ StopWorker
  BY <1>5, ShutdownInv
<1>6. CASE UNCHANGED vars
  BY <1>6, StutterInv
<1> QED BY <1>1, <1>2, <1>3, <1>4, <1>5, <1>6 DEF Next

LEMMA Invariant == Spec => []IInv
  BY InitInv, NextInv, PTL DEF Spec

-------------------------------------------------------------------------------
(* What follows.                                                           *)

(* The state stays well formed; a batch never exceeds the compiled batch   *)
(* size, although the window collects it and then drains the queue into it.*)
THEOREM TypeCorrect == Spec => []TypeOK
<1>1. IInv => TypeOK
  BY DEF IInv
<1> QED BY <1>1, Invariant, PTL

(* Whichever prompts meet in a batch, the longest of them and the steps    *)
(* decoded for the batch fit the compiled seq_len.                         *)
THEOREM ContextFitsCorrect == Spec => []ContextFits
<1>1. IInv => ContextFits
  <2> SUFFICES ASSUME IInv, thread = "decode" PROVE Padded + step < SeqLen
    BY DEF ContextFits
  <2>1. batch # <<>> /\ (step = 0 \/ step <= Budget)
    BY DEF IInv, Decoding
  <2>2. Budget \in Nat /\ Padded \in Nat /\ Padded + Budget < SeqLen /\ step \in Nat
    BY <2>1, BudgetFits DEF IInv, TypeOK
  <2> QED BY <2>1, <2>2, ShapeAssumption
<1> QED BY <1>1, Invariant, PTL

(* No row gets more tokens than its own request was admitted for, however  *)
(* long the other rows of its batch decode.                                *)
THEOREM OwnLimitCorrect == Spec => []OwnLimit
<1>1. IInv => OwnLimit
  BY DEF IInv, RowLimits, OwnLimit
<1> QED BY <1>1, Invariant, PTL

(* A waiting client's request is queued, in the batch or its stream holds  *)
(* its end, and the batch loop has not been cancelled.                     *)
THEOREM NoRequestLostCorrect == Spec => []NoRequestLost
<1>1. IInv => NoRequestLost
  BY DEF IInv
<1> QED BY <1>1, Invariant, PTL

(* A row that has stopped keeps its tokens and its reason in every step.   *)
THEOREM StopIsFinalCorrect == Spec => StopIsFinal
<1>1. IInv /\ [Next]_vars => [\A r \in Requests : rows[r].done => rows'[r] = rows[r]]_vars
  <2> SUFFICES ASSUME IInv, Next, NEW r \in Requests, rows[r].done PROVE rows'[r] = rows[r]
    OBVIOUS
  <2>1. CASE DecodeStep
    <3>1. PICK samples \in [Elements(batch) -> Samples] :
             rows' = [q \in Requests |->
                        IF q \in Elements(batch) THEN Stepped(q, samples[q]) ELSE rows[q]]
      BY <2>1 DEF DecodeStep
    <3>2. Stepped(r, samples[r]) = rows[r]
      BY DEF Stepped, Appends
    <3> QED BY <3>1, <3>2
  <2>2. CASE ~DecodeStep
    BY <2>2 DEF Next, BatchLoop, Thread, Callbacks, Arrive, ClientLeaves, SseReads,
                LoopTakesFirst, WindowTakes, WindowEnds, ThreadReturns, DeviceFails,
                TokenReachesStream, BatchResumes, Sigterm, StopWorker
  <2> QED BY <2>1, <2>2
<1> QED BY <1>1, Invariant, PTL DEF Spec, StopIsFinal

-------------------------------------------------------------------------------
(* Tokens on their way: posted to the event loop, waiting in a stream.     *)

TokenKinds == {"whole", "part", "eos"}
EndKinds == {"done", "error"}

PostsTo(seq, r) == {i \in DOMAIN seq : seq[i].what \in TokenKinds /\ seq[i].to = r}
Posted(seq, r) == Cardinality(PostsTo(seq, r))

(* Callbacks that are concatenated post what each of them posts.           *)
LEMMA PostedConcat ==
  ASSUME NEW r, NEW s \in Seq(Post \cup Return), NEW t \in Seq(Post \cup Return)
  PROVE  /\ Posted(s, r) \in Nat /\ Posted(t, r) \in Nat
         /\ Posted(s \o t, r) = Posted(s, r) + Posted(t, r)
<1> DEFINE A == PostsTo(s, r)
           B == PostsTo(t, r)
           C == {i + Len(s) : i \in B}
           shift == [i \in B |-> i + Len(s)]
<1>1. /\ Len(s) \in Nat /\ DOMAIN s = 1..Len(s)
      /\ Len(t) \in Nat /\ DOMAIN t = 1..Len(t)
  BY LenProperties
<1>2. /\ s \o t \in Seq(Post \cup Return) /\ Len(s \o t) = Len(s) + Len(t)
      /\ \A i \in 1..Len(s) + Len(t) :
            (s \o t)[i] = IF i <= Len(s) THEN s[i] ELSE t[i - Len(s)]
  BY ConcatProperties
<1>3. DOMAIN (s \o t) = 1..Len(s) + Len(t)
  BY <1>2, LenProperties
<1>4. A \subseteq 1..Len(s) /\ B \subseteq 1..Len(t)
  BY <1>1 DEF PostsTo
<1>5. IsFiniteSet(A) /\ IsFiniteSet(B) /\ Cardinality(A) \in Nat /\ Cardinality(B) \in Nat
  <2>1. IsFiniteSet(1..Len(s)) /\ IsFiniteSet(1..Len(t))
    BY <1>1, FS_Interval
  <2> HIDE DEF A, B
  <2>2. IsFiniteSet(A) /\ IsFiniteSet(B)
    BY <1>4, <2>1, FS_Subset
  <2> QED BY <2>2, FS_CardinalityType
<1>6. shift \in Bijection(B, C)
  <2>1. shift \in [B -> C] /\ \A c \in C : \E i \in B : shift[i] = c
    OBVIOUS
  <2>2. \A i, j \in B : shift[i] = shift[j] => i = j
    BY <1>1, <1>4
  <2> HIDE DEF shift, C, B
  <2> QED BY <2>1, <2>2 DEF Bijection, Injection, Surjection, IsInjective
<1>7. IsFiniteSet(C) /\ Cardinality(C) = Cardinality(B)
  <2>1. ExistsBijection(B, C)
    BY <1>6 DEF ExistsBijection
  <2> QED BY <1>5, <2>1, FS_Bijection
<1>8. PostsTo(s \o t, r) = A \cup C
  <2>1. ASSUME NEW i \in PostsTo(s \o t, r) PROVE i \in A \cup C
    <3>1. i \in 1..Len(s) + Len(t) /\ (s \o t)[i].what \in TokenKinds /\ (s \o t)[i].to = r
      BY <1>3, <2>1 DEF PostsTo
    <3>2. CASE i <= Len(s)
      BY <1>1, <1>2, <3>1, <3>2 DEF PostsTo
    <3>3. CASE i > Len(s)
      <4>1. i - Len(s) \in 1..Len(t) /\ (i - Len(s)) + Len(s) = i
        BY <1>1, <3>1, <3>3
      <4>2. (s \o t)[i] = t[i - Len(s)]
        BY <1>1, <1>2, <3>1, <3>3
      <4>3. i - Len(s) \in B
        BY <1>1, <3>1, <4>1, <4>2 DEF PostsTo
      <4> QED BY <4>1, <4>3
    <3> QED BY <1>1, <3>1, <3>2, <3>3
  <2>2. ASSUME NEW i \in A PROVE i \in PostsTo(s \o t, r)
    <3>1. i \in 1..Len(s) + Len(t) /\ (s \o t)[i] = s[i]
      BY <1>1, <1>2, <1>4, <2>2
    <3> QED BY <1>3, <2>2, <3>1 DEF PostsTo
  <2>3. ASSUME NEW j \in B PROVE j + Len(s) \in PostsTo(s \o t, r)
    <3>1. /\ j + Len(s) \in 1..Len(s) + Len(t) /\ ~(j + Len(s) <= Len(s))
          /\ (j + Len(s)) - Len(s) = j
      BY <1>1, <1>4, <2>3
    <3>2. (s \o t)[j + Len(s)] = t[j]
      BY <1>2, <3>1
    <3> QED BY <1>3, <2>3, <3>1, <3>2 DEF PostsTo
  <2> QED BY <2>1, <2>2, <2>3
<1>9. A \cap C = {}
  BY <1>1, <1>4
<1> HIDE DEF A, B, C
<1>10. Cardinality(A \cup C) = Cardinality(A) + Cardinality(B)
  <2>1. Cardinality(A \cup C) = Cardinality(A) + Cardinality(C) - Cardinality({})
    BY <1>5, <1>7, <1>9, FS_Union
  <2>2. Cardinality({}) = 0
    BY FS_EmptySet
  <2> QED BY <1>5, <1>7, <2>1, <2>2
<1> QED BY <1>5, <1>8, <1>10 DEF Posted, A, B

LEMMA PostedOne ==
  ASSUME NEW r, NEW e
  PROVE  Posted(<<e>>, r) = IF e.what \in TokenKinds /\ e.to = r THEN 1 ELSE 0
<1>1. PostsTo(<<e>>, r) = IF e.what \in TokenKinds /\ e.to = r THEN {1} ELSE {}
  BY DEF PostsTo
<1> QED BY <1>1, FS_EmptySet, FS_Singleton DEF Posted

LEMMA PostedAppend ==
  ASSUME NEW r, NEW s \in Seq(Post \cup Return), NEW e \in Return
  PROVE  Posted(Append(s, e), r) = Posted(s, r)
<1>1. Append(s, e) = s \o <<e>> /\ <<e>> \in Seq(Post \cup Return)
  <2>1. e \in Post \cup Return
    OBVIOUS
  <2> QED BY <2>1, AppendIsConcat
<1>2. Posted(<<e>>, r) = 0
  BY PostedOne DEF Return, TokenKinds
<1>3. Posted(s, r) \in Nat /\ Posted(s \o <<e>>, r) = Posted(s, r) + Posted(<<e>>, r)
  BY <1>1, PostedConcat
<1> QED BY <1>1, <1>2, <1>3

LEMMA HeadThenTail ==
  ASSUME NEW S, NEW s \in Seq(S), s # <<>>
  PROVE  <<Head(s)>> \in Seq(S) /\ s = <<Head(s)>> \o Tail(s)
<1>0. Head(s) \in S /\ Tail(s) \in Seq(S) /\ Len(s) \in Nat \ {0}
  BY HeadTailProperties, EmptySeq
<1> DEFINE h == <<Head(s)>>
           t == Tail(s)
<1>1. h \in Seq(S) /\ Len(h) = 1 /\ h[1] = s[1]
  BY <1>0
<1>2. /\ Len(t) = Len(s) - 1 /\ t \in Seq(S)
      /\ \A i \in 1..Len(t) : t[i] = s[i + 1]
  BY HeadTailProperties
<1> HIDE DEF h, t
<1>3. /\ h \o t \in Seq(S) /\ Len(h \o t) = Len(s)
      /\ \A i \in 1..Len(h) + Len(t) : (h \o t)[i] = IF i <= Len(h) THEN h[i] ELSE t[i - Len(h)]
  <2>1. /\ h \o t \in Seq(S) /\ Len(h \o t) = Len(h) + Len(t)
        /\ \A i \in 1..Len(h) + Len(t) : (h \o t)[i] = IF i <= Len(h) THEN h[i] ELSE t[i - Len(h)]
    <3>1. h \in Seq(S) /\ t \in Seq(S)
      BY <1>1, <1>2
    <3> HIDE <1>1, <1>2
    <3> QED BY <3>1, ConcatProperties, Zenon
  <2>2. Len(h) + Len(t) = Len(s)
    BY <1>0, <1>1, <1>2
  <2> QED BY <2>1, <2>2
<1>4. ASSUME NEW i \in 1..Len(s) PROVE s[i] = (h \o t)[i]
  <2>1. CASE i = 1
    <3>1. 1 \in 1..Len(h) + Len(t) /\ 1 <= Len(h)
      BY <1>0, <1>1, <1>2
    <3> QED BY <1>1, <1>3, <2>1, <3>1
  <2>2. CASE i # 1
    <3>1. i - 1 \in 1..Len(t) /\ (i - 1) + 1 = i /\ i \in 1..Len(h) + Len(t) /\ ~(i <= Len(h))
      BY <1>0, <1>1, <1>2, <2>2
    <3> QED BY <1>1, <1>2, <1>3, <3>1
  <2> QED BY <2>1, <2>2
<1> QED BY <1>1, <1>3, <1>4, SeqEqual DEF h, t

LEMMA PostedTail ==
  ASSUME NEW r, NEW s \in Seq(Post \cup Return), s # <<>>
  PROVE  /\ Posted(Tail(s), r) \in Nat
         /\ Posted(s, r) = Posted(Tail(s), r)
                + (IF Head(s).what \in TokenKinds /\ Head(s).to = r THEN 1 ELSE 0)
<1>1. Head(s) \in Post \cup Return /\ Tail(s) \in Seq(Post \cup Return) /\ Len(s) \in Nat \ {0}
  BY HeadTailProperties, EmptySeq
<1>2. s = <<Head(s)>> \o Tail(s) /\ <<Head(s)>> \in Seq(Post \cup Return)
  BY HeadThenTail
<1>3. Posted(s, r) = Posted(<<Head(s)>>, r) + Posted(Tail(s), r) /\ Posted(Tail(s), r) \in Nat
  BY <1>1, <1>2, PostedConcat
<1> QED BY <1>3, PostedOne

(* One step of the batch posts at most one token for a request: each is in *)
(* the batch once, and each row that is heard posts once.                  *)
StepPosts(samples, heard) ==
    [n \in 1..Cardinality(Hearing(samples)) |->
        [to |-> batch[heard[n]], what |-> samples[batch[heard[n]]]]]

Heard(r, sample) == r \in Elements(batch) /\ ask[r].stream /\ Appends(r, sample)

LEMMA PostedByStep ==
  ASSUME TypeOK, \A i, j \in DOMAIN batch : batch[i] = batch[j] => i = j,
         NEW samples \in [Elements(batch) -> Samples],
         NEW heard \in InOrder(Hearing(samples)), NEW r
  PROVE  Posted(StepPosts(samples, heard), r) = IF Heard(r, samples[r]) THEN 1 ELSE 0
<1> DEFINE I == Hearing(samples)
           c == Cardinality(I)
           Q == StepPosts(samples, heard)
<1>1. batch \in [1..Len(batch) -> Requests] /\ Len(batch) \in Nat /\ DOMAIN batch = 1..Len(batch)
  BY LenProperties DEF TypeOK
<1>2. I \subseteq 1..Len(batch) /\ IsFiniteSet(I) /\ c \in Nat
  <2>1. I \subseteq 1..Len(batch)
    BY <1>1 DEF Hearing
  <2>2. IsFiniteSet(1..Len(batch))
    BY <1>1, FS_Interval
  <2> HIDE DEF I
  <2>3. IsFiniteSet(I)
    BY <2>1, <2>2, FS_Subset
  <2> QED BY <2>1, <2>3, FS_CardinalityType
<1>3. heard \in [1..c -> I] /\ \A m, n \in 1..c : m < n => heard[m] < heard[n]
  BY DEF InOrder
<1>4. /\ \A m, n \in 1..c : heard[m] = heard[n] => m = n
      /\ \A i \in I : \E n \in 1..c : heard[n] = i
  <2> HIDE DEF I, c
  <2>1. \A m, n \in 1..c : heard[m] = heard[n] => m = n
    <3> SUFFICES ASSUME NEW m \in 1..c, NEW n \in 1..c, heard[m] = heard[n] PROVE m = n
      OBVIOUS
    <3>1. heard[m] \in I /\ heard[n] \in I
      BY <1>3
    <3>2. heard[m] \in Int /\ heard[n] \in Int
      <4>1. heard[m] \in 1..Len(batch) /\ heard[n] \in 1..Len(batch)
        BY <1>2, <3>1, Zenon
      <4>2. 1..Len(batch) \subseteq Int
        OBVIOUS
      <4> QED BY <4>1, <4>2, Zenon
    <3>3. ~(heard[m] < heard[n]) /\ ~(heard[n] < heard[m])
      BY <3>2
    <3> QED BY <1>2, <1>3, <3>3
  <2>2. heard \in Injection(1..c, I)
    BY <1>3, <2>1 DEF Injection, IsInjective
  <2>3. Cardinality(1..c) = Cardinality(I)
    BY <1>2, FS_Interval DEF c
  <2>4. heard \in Surjection(1..c, I)
    BY <1>2, <2>2, <2>3, FS_Injection
  <2> QED BY <2>1, <2>4 DEF Surjection
<1>5. /\ DOMAIN Q = 1..c
      /\ \A n \in 1..c : Q[n].to = batch[heard[n]] /\ Q[n].what = samples[batch[heard[n]]]
  BY DEF StepPosts
<1>6. \A i \in I : /\ i \in DOMAIN batch /\ Heard(batch[i], samples[batch[i]])
                  /\ samples[batch[i]] \in TokenKinds
  BY DEF Hearing, Heard, Appends, Elements, TokenKinds
<1>7. PostsTo(Q, r) = {n \in 1..c : batch[heard[n]] = r}
  <2> HIDE DEF I, c, Q
  <2> QED BY <1>3, <1>5, <1>6 DEF PostsTo
<1>8. CASE Heard(r, samples[r])
  <2>1. PICK i \in DOMAIN batch : batch[i] = r
    BY <1>8 DEF Heard, Elements
  <2>2. i \in I
    BY <1>8, <2>1 DEF Hearing, Heard
  <2>3. PICK n \in 1..c : heard[n] = i
    BY <1>4, <2>2
  <2> HIDE DEF I, c, Q
  <2>4. {m \in 1..c : batch[heard[m]] = r} = {n}
    <3>1. \A m \in 1..c : batch[heard[m]] = r => heard[m] = i
      BY <1>3, <1>6, <2>1
    <3> QED BY <1>4, <2>1, <2>3, <3>1
  <2> QED BY <1>7, <1>8, <2>4, FS_Singleton DEF Posted, Q
<1>9. CASE ~Heard(r, samples[r])
  <2> HIDE DEF I, c, Q
  <2>1. {m \in 1..c : batch[heard[m]] = r} = {}
    BY <1>3, <1>6, <1>9
  <2> QED BY <1>7, <1>9, <2>1, FS_EmptySet DEF Posted, Q
<1> QED BY <1>8, <1>9

-------------------------------------------------------------------------------
(* Nothing is lost or reordered between a row and its client.              *)

(* The batch and behind it the queue: the requests in order of arrival.    *)
Line == batch \o queue

InLineOnce == \A i, j \in DOMAIN Line : Line[i] = Line[j] => i = j

(* Only a client with a stream leaves before its batch is over.            *)
Expected ==
    \A r \in Elements(Line) :
        status[r] = "waiting" \/ (status[r] = "left" /\ ask[r].stream)

PostsOfBatch ==
    \A i \in DOMAIN calls :
        calls[i].what \in TokenKinds =>
            calls[i].to \in Elements(batch) /\ ask[calls[i].to].stream

(* A stream's end is its last event, and comes when its batch is over.     *)
EndsLast ==
    \A r \in Requests : \A i \in DOMAIN stream[r] :
        stream[r][i] \in EndKinds => i = Len(stream[r]) /\ r \notin Elements(Line)

Settled ==
    \A r \in Requests :
        status[r] = "new" \/ (ask[r].stream /\ status[r] \in {"ok", "failed"})
            => stream[r] = <<>>

(* The tokens of a row: what its client has read, what waits in the stream *)
(* and what is posted to it.                                               *)
Ended(r) == stream[r] # <<>> /\ stream[r][Len(stream[r])] \in EndKinds
Unread(r) == Len(stream[r]) - (IF Ended(r) THEN 1 ELSE 0)

Accounted ==
    \A r \in Requests : ask[r].stream =>
        /\ got[r].sent <= got[r].read
        /\ got[r].read + Unread(r) + Posted(calls, r) = rows[r].tokens

Delivery ==
    InLineOnce /\ Expected /\ PostsOfBatch /\ EndsLast /\ Settled /\ Accounted

LEMMA LineFacts ==
  ASSUME TypeOK
  PROVE  /\ Len(batch) \in Nat /\ Len(queue) \in Nat
         /\ Line \in Seq(Requests) /\ DOMAIN Line = 1..Len(batch) + Len(queue)
         /\ \A i \in 1..Len(batch) : Line[i] = batch[i]
         /\ \A i \in 1..Len(queue) : Line[Len(batch) + i] = queue[i]
         /\ Elements(Line) = Elements(batch) \cup Elements(queue)
<1>1. /\ Len(batch) \in Nat /\ Len(queue) \in Nat
      /\ DOMAIN batch = 1..Len(batch) /\ DOMAIN queue = 1..Len(queue)
      /\ batch \in Seq(Requests) /\ queue \in Seq(Requests)
  BY LenProperties DEF TypeOK
<1>2. /\ Line \in Seq(Requests) /\ Len(Line) = Len(batch) + Len(queue)
      /\ \A i \in 1..Len(batch) + Len(queue) :
            Line[i] = IF i <= Len(batch) THEN batch[i] ELSE queue[i - Len(batch)]
  BY <1>1, ConcatProperties DEF Line
<1>3. DOMAIN Line = 1..Len(batch) + Len(queue)
  BY <1>2, LenProperties
<1>4. \A i \in 1..Len(batch) : i \in DOMAIN Line /\ Line[i] = batch[i]
  BY <1>1, <1>2, <1>3
<1>5. ASSUME NEW i \in 1..Len(queue)
      PROVE  Len(batch) + i \in DOMAIN Line /\ Line[Len(batch) + i] = queue[i]
  <2>1. /\ Len(batch) + i \in 1..Len(batch) + Len(queue)
        /\ ~(Len(batch) + i <= Len(batch)) /\ (Len(batch) + i) - Len(batch) = i
    BY <1>1
  <2> QED BY <1>2, <1>3, <2>1
<1>6. ASSUME NEW i \in DOMAIN Line PROVE Line[i] \in Elements(batch) \cup Elements(queue)
  <2>1. CASE i <= Len(batch)
    BY <1>1, <1>2, <1>3, <2>1 DEF Elements
  <2>2. CASE i > Len(batch)
    <3>1. i - Len(batch) \in 1..Len(queue)
      BY <1>1, <1>3, <2>2
    <3>2. Line[i] = queue[i - Len(batch)]
      BY <1>1, <1>2, <1>3, <2>2
    <3> QED BY <1>1, <3>1, <3>2 DEF Elements
  <2> QED BY <1>1, <1>3, <2>1, <2>2
<1>7. Elements(Line) = Elements(batch) \cup Elements(queue)
  <2>1. Elements(batch) \subseteq Elements(Line)
    BY <1>1, <1>4 DEF Elements
  <2>2. Elements(queue) \subseteq Elements(Line)
    BY <1>1, <1>5 DEF Elements
  <2>3. Elements(Line) \subseteq Elements(batch) \cup Elements(queue)
    BY <1>6 DEF Elements
  <2> QED BY <2>1, <2>2, <2>3
<1> QED BY <1>1, <1>2, <1>3, <1>4, <1>5, <1>7

(* Nobody is in the batch twice, or in the batch and in the queue.         *)
LEMMA OnceFacts ==
  ASSUME TypeOK, InLineOnce
  PROVE  /\ \A i, j \in DOMAIN batch : batch[i] = batch[j] => i = j
         /\ \A i, j \in DOMAIN queue : queue[i] = queue[j] => i = j
         /\ Elements(batch) \cap Elements(queue) = {}
<1>1. /\ Len(batch) \in Nat /\ Len(queue) \in Nat
      /\ DOMAIN batch = 1..Len(batch) /\ DOMAIN queue = 1..Len(queue)
  BY LenProperties DEF TypeOK
<1>2. /\ \A i \in DOMAIN batch : i \in DOMAIN Line /\ Line[i] = batch[i]
      /\ \A i \in DOMAIN queue : Len(batch) + i \in DOMAIN Line /\ Line[Len(batch) + i] = queue[i]
  <2>1. \A i \in 1..Len(batch) : i \in 1..Len(batch) + Len(queue)
    BY <1>1
  <2>2. \A i \in 1..Len(queue) : Len(batch) + i \in 1..Len(batch) + Len(queue)
    BY <1>1
  <2> QED BY <1>1, <2>1, <2>2, LineFacts
<1>3. \A i, j \in DOMAIN batch : batch[i] = batch[j] => i = j
  BY <1>2 DEF InLineOnce
<1>4. \A i, j \in DOMAIN queue : queue[i] = queue[j] => i = j
  <2> SUFFICES ASSUME NEW i \in DOMAIN queue, NEW j \in DOMAIN queue, queue[i] = queue[j]
               PROVE  i = j
    OBVIOUS
  <2>1. Len(batch) + i = Len(batch) + j
    BY <1>2 DEF InLineOnce
  <2> QED BY <1>1, <2>1
<1>5. ASSUME NEW i \in DOMAIN batch, NEW j \in DOMAIN queue, batch[i] = queue[j] PROVE FALSE
  <2>1. i = Len(batch) + j
    BY <1>2, <1>5 DEF InLineOnce
  <2> QED BY <1>1, <2>1
<1> QED BY <1>3, <1>4, <1>5 DEF Elements

(* The steps that only move requests from the queue to the batch.          *)
Quiet ==
    /\ UNCHANGED <<ask, status, rows, calls, stream, got>>
    /\ Line' = Line /\ Elements(batch) \subseteq Elements(batch')

LEMMA QuietSteps ==
  ASSUME IInv, BatchLoop \/ Sigterm \/ StopWorker \/ UNCHANGED vars
  PROVE  Quiet
<1>0. batch \in Seq(Requests) /\ queue \in Seq(Requests)
  BY DEF IInv, TypeOK
<1>1. CASE LoopTakesFirst
  <2>1. batch = <<>> /\ queue # <<>> /\ batch' = <<Head(queue)>> /\ queue' = Tail(queue)
    BY <1>1 DEF IInv, Decoding, LoopTakesFirst
  <2>2. Line' = Line
    BY <1>0, <2>1, HeadThenTail, ConcatEmptySeq DEF Line
  <2> QED BY <1>1, <2>1, <2>2 DEF Quiet, LoopTakesFirst, Elements
<1>2. CASE WindowTakes
  <2>1. queue # <<>> /\ batch' = Append(batch, Head(queue)) /\ queue' = Tail(queue)
    BY <1>2 DEF WindowTakes
  <2>2. /\ Head(queue) \in Requests /\ Tail(queue) \in Seq(Requests)
        /\ <<Head(queue)>> \in Seq(Requests) /\ queue = <<Head(queue)>> \o Tail(queue)
    BY <1>0, <2>1, HeadTailProperties, HeadThenTail
  <2>3. batch' = batch \o <<Head(queue)>> /\ Elements(batch') = Elements(batch) \cup {Head(queue)}
    BY <1>0, <2>1, <2>2, AppendIsConcat, ElementsAppend
  <2>4. Line' = Line
    BY <1>0, <2>1, <2>2, <2>3, ConcatAssociative DEF Line
  <2> QED BY <1>2, <2>3, <2>4 DEF Quiet, WindowTakes
<1>3. CASE WindowEnds
  <2>1. PICK k \in {0, Lesser(MaxBatch - Len(batch), Len(queue))} :
            /\ batch' = batch \o SubSeq(queue, 1, k)
            /\ queue' = SubSeq(queue, k + 1, Len(queue))
    BY <1>3 DEF WindowEnds
  <2>2. k \in 0..Len(queue) /\ Len(queue) \in Nat
    <3>1. Len(queue) \in Nat /\ Len(batch) \in Nat /\ MaxBatch \in Nat /\ Len(batch) <= MaxBatch
      BY <1>0, ShapeAssumption, LenProperties DEF IInv, TypeOK
    <3> QED BY <2>1, <3>1 DEF Lesser
  <2>3. Elements(batch) \subseteq Elements(batch')
    BY <1>0, <2>1, <2>2, ElementsDrained
  <2>4. queue = SubSeq(queue, 1, k) \o SubSeq(queue, k + 1, Len(queue))
    <3>1. 1 \in 1..Len(queue) + 1 /\ k \in (1 - 1)..Len(queue) /\ Len(queue) \in k..Len(queue)
      BY <2>2
    <3>2. SubSeq(queue, 1, k) \o SubSeq(queue, k + 1, Len(queue)) = SubSeq(queue, 1, Len(queue))
      BY <1>0, <3>1, ConcatAdjacentSubSeq
    <3> QED BY <1>0, <3>2, SubSeqFull
  <2>5. SubSeq(queue, 1, k) \in Seq(Requests) /\ SubSeq(queue, k + 1, Len(queue)) \in Seq(Requests)
    <3>1. \A i \in 1..Len(queue) : queue[i] \in Requests
      BY <1>0, ElementOfSeq
    <3>2. (\A i \in 1..k : queue[i] \in Requests) /\ \A i \in k + 1..Len(queue) : queue[i] \in Requests
      BY <2>2, <3>1
    <3> QED BY <2>2, <3>2, SubSeqProperties
  <2>6. Line' = Line
    <3> DEFINE head == SubSeq(queue, 1, k)
               rest == SubSeq(queue, k + 1, Len(queue))
    <3>1. /\ head \in Seq(Requests) /\ rest \in Seq(Requests) /\ queue = head \o rest
          /\ batch' = batch \o head /\ queue' = rest
      BY <2>1, <2>4, <2>5
    <3> HIDE DEF head, rest
    <3>2. (batch \o head) \o rest = batch \o (head \o rest)
      BY <1>0, <3>1, ConcatAssociative
    <3> QED BY <3>1, <3>2, Zenon DEF Line
  <2> QED BY <1>3, <2>3, <2>6 DEF Quiet, WindowEnds
<1>4. CASE Sigterm \/ StopWorker \/ UNCHANGED vars
  BY <1>4 DEF Sigterm, StopWorker, vars, Quiet, Line
<1> QED BY <1>1, <1>2, <1>3, <1>4 DEF BatchLoop

LEMMA QuietKeeps ==
  ASSUME Delivery, Quiet
  PROVE  Delivery'
<1>1. InLineOnce' /\ Expected' /\ EndsLast' /\ Settled'
  BY DEF Delivery, Quiet, InLineOnce, Expected, EndsLast, Settled
<1>2. PostsOfBatch'
  BY DEF Delivery, Quiet, PostsOfBatch
<1>3. Accounted'
  BY DEF Delivery, Quiet, Accounted, Unread, Ended
<1> QED BY <1>1, <1>2, <1>3 DEF Delivery

LEMMA ArriveKeeps ==
  ASSUME IInv, Delivery, NEW r \in Requests, Arrive(r)
  PROVE  Delivery'
<1>0. /\ TypeOK /\ r \notin Elements(Line) /\ stream[r] = <<>>
      /\ UNCHANGED <<ask, batch, rows, calls, stream, got>> /\ status[r] = "new"
      /\ status \in [Requests -> Statuses]
  BY DEF IInv, TypeOK, Delivery, Expected, Settled, Arrive
<1>a. Elements(Line) \subseteq Requests
  BY <1>0, LineFacts, ElementsType
<1>1. PostsOfBatch' /\ Accounted'
  BY <1>0 DEF Delivery, PostsOfBatch, Accounted, Unread, Ended
<1>2. Settled'
  BY <1>0 DEF Delivery, Settled, Arrive, TypeOK
<1>3. CASE ~Admissible(r)
  <2>1. Line' = Line /\ \A q \in Elements(Line) : status'[q] = status[q]
    <3>1. status' = [status EXCEPT ![r] = "refused"] /\ queue' = queue
      BY <1>3 DEF Arrive
    <3>2. Line' = Line
      BY <1>0, <3>1 DEF Line
    <3> QED BY <1>0, <1>a, <3>1, <3>2
  <2>2. InLineOnce' /\ Expected' /\ EndsLast'
    BY <1>0, <2>1 DEF Delivery, InLineOnce, Expected, EndsLast
  <2> QED BY <1>1, <1>2, <2>2 DEF Delivery
<1>4. CASE Admissible(r)
  <2>0. batch \in Seq(Requests) /\ queue \in Seq(Requests) /\ <<r>> \in Seq(Requests)
    BY <1>0 DEF TypeOK
  <2>1. Line' = Append(Line, r)
    <3>1. queue' = queue \o <<r>> /\ batch' = batch
      BY <1>4, <2>0, AppendIsConcat DEF Arrive
    <3>2. (batch \o queue) \o <<r>> = batch \o (queue \o <<r>>)
      BY <2>0, ConcatAssociative
    <3>3. Line \in Seq(Requests) /\ Append(Line, r) = Line \o <<r>>
      BY <1>0, LineFacts, AppendIsConcat
    <3> QED BY <3>1, <3>2, <3>3, Zenon DEF Line
  <2>2. /\ Line \in Seq(Requests) /\ Len(Line) \in Nat /\ DOMAIN Line = 1..Len(Line)
        /\ Elements(Line') = Elements(Line) \cup {r}
    BY <1>0, <2>1, LineFacts, LenProperties, ElementsAppend
  <2>3. /\ DOMAIN Line' = 1..Len(Line) + 1 /\ Line'[Len(Line) + 1] = r
        /\ \A i \in 1..Len(Line) : Line'[i] = Line[i]
    BY <2>1, <2>2, AppendProperties, LenProperties
  <2>4. \A i \in 1..Len(Line) : Line[i] # r
    BY <1>0, <2>2 DEF Elements
  <2>5. \A i \in 1..Len(Line) + 1 : i \in 1..Len(Line) \/ i = Len(Line) + 1
    BY <2>2
  <2>6. InLineOnce'
    <3> SUFFICES ASSUME NEW i \in DOMAIN Line', NEW j \in DOMAIN Line', Line'[i] = Line'[j]
                 PROVE  i = j
      BY DEF InLineOnce
    <3> QED BY <2>2, <2>3, <2>4, <2>5, Zenon DEF Delivery, InLineOnce
  <2>7. Expected'
    <3>1. status' = [status EXCEPT ![r] = "waiting"]
      BY <1>4 DEF Arrive
    <3>2. status'[r] = "waiting" /\ \A q \in Elements(Line) : status'[q] = status[q]
      BY <1>0, <1>a, <3>1
    <3> QED BY <1>0, <2>2, <3>2 DEF Delivery, Expected
  <2>8. EndsLast'
    <3>1. DOMAIN stream[r] = {}
      BY <1>0
    <3> QED BY <1>0, <2>2, <3>1, Zenon DEF Delivery, EndsLast
  <2> QED BY <1>1, <1>2, <2>6, <2>7, <2>8 DEF Delivery
<1> QED BY <1>3, <1>4

LEMMA ClientLeavesKeeps ==
  ASSUME IInv, Delivery, NEW r \in Requests, ClientLeaves(r)
  PROVE  Delivery'
<1>0. /\ Line' = Line /\ UNCHANGED <<ask, batch, rows, calls, stream, got>>
      /\ status[r] = "waiting" /\ ask[r].stream /\ status' = [status EXCEPT ![r] = "left"]
      /\ status \in [Requests -> Statuses]
  BY DEF IInv, TypeOK, ClientLeaves, Line
<1>1. InLineOnce' /\ PostsOfBatch' /\ EndsLast' /\ Accounted'
  BY <1>0 DEF Delivery, InLineOnce, PostsOfBatch, EndsLast, Accounted, Unread, Ended
<1>2. Expected' /\ Settled'
  <2>1. \A q \in Requests : status'[q] = IF q = r THEN "left" ELSE status[q]
    BY <1>0
  <2>2. Elements(Line) \subseteq Requests
    BY LineFacts, ElementsType DEF IInv
  <2> QED BY <1>0, <2>1, <2>2 DEF Delivery, Expected, Settled
<1> QED BY <1>1, <1>2 DEF Delivery

(* What reading the first event leaves in a stream.                        *)
LEMMA RestOfStream ==
  ASSUME TypeOK, EndsLast, NEW r \in Requests, stream[r] # <<>>, stream'[r] = Tail(stream[r])
  PROVE  /\ Head(stream[r]) \in EndKinds =>
               stream'[r] = <<>> /\ r \notin Elements(Line) /\ Unread(r)' = Unread(r)
         /\ Head(stream[r]) \notin EndKinds =>
               /\ Unread(r)' = Unread(r) - 1 /\ Unread(r) \in Nat \ {0}
               /\ \A i \in DOMAIN stream'[r] :
                     stream'[r][i] \in EndKinds => i = Len(stream'[r]) /\ r \notin Elements(Line)
<1> DEFINE s == stream[r]
           t == Tail(s)
<1>1. /\ s \in Seq(StreamEvents) /\ t \in Seq(StreamEvents) /\ Len(s) \in Nat \ {0}
      /\ DOMAIN s = 1..Len(s) /\ DOMAIN t = 1..Len(t) /\ Len(t) = Len(s) - 1
      /\ \A i \in 1..Len(t) : t[i] = s[i + 1]
  BY HeadTailProperties, EmptySeq, LenProperties DEF TypeOK
<1>2. Head(s) = s[1] /\ (t = <<>> <=> Len(t) = 0) /\ Len(t) \in Nat
  <2>1. Head(s) = s[1]
    OBVIOUS
  <2> HIDE DEF s, t
  <2>2. t = <<>> <=> Len(t) = 0
    BY <1>1, EmptySeq
  <2> QED BY <1>1, <2>1, <2>2
<1>3. CASE Head(s) \in EndKinds
  <2>1. 1 = Len(s) /\ r \notin Elements(Line)
    BY <1>1, <1>2, <1>3 DEF EndsLast
  <2>2. t = <<>> /\ Ended(r)
    BY <1>1, <1>2, <1>3, <2>1 DEF Ended
  <2>3. ~Ended(r)' /\ stream'[r] = <<>>
    BY <2>2 DEF Ended
  <2> QED BY <1>3, <2>1, <2>2, <2>3 DEF Unread
<1>4. CASE Head(s) \notin EndKinds
  <2>1. Ended(r)' <=> Ended(r)
    <3>1. CASE Len(t) = 0
      <4>1. Len(s) = 1 /\ t = <<>>
        BY <1>1, <1>2, <3>1
      <4>2. ~Ended(r)
        BY <1>2, <1>4, <4>1 DEF Ended
      <4>3. ~Ended(r)'
        BY <4>1 DEF Ended
      <4> QED BY <4>2, <4>3
    <3>2. CASE Len(t) # 0
      <4>1. t[Len(t)] = s[Len(s)] /\ t # <<>>
        BY <1>1, <1>2, <3>2
      <4> QED BY <4>1 DEF Ended
    <3> QED BY <3>1, <3>2
  <2>2. Ended(r) => Len(s) # 1
    BY <1>2, <1>4 DEF Ended
  <2>3. Unread(r)' = Unread(r) - 1 /\ Unread(r) \in Nat \ {0}
    <3>1. Unread(r) = Len(s) - (IF Ended(r) THEN 1 ELSE 0)
      BY DEF Unread
    <3>2. Unread(r)' = Len(t) - (IF Ended(r) THEN 1 ELSE 0)
      BY <2>1 DEF Unread
    <3> HIDE DEF s, t
    <3>3. CASE Ended(r)
      BY <1>1, <2>2, <3>1, <3>2, <3>3
    <3>4. CASE ~Ended(r)
      BY <1>1, <3>1, <3>2, <3>4
    <3> QED BY <3>3, <3>4
  <2>4. ASSUME NEW i \in DOMAIN t, t[i] \in EndKinds
        PROVE  i = Len(t) /\ r \notin Elements(Line)
    <3>1. i + 1 \in DOMAIN s /\ s[i + 1] \in EndKinds /\ i \in Nat
      BY <1>1, <2>4
    <3>2. i + 1 = Len(s) /\ r \notin Elements(Line)
      BY <3>1 DEF EndsLast
    <3> QED BY <1>1, <3>1, <3>2
  <2> QED BY <1>4, <2>3, <2>4
<1> QED BY <1>3, <1>4

LEMMA SseReadsKeeps ==
  ASSUME IInv, Delivery, NEW r \in Requests, SseReads(r)
  PROVE  Delivery'
<1>0. /\ TypeOK /\ Line' = Line /\ UNCHANGED <<ask, batch, rows, calls>>
      /\ status[r] = "waiting" /\ ask[r].stream /\ stream[r] # <<>>
      /\ stream' = [stream EXCEPT ![r] = Tail(stream[r])]
      /\ stream \in [Requests -> Seq(StreamEvents)] /\ got[r] \in [read: Nat, sent: Nat]
      /\ status \in [Requests -> Statuses] /\ got \in [Requests -> [read: Nat, sent: Nat]]
  BY DEF IInv, TypeOK, SseReads, Line
<1>1. /\ stream'[r] = Tail(stream[r])
      /\ \A q \in Requests : q # r => /\ stream'[q] = stream[q]
                                      /\ got'[q] = got[q] /\ status'[q] = status[q]
  BY <1>0 DEF SseReads
<1>2. \A q \in Requests : q # r => Unread(q)' = Unread(q)
  BY <1>1 DEF Unread, Ended
<1>3. InLineOnce' /\ PostsOfBatch' /\ Elements(Line) \subseteq Requests
  BY <1>0, LineFacts, ElementsType DEF Delivery, InLineOnce, PostsOfBatch
<1>4. \A q : Posted(calls', q) = Posted(calls, q)
  BY <1>0
<1>5. CASE Head(stream[r]) \in EndKinds
  <2>1. /\ stream'[r] = <<>> /\ r \notin Elements(Line) /\ Unread(r)' = Unread(r)
        /\ got' = got /\ status'[r] \in {"ok", "failed"}
    BY <1>0, <1>1, <1>5, RestOfStream DEF SseReads, EndKinds, Delivery
  <2>2. Expected' /\ Settled'
    BY <1>0, <1>1, <1>3, <2>1 DEF Delivery, Expected, Settled
  <2>3. EndsLast'
    <3>1. DOMAIN stream'[r] = {}
      BY <2>1
    <3> QED BY <1>0, <1>1, <3>1, Zenon DEF Delivery, EndsLast
  <2>4. Accounted'
    BY <1>0, <1>2, <1>4, <2>1 DEF Delivery, Accounted
  <2> QED BY <1>3, <2>2, <2>3, <2>4 DEF Delivery
<1>6. CASE Head(stream[r]) \notin EndKinds
  <2>1. /\ Unread(r)' = Unread(r) - 1 /\ Unread(r) \in Nat \ {0}
        /\ \A i \in DOMAIN stream'[r] :
              stream'[r][i] \in EndKinds => i = Len(stream'[r]) /\ r \notin Elements(Line)
    BY <1>0, <1>1, <1>6, RestOfStream DEF Delivery
  <2>2. status' = status
    BY <1>6 DEF SseReads, EndKinds
  <2>3. got'[r].read = got[r].read + 1 /\ got'[r].sent \in {got[r].sent, got[r].read + 1}
    <3>1. \/ got' = [got EXCEPT ![r] = [read |-> got[r].read + 1, sent |-> got[r].read + 1]]
          \/ got' = [got EXCEPT ![r].read = got[r].read + 1]
      BY <1>6 DEF SseReads, EndKinds
    <3> QED BY <1>0, <3>1
  <2>4. Expected' /\ Settled'
    BY <1>0, <1>1, <2>2 DEF Delivery, Expected, Settled
  <2>5. EndsLast'
    BY <1>0, <1>1, <2>1, Zenon DEF Delivery, EndsLast
  <2>6. Accounted'
    <3> SUFFICES ASSUME NEW q \in Requests, ask[q].stream
                 PROVE  /\ got'[q].sent <= got'[q].read
                        /\ got'[q].read + Unread(q)' + Posted(calls, q) = rows[q].tokens
      BY <1>0, <1>4 DEF Accounted
    <3>1. got[q].sent <= got[q].read /\ got[q].read + Unread(q) + Posted(calls, q) = rows[q].tokens
      BY DEF Delivery, Accounted
    <3>2. CASE q # r
      BY <1>1, <1>2, <3>1, <3>2
    <3>3. CASE q = r
      <4>1. calls \in Seq(Post \cup Return) /\ <<>> \in Seq(Post \cup Return)
        BY <1>0, EmptySeq DEF TypeOK
      <4>2. Posted(calls, r) \in Nat
        BY <4>1, PostedConcat
      <4>3. got[r].read \in Nat /\ got[r].sent \in Nat
        BY <1>0
      <4> DEFINE u == Unread(r)
                 v == Unread(r)'
      <4>4. v = u - 1 /\ u \in Nat \ {0}
        BY <2>1
      <4>5. Unread(q) = u /\ Unread(q)' = v
        BY <3>3
      <4> HIDE DEF u, v
      <4> QED BY <2>3, <3>1, <3>3, <4>2, <4>3, <4>4, <4>5
    <3> QED BY <3>2, <3>3
  <2> QED BY <1>3, <2>4, <2>5, <2>6 DEF Delivery
<1> QED BY <1>5, <1>6

(* A row grows by the token it appends, if it appends one.                 *)
LEMMA SteppedTokens ==
  ASSUME TypeOK, NEW r \in Requests, NEW sample
  PROVE  /\ rows[r].tokens \in Nat
         /\ Stepped(r, sample).tokens = rows[r].tokens + (IF Appends(r, sample) THEN 1 ELSE 0)
<1>1. rows[r] \in [tokens: Nat, done: BOOLEAN, reason: Reasons]
  BY DEF TypeOK
<1>2. CASE Appends(r, sample)
  <2> DEFINE n == rows[r].tokens + 1
             over == n >= Limit(r)
  <2>1. Stepped(r, sample) = [rows[r] EXCEPT !.tokens = n, !.done = over]
    BY <1>2 DEF Stepped
  <2> HIDE DEF n, over
  <2>2. Stepped(r, sample).tokens = n
    BY <1>1, <2>1
  <2> QED BY <1>1, <1>2, <2>2 DEF n
<1>3. CASE ~Appends(r, sample)
  <2>1. \/ Stepped(r, sample) = rows[r]
        \/ Stepped(r, sample) = [rows[r] EXCEPT !.done = TRUE,
                                    !.reason = IF sample = "invalid" THEN "error" ELSE "stop"]
    BY <1>3 DEF Stepped
  <2>2. Stepped(r, sample).tokens = rows[r].tokens
    BY <1>1, <2>1
  <2> QED BY <1>1, <1>3, <2>2
<1> QED BY <1>2, <1>3

LEMMA DecodeStepKeeps ==
  ASSUME IInv, Delivery, DecodeStep
  PROVE  Delivery'
<1>0. /\ TypeOK /\ Line' = Line /\ UNCHANGED <<ask, status, batch, stream, got>>
      /\ calls \in Seq(Post \cup Return) /\ batch \in Seq(Requests)
  BY DEF IInv, TypeOK, DecodeStep, Line
<1>a. PICK samples \in [Elements(batch) -> Samples] :
         /\ rows' = [r \in Requests |->
                        IF r \in Elements(batch) THEN Stepped(r, samples[r]) ELSE rows[r]]
         /\ \E heard \in InOrder(Hearing(samples)) : calls' = calls \o StepPosts(samples, heard)
  BY DEF DecodeStep, StepPosts
<1>1. PICK heard \in InOrder(Hearing(samples)) : calls' = calls \o StepPosts(samples, heard)
  BY <1>a
<1> DEFINE posts == StepPosts(samples, heard)
<1>2. posts \in Seq(Post \cup Return) /\ \A r : Posted(posts, r) = IF Heard(r, samples[r]) THEN 1 ELSE 0
  <2>1. posts \in Seq(Post)
    BY <1>0, PostedType DEF StepPosts
  <2>2. \A i, j \in DOMAIN batch : batch[i] = batch[j] => i = j
    BY <1>0, OnceFacts DEF Delivery
  <2> QED BY <1>0, <2>1, <2>2, PostedByStep
<1>3. InLineOnce' /\ Expected' /\ EndsLast' /\ Settled'
  BY <1>0 DEF Delivery, InLineOnce, Expected, EndsLast, Settled
<1>4. PostsOfBatch'
  <2>1. \A n \in DOMAIN posts : posts[n].to \in Elements(batch) /\ ask[posts[n].to].stream
    <3> SUFFICES ASSUME NEW n \in 1..Cardinality(Hearing(samples))
                 PROVE  batch[heard[n]] \in Elements(batch) /\ ask[batch[heard[n]]].stream
      BY DEF StepPosts
    <3>1. heard[n] \in Hearing(samples)
      BY DEF InOrder
    <3> QED BY <3>1 DEF Hearing, Elements
  <2> HIDE DEF posts
  <2>2. /\ DOMAIN calls = 1..Len(calls) /\ DOMAIN posts = 1..Len(posts)
        /\ Len(calls) \in Nat /\ Len(posts) \in Nat
        /\ DOMAIN (calls \o posts) = 1..Len(calls \o posts)
        /\ Len(calls \o posts) = Len(calls) + Len(posts)
        /\ \A i \in 1..Len(calls) + Len(posts) :
              (calls \o posts)[i] = IF i <= Len(calls) THEN calls[i] ELSE posts[i - Len(calls)]
    BY <1>0, <1>2, ConcatProperties, LenProperties
  <2> SUFFICES ASSUME NEW i \in DOMAIN (calls \o posts), (calls \o posts)[i].what \in TokenKinds
               PROVE  /\ (calls \o posts)[i].to \in Elements(batch)
                      /\ ask[(calls \o posts)[i].to].stream
    BY <1>0, <1>1 DEF PostsOfBatch, posts
  <2>3. CASE i <= Len(calls)
    <3>1. i \in DOMAIN calls /\ (calls \o posts)[i] = calls[i]
      BY <2>2, <2>3
    <3> QED BY <3>1 DEF Delivery, PostsOfBatch
  <2>4. CASE i > Len(calls)
    <3>1. i - Len(calls) \in DOMAIN posts /\ (calls \o posts)[i] = posts[i - Len(calls)]
      BY <2>2, <2>4
    <3> QED BY <2>1, <3>1
  <2> QED BY <2>2, <2>3, <2>4
<1>5. Accounted'
  <2> SUFFICES ASSUME NEW r \in Requests, ask[r].stream
               PROVE  got[r].read + Unread(r) + Posted(calls', r) = rows'[r].tokens
    BY <1>0 DEF Delivery, Accounted, Unread, Ended
  <2>1. got[r].read + Unread(r) + Posted(calls, r) = rows[r].tokens
    BY DEF Delivery, Accounted
  <2> HIDE DEF posts
  <2>2. /\ Posted(calls, r) \in Nat /\ Posted(posts, r) \in Nat
        /\ Posted(calls \o posts, r) = Posted(calls, r) + Posted(posts, r)
    BY <1>0, <1>2, PostedConcat
  <2>3. rows'[r].tokens = rows[r].tokens + Posted(posts, r) /\ rows[r].tokens \in Nat
    <3>1. CASE r \in Elements(batch)
      <4>1. rows'[r] = Stepped(r, samples[r])
        BY <1>a, <3>1
      <4>2. Posted(posts, r) = IF Appends(r, samples[r]) THEN 1 ELSE 0
        BY <1>2, <3>1 DEF Heard
      <4> QED BY <1>0, <4>1, <4>2, SteppedTokens
    <3>2. CASE r \notin Elements(batch)
      <4>1. rows'[r] = rows[r] /\ Posted(posts, r) = 0
        BY <1>a, <1>2, <3>2 DEF Heard
      <4> QED BY <1>0, <4>1, SteppedTokens
    <3> QED BY <3>1, <3>2
  <2>4. Unread(r) \in Int /\ got[r].read \in Int
    <3>1. Len(stream[r]) \in Nat /\ got[r] \in [read: Nat, sent: Nat]
      BY <1>0, LenProperties DEF TypeOK
    <3> QED BY <3>1 DEF Unread
  <2> QED BY <1>1, <2>1, <2>2, <2>3, <2>4 DEF posts
<1> QED BY <1>3, <1>4, <1>5 DEF Delivery

LEMMA ThreadEndsKeeps ==
  ASSUME IInv, Delivery, ThreadReturns \/ DeviceFails
  PROVE  Delivery'
<1>0. /\ Line' = Line /\ UNCHANGED <<ask, status, batch, rows, stream, got>>
      /\ calls \in Seq(Post \cup Return)
  BY DEF IInv, TypeOK, ThreadReturns, DeviceFails, Line
<1>1. PICK end \in Return : calls' = Append(calls, end)
  BY DEF Return, ThreadReturns, DeviceFails
<1>2. InLineOnce' /\ Expected' /\ EndsLast' /\ Settled'
  BY <1>0 DEF Delivery, InLineOnce, Expected, EndsLast, Settled
<1>3. Accounted'
  <2>1. \A r : Posted(calls', r) = Posted(calls, r)
    BY <1>0, <1>1, PostedAppend
  <2>2. \A r : Unread(r)' = Unread(r)
    BY <1>0 DEF Unread, Ended
  <2> SUFFICES ASSUME NEW r \in Requests, ask[r].stream
               PROVE  /\ got[r].sent <= got[r].read
                      /\ got[r].read + Unread(r)' + Posted(calls', r) = rows[r].tokens
    BY <1>0 DEF Accounted
  <2> QED BY <2>1, <2>2 DEF Delivery, Accounted
<1>4. PostsOfBatch'
  <2>1. end.what \notin TokenKinds
    BY Kinds DEF TokenKinds
  <2>a. end \in Post \cup Return
    OBVIOUS
  <2>2. /\ Len(calls) \in Nat /\ DOMAIN calls = 1..Len(calls)
        /\ DOMAIN calls' = 1..Len(calls) + 1 /\ calls'[Len(calls) + 1] = end
        /\ \A i \in 1..Len(calls) : calls'[i] = calls[i]
    BY <1>0, <1>1, <2>a, AppendProperties, LenProperties
  <2>3. \A i \in 1..Len(calls) + 1 : i \in 1..Len(calls) \/ i = Len(calls) + 1
    BY <2>2
  <2> QED BY <1>0, <2>1, <2>2, <2>3 DEF Delivery, PostsOfBatch
<1> QED BY <1>2, <1>3, <1>4 DEF Delivery

(* What one more event does to the stream of a row that is being decoded.  *)
LEMMA LongerStream ==
  ASSUME TypeOK, EndsLast, NEW r \in Requests, r \in Elements(Line),
         NEW e \in StreamEvents, stream'[r] = Append(stream[r], e)
  PROVE  /\ Unread(r) \in Nat
         /\ Unread(r)' = Unread(r) + (IF e \in EndKinds THEN 0 ELSE 1)
         /\ \A i \in DOMAIN stream'[r] : stream'[r][i] \in EndKinds =>
                i = Len(stream'[r]) /\ e \in EndKinds
<1> DEFINE s == stream[r]
           t == stream'[r]
<1>1. /\ s \in Seq(StreamEvents) /\ Len(s) \in Nat /\ DOMAIN s = 1..Len(s)
      /\ s # <<>> => Len(s) \in 1..Len(s)
  <2>1. s \in Seq(StreamEvents)
    BY DEF TypeOK
  <2> HIDE DEF s
  <2>2. Len(s) \in Nat /\ DOMAIN s = 1..Len(s) /\ (s # <<>> => Len(s) \in Nat \ {0})
    BY <2>1, LenProperties, EmptySeq
  <2> QED BY <2>1, <2>2
<1>2. /\ t \in Seq(StreamEvents) /\ t # <<>> /\ Len(t) = Len(s) + 1
      /\ t[Len(s) + 1] = e /\ \A i \in 1..Len(s) : t[i] = s[i]
  BY <1>1, AppendProperties
<1>3. DOMAIN t = 1..Len(s) + 1
  <2> HIDE DEF t
  <2> QED BY <1>2, LenProperties
<1>4. \A i \in DOMAIN s : s[i] \notin EndKinds
  BY DEF EndsLast
<1>5. ~Ended(r)
  BY <1>1, <1>4 DEF Ended
<1>6. Ended(r)' <=> e \in EndKinds
  BY <1>2 DEF Ended
<1>7. ASSUME NEW i \in DOMAIN t, t[i] \in EndKinds PROVE i = Len(t) /\ e \in EndKinds
  <2>1. i \in 1..Len(s) \/ i = Len(s) + 1
    BY <1>1, <1>3
  <2> QED BY <1>1, <1>2, <1>4, <1>7, <2>1
<1> HIDE DEF s, t
<1>8. Unread(r) = Len(s) /\ Unread(r)' = Len(t) - (IF e \in EndKinds THEN 1 ELSE 0)
  <2>1. Unread(r) = Len(s)
    BY <1>1, <1>5 DEF Unread, s
  <2>2. Unread(r)' = Len(t) - (IF Ended(r)' THEN 1 ELSE 0)
    BY DEF Unread, t
  <2>3. CASE e \in EndKinds
    BY <1>6, <2>1, <2>2, <2>3
  <2>4. CASE e \notin EndKinds
    BY <1>6, <2>1, <2>2, <2>4
  <2> QED BY <2>3, <2>4
<1>9. /\ Unread(r) \in Nat
      /\ Unread(r)' = Unread(r) + (IF e \in EndKinds THEN 0 ELSE 1)
  BY <1>1, <1>2, <1>8
<1> QED BY <1>7, <1>9 DEF t

LEMMA TokenReachesStreamKeeps ==
  ASSUME IInv, Delivery, TokenReachesStream
  PROVE  Delivery'
<1>0. /\ TypeOK /\ Line' = Line /\ UNCHANGED <<ask, status, batch, rows, got>>
      /\ calls \in Seq(Post \cup Return) /\ calls # <<>> /\ calls' = Tail(calls)
      /\ stream \in [Requests -> Seq(StreamEvents)]
  BY DEF IInv, TypeOK, TokenReachesStream, Line
<1>1. /\ Len(calls) \in Nat \ {0} /\ DOMAIN calls = 1..Len(calls)
      /\ Len(calls') = Len(calls) - 1 /\ DOMAIN calls' = 1..Len(calls')
      /\ \A i \in 1..Len(calls') : calls'[i] = calls[i + 1]
  BY <1>0, HeadTailProperties, LenProperties, EmptySeq
<1>2. PICK to, what :
         /\ to = Head(calls).to /\ what = Head(calls).what /\ what \in TokenKinds
         /\ stream' = [stream EXCEPT ![to] = Append(stream[to], what)]
  BY DEF TokenReachesStream, TokenKinds
<1>3. /\ to \in Requests /\ to \in Elements(Line) /\ Elements(Line) \subseteq Requests
      /\ what \in StreamEvents /\ what \notin EndKinds
  <2>1. 1 \in DOMAIN calls /\ calls[1] = Head(calls)
    BY <1>0, <1>1
  <2>2. to \in Elements(batch)
    BY <1>2, <2>1 DEF Delivery, PostsOfBatch
  <2>3. Elements(batch) \subseteq Elements(Line) /\ Elements(Line) \subseteq Requests
    BY <1>0, LineFacts, ElementsType
  <2> QED BY <1>2, <2>2, <2>3 DEF TokenKinds, StreamEvents, EndKinds
<1>4. /\ stream'[to] = Append(stream[to], what)
      /\ \A q \in Requests : q # to => stream'[q] = stream[q]
  BY <1>0, <1>2, <1>3
<1>5. /\ Unread(to) \in Nat /\ Unread(to)' = Unread(to) + 1
      /\ \A i \in DOMAIN stream'[to] : stream'[to][i] \notin EndKinds
  BY <1>0, <1>3, <1>4, LongerStream DEF Delivery
<1>6. \A q \in Requests : q # to => Unread(q)' = Unread(q)
  BY <1>4 DEF Unread, Ended
<1>7. InLineOnce' /\ Expected'
  BY <1>0 DEF Delivery, InLineOnce, Expected
<1>8. EndsLast'
  BY <1>0, <1>4, <1>5, Zenon DEF Delivery, EndsLast
<1>9. Settled'
  <2>1. status[to] \in {"waiting", "left"}
    BY <1>3 DEF Delivery, Expected
  <2> QED BY <1>0, <1>4, <2>1 DEF Delivery, Settled
<1>10. PostsOfBatch'
  <2>1. \A i \in DOMAIN calls' : i + 1 \in DOMAIN calls /\ calls'[i] = calls[i + 1]
    BY <1>1
  <2> QED BY <1>0, <2>1, Zenon DEF Delivery, PostsOfBatch
<1>11. Accounted'
  <2> SUFFICES ASSUME NEW q \in Requests, ask[q].stream
               PROVE  /\ got[q].sent <= got[q].read
                      /\ got[q].read + Unread(q)' + Posted(calls', q) = rows[q].tokens
    BY <1>0 DEF Accounted
  <2>1. /\ got[q].sent <= got[q].read
        /\ got[q].read + Unread(q) + Posted(calls, q) = rows[q].tokens
    BY DEF Delivery, Accounted
  <2>2. /\ Posted(calls', q) \in Nat
        /\ Posted(calls, q) = Posted(calls', q) + (IF q = to THEN 1 ELSE 0)
    BY <1>0, <1>2, PostedTail
  <2>3. got[q].read \in Nat
    BY <1>0 DEF TypeOK
  <2>4. CASE q = to
    BY <1>5, <2>1, <2>2, <2>3, <2>4
  <2>5. CASE q # to
    BY <1>6, <2>1, <2>2, <2>5
  <2> QED BY <2>4, <2>5
<1> QED BY <1>7, <1>8, <1>9, <1>10, <1>11 DEF Delivery

(* The batch loop resumes on the last callback of its batch.               *)
LEMMA ResumesLast ==
  ASSUME IInv, BatchResumes
  PROVE  /\ calls' = <<>> /\ calls \in Seq(Post \cup Return) /\ calls # <<>>
         /\ \A r : Posted(calls, r) = 0 /\ Posted(calls', r) = 0
<1>1. /\ calls # <<>> /\ calls \in Seq(Post \cup Return) /\ calls' = Tail(calls)
      /\ Head(calls).what \in {"returned", "raised"}
  BY DEF IInv, TypeOK, BatchResumes
<1>2. calls \notin Seq(Post)
  BY <1>1, HeadTailProperties, Kinds
<1>3. PICK posts \in Seq(Post), last \in Return : calls = Append(posts, last)
  BY <1>2 DEF IInv, CallsInOrder
<1>4. calls' = <<>>
  BY <1>1, <1>3, PostsThenReturn, Kinds
<1>5. \A r : Posted(<<>>, r) = 0
  BY FS_EmptySet DEF Posted, PostsTo
<1>6. \A r : Posted(calls, r) = Posted(calls', r)
  <2>1. Head(calls).what \notin TokenKinds
    BY <1>1 DEF TokenKinds
  <2> TAKE r
  <2>2. /\ Posted(Tail(calls), r) \in Nat
        /\ Posted(calls, r) = Posted(Tail(calls), r) + 0
    BY <1>1, <2>1, PostedTail
  <2> QED BY <1>1, <2>2
<1> QED BY <1>1, <1>4, <1>5, <1>6

LEMMA BatchResumesKeeps ==
  ASSUME IInv, Delivery, BatchResumes
  PROVE  Delivery'
<1> DEFINE failed == Head(calls).what = "raised"
           end == IF failed THEN "error" ELSE "done"
           answer == IF failed THEN "failed" ELSE "ok"
<1>0. /\ TypeOK /\ UNCHANGED <<ask, queue, rows, got>> /\ batch' = <<>>
      /\ queue \in Seq(Requests) /\ Len(queue) \in Nat /\ DOMAIN queue = 1..Len(queue)
  BY LenProperties DEF IInv, TypeOK, BatchResumes
<1>1. stream' = [r \in Requests |-> IF r \in Elements(batch) /\ ask[r].stream
                                   THEN Append(stream[r], end) ELSE stream[r]]
  BY DEF BatchResumes
<1>2. status' = [r \in Requests |-> IF r \in Elements(batch) /\ ~ask[r].stream
                                   THEN answer ELSE status[r]]
  BY DEF BatchResumes
<1>3. end \in EndKinds /\ end \in StreamEvents /\ answer \in {"ok", "failed"}
  BY DEF EndKinds, StreamEvents
<1> HIDE DEF failed, end, answer
<1>4. Line' = queue
  BY <1>0, ConcatEmptySeq DEF Line
<1>5. /\ \A i, j \in DOMAIN queue : queue[i] = queue[j] => i = j
      /\ Elements(batch) \cap Elements(queue) = {}
      /\ Elements(Line) = Elements(batch) \cup Elements(queue)
      /\ Elements(Line) \subseteq Requests
  BY <1>0, OnceFacts, LineFacts, ElementsType DEF Delivery
<1>6. ASSUME NEW r \in Requests, r \in Elements(batch), ask[r].stream
      PROVE  /\ stream'[r] # <<>> /\ Unread(r)' = Unread(r)
             /\ \A i \in DOMAIN stream'[r] : stream'[r][i] \in EndKinds => i = Len(stream'[r])
  <2>1. stream'[r] = Append(stream[r], end) /\ r \in Elements(Line)
    BY <1>1, <1>5, <1>6
  <2>2. /\ Unread(r) \in Nat /\ Unread(r)' = Unread(r) + 0
        /\ \A i \in DOMAIN stream'[r] : stream'[r][i] \in EndKinds => i = Len(stream'[r])
    BY <1>0, <1>3, <2>1, LongerStream DEF Delivery
  <2>3. stream[r] \in Seq(StreamEvents)
    BY <1>0 DEF TypeOK
  <2> QED BY <1>3, <2>1, <2>2, <2>3, AppendProperties
<1>7. \A r \in Requests : ~(r \in Elements(batch) /\ ask[r].stream) =>
            stream'[r] = stream[r] /\ Unread(r)' = Unread(r)
  BY <1>1 DEF Unread, Ended
<1>8. InLineOnce'
  BY <1>4, <1>5 DEF InLineOnce
<1>9. Expected'
  <2>1. Elements(Line') = Elements(queue)
    BY <1>4 DEF Elements
  <2> QED BY <1>0, <1>2, <1>5, <2>1 DEF Delivery, Expected
<1>10. PostsOfBatch'
  BY ResumesLast DEF PostsOfBatch
<1>11. EndsLast'
  <2> SUFFICES ASSUME NEW r \in Requests, NEW i \in DOMAIN stream'[r], stream'[r][i] \in EndKinds
               PROVE  i = Len(stream'[r]) /\ r \notin Elements(queue)
    BY <1>4 DEF EndsLast
  <2>1. CASE r \in Elements(batch) /\ ask[r].stream
    BY <1>5, <1>6, <2>1
  <2>2. CASE ~(r \in Elements(batch) /\ ask[r].stream)
    BY <1>5, <1>7, <2>2 DEF Delivery, EndsLast
  <2> QED BY <2>1, <2>2
<1>12. Settled'
  <2> SUFFICES ASSUME NEW r \in Requests,
                      status'[r] = "new" \/ (ask[r].stream /\ status'[r] \in {"ok", "failed"})
               PROVE  stream'[r] = <<>>
    BY <1>0 DEF Settled
  <2>1. status'[r] = status[r]
    BY <1>2, <1>3
  <2>2. r \notin Elements(Line)
    BY <2>1 DEF Delivery, Expected
  <2> QED BY <1>5, <1>7, <2>1, <2>2 DEF Delivery, Settled
<1>13. Accounted'
  <2> SUFFICES ASSUME NEW r \in Requests, ask[r].stream
               PROVE  /\ got[r].sent <= got[r].read
                      /\ got[r].read + Unread(r)' + Posted(calls', r) = rows[r].tokens
    BY <1>0 DEF Accounted
  <2>1. Unread(r)' = Unread(r) /\ Posted(calls', r) = Posted(calls, r)
    BY <1>6, <1>7, ResumesLast
  <2> QED BY <2>1 DEF Delivery, Accounted
<1> QED BY <1>8, <1>9, <1>10, <1>11, <1>12, <1>13 DEF Delivery

LEMMA InitDelivery == Init => Delivery
<1> SUFFICES ASSUME Init PROVE Delivery
  OBVIOUS
<1>0. /\ batch = <<>> /\ queue = <<>> /\ calls = <<>>
      /\ \A r \in Requests : /\ stream[r] = <<>> /\ rows[r].tokens = 0
                             /\ got[r].read = 0 /\ got[r].sent = 0
  BY DEF Init
<1>1. Line = <<>> /\ Elements(Line) = {}
  BY <1>0 DEF Line, Elements
<1>2. \A r : Posted(calls, r) = 0
  BY <1>0, FS_EmptySet DEF Posted, PostsTo
<1>3. \A r \in Requests : Unread(r) = 0
  BY <1>0 DEF Unread, Ended
<1>4. InLineOnce /\ Expected /\ PostsOfBatch /\ EndsLast /\ Settled
  BY <1>0, <1>1 DEF InLineOnce, Expected, PostsOfBatch, EndsLast, Settled
<1>5. Accounted
  BY <1>0, <1>2, <1>3 DEF Accounted
<1> QED BY <1>4, <1>5 DEF Delivery

LEMMA NextDelivery == IInv /\ Delivery /\ [Next]_vars => Delivery'
<1> SUFFICES ASSUME IInv, Delivery, [Next]_vars PROVE Delivery'
  OBVIOUS
<1>1. CASE BatchLoop \/ Sigterm \/ StopWorker \/ UNCHANGED vars
  BY <1>1, QuietSteps, QuietKeeps
<1>2. ASSUME NEW r \in Requests, Arrive(r) \/ ClientLeaves(r) \/ SseReads(r) PROVE Delivery'
  BY <1>2, ArriveKeeps, ClientLeavesKeeps, SseReadsKeeps
<1>3. CASE Thread
  BY <1>3, DecodeStepKeeps, ThreadEndsKeeps DEF Thread
<1>4. CASE Callbacks
  BY <1>4, TokenReachesStreamKeeps, BatchResumesKeeps DEF Callbacks
<1> QED BY <1>1, <1>2, <1>3, <1>4 DEF Next

LEMMA DeliveryInvariant == Spec => [](IInv /\ Delivery)
<1>1. Init => IInv /\ Delivery
  BY InitInv, InitDelivery
<1>2. (IInv /\ Delivery) /\ [Next]_vars => (IInv /\ Delivery)'
  BY NextInv, NextDelivery
<1> QED BY <1>1, <1>2, PTL DEF Spec

(* A client whose stream ended well has read every token of its row: the   *)
(* end was posted behind the last token and put into the stream behind it, *)
(* and nothing is on its way any more.                                     *)
THEOREM EndIsLastCorrect == Spec => []EndIsLast
<1>1. ASSUME IInv, Delivery PROVE EndIsLast
  <2> SUFFICES ASSUME NEW r \in Requests, ask[r].stream, status[r] = "ok"
               PROVE  got[r].read = rows[r].tokens
    BY DEF EndIsLast
  <2>1. stream[r] = <<>>
    BY <1>1 DEF Delivery, Settled
  <2>2. Unread(r) = 0
    BY <2>1 DEF Unread, Ended
  <2>3. r \notin Elements(batch)
    BY <1>1, LineFacts DEF IInv, Delivery, Expected
  <2>4. PostsTo(calls, r) = {}
    BY <1>1, <2>3 DEF Delivery, PostsOfBatch, PostsTo
  <2>5. Posted(calls, r) = 0
    BY <2>4, FS_EmptySet DEF Posted
  <2>6. got[r].read + Unread(r) + Posted(calls, r) = rows[r].tokens
    BY <1>1 DEF Delivery, Accounted
  <2>7. got[r].read \in Nat
    BY <1>1 DEF IInv, TypeOK
  <2> QED BY <2>2, <2>5, <2>6, <2>7
<1> QED BY <1>1, DeliveryInvariant, PTL

-------------------------------------------------------------------------------
(* The refinement: what a client is promised.                              *)

Allowed == [r \in Requests |-> Limit(r)]
StageOf(r) == IF status[r] = "new" THEN "new" ELSE IF status[r] = "waiting" THEN "open" ELSE "over"
Stage == [r \in Requests |-> StageOf(r)]
TokensOf(r) ==
    IF ask[r].stream THEN got[r].sent ELSE IF status[r] = "ok" THEN rows[r].tokens ELSE 0
Received == [r \in Requests |-> TokensOf(r)]

LEMMA InitPromise == Init => Promise!Init
<1> SUFFICES ASSUME Init PROVE Promise!Init
  OBVIOUS
<1>1. \A r \in Requests : Limit(r) \in Int
  BY InitInv, AdmissibleLimit DEF IInv
<1> QED BY <1>1 DEF Init, Promise!Init

(* Neither what a request may get nor anything else that is promised       *)
(* changes in a step that leaves requests, rows and clients alone.         *)
LEMMA AllowedStays ==
  ASSUME UNCHANGED ask
  PROVE  Allowed' = Allowed
  BY DEF Allowed, Limit, Room

LEMMA NothingTold ==
  ASSUME UNCHANGED ask,
         \A r \in Requests : StageOf(r)' = StageOf(r) /\ TokensOf(r)' = TokensOf(r)
  PROVE  UNCHANGED <<Allowed, Stage, Received>>
  BY AllowedStays DEF Stage, Received

LEMMA TokensType ==
  ASSUME IInv, Delivery, NEW r \in Requests
  PROVE  TokensOf(r) \in Nat
<1>1. /\ got[r] \in [read: Nat, sent: Nat]
      /\ rows[r] \in [tokens: Nat, done: BOOLEAN, reason: Reasons]
  BY DEF IInv, TypeOK
<1> QED BY <1>1 DEF TokensOf

(* One event of a stream is text, or a token kept back, or the end.        *)
LEMMA SseReadsTells ==
  ASSUME IInv, Delivery, NEW r \in Requests, SseReads(r)
  PROVE  \/ Promise!Text(r)
         \/ Promise!Answer({r})
         \/ UNCHANGED <<Allowed, Stage, Received>>
<1>0. /\ TypeOK /\ UNCHANGED <<ask, rows>>
      /\ ask[r].stream /\ status[r] = "waiting" /\ stream[r] # <<>>
      /\ got \in [Requests -> [read: Nat, sent: Nat]] /\ status \in [Requests -> Statuses]
      /\ stream'[r] = Tail(stream[r])
  BY DEF IInv, TypeOK, SseReads
<1>1. Allowed' = Allowed
  BY <1>0, AllowedStays
<1>2. CASE Head(stream[r]) \in EndKinds
  <2>1. got' = got /\ \E s \in {"ok", "failed"} : status' = [status EXCEPT ![r] = s]
    BY <1>2 DEF SseReads, EndKinds
  <2>2. PICK s \in {"ok", "failed"} : status' = [status EXCEPT ![r] = s]
    BY <2>1
  <2>3. \A q \in Requests : TokensOf(q)' = TokensOf(q) /\ TokensOf(q) \in Nat
    BY <1>0, <2>1, <2>2, TokensType DEF TokensOf
  <2>4. /\ StageOf(r) = "open" /\ StageOf(r)' = "over"
        /\ \A q \in Requests : q # r => StageOf(q)' = StageOf(q)
    BY <1>0, <2>2 DEF StageOf
  <2>5. Stage' = [c \in Requests |-> IF c \in {r} THEN "over" ELSE Stage[c]]
    BY <2>4 DEF Stage
  <2>6. Received' = Received /\ Received \in [Requests -> Nat]
    BY <2>3 DEF Received
  <2> QED BY <1>1, <2>4, <2>5, <2>6 DEF Promise!Answer, Allowed, Stage, Received, StageOf, TokensOf
<1>3. CASE Head(stream[r]) \notin EndKinds
  <2>1. status' = status /\ Stage' = Stage
    BY <1>3 DEF SseReads, EndKinds, Stage, StageOf
  <2>2. CASE got' = [got EXCEPT ![r].read = got[r].read + 1]
    <3>1. \A q \in Requests : got'[q].sent = got[q].sent
      BY <1>0, <2>2
    <3> QED BY <1>0, <1>1, <2>1, <3>1 DEF Received, TokensOf
  <2>3. CASE got' = [got EXCEPT ![r] = [read |-> got[r].read + 1, sent |-> got[r].read + 1]]
    <3> DEFINE n == got[r].read + 1
    <3>1. Received' = [Received EXCEPT ![r] = n]
      BY <1>0, <2>1, <2>3 DEF Received, TokensOf
    <3>2. Received[r] = got[r].sent /\ Allowed[r] = Limit(r) /\ Stage[r] = "open"
      BY <1>0 DEF Received, TokensOf, Allowed, Stage, StageOf
    <3>3. n \in got[r].sent + 1 .. Limit(r)
      <4>1. /\ got[r].sent <= got[r].read
            /\ got[r].read + Unread(r) + Posted(calls, r) = rows[r].tokens
        BY <1>0 DEF Delivery, Accounted
      <4>2. Unread(r) \in Nat \ {0}
        BY <1>0, <1>3, RestOfStream DEF Delivery
      <4>3. Posted(calls, r) \in Nat
        <5>1. calls \in Seq(Post \cup Return) /\ <<>> \in Seq(Post \cup Return)
          BY <1>0, EmptySeq DEF TypeOK
        <5> QED BY <5>1, PostedConcat
      <4>4. got[r].read \in Nat /\ got[r].sent \in Nat
        BY <1>0
      <4>5. rows[r].tokens \in Nat /\ (rows[r].tokens > 0 => rows[r].tokens <= Limit(r))
        BY DEF IInv, TypeOK, RowLimits
      <4>6. Limit(r) \in Int
        BY <1>0, AdmissibleLimit
      <4> QED BY <4>1, <4>2, <4>3, <4>4, <4>5, <4>6
    <3> HIDE DEF n
    <3>4. \E k \in Received[r] + 1 .. Allowed[r] : Received' = [Received EXCEPT ![r] = k]
      BY <3>1, <3>2, <3>3
    <3> QED BY <1>1, <2>1, <3>2, <3>4
            DEF Promise!Text, Allowed, Stage, Received, StageOf, TokensOf
  <2> QED BY <1>3, <2>2, <2>3 DEF SseReads, EndKinds
<1> QED BY <1>2, <1>3

(* The end of a batch answers every request of it that has no stream.      *)
LEMMA BatchResumesTells ==
  ASSUME IInv, Delivery, BatchResumes
  PROVE  \E S \in SUBSET Requests : Promise!Answer(S)
<1>s. PICK S : S = {r \in Elements(batch) : ~ask[r].stream}
  OBVIOUS
<1> DEFINE answer == IF Head(calls).what = "raised" THEN "failed" ELSE "ok"
<1>0. /\ TypeOK /\ UNCHANGED <<ask, rows, got>> /\ answer \in {"ok", "failed"}
      /\ Elements(batch) \subseteq Requests
      /\ status' = [r \in Requests |-> IF r \in S THEN answer ELSE status[r]]
  BY <1>s, ElementsType DEF IInv, TypeOK, BatchResumes
<1>1. Allowed' = Allowed
  BY <1>0, AllowedStays
<1>2. \A r \in S : status[r] = "waiting" /\ ~ask[r].stream
  BY <1>s, <1>0, LineFacts DEF Delivery, Expected
<1>3. S \in SUBSET Requests
  BY <1>s, <1>0
<1> HIDE DEF answer
<1>4. \A r \in S : Stage[r] = "open"
  BY <1>2, <1>3 DEF Stage, StageOf
<1>5. Stage' = [r \in Requests |-> IF r \in S THEN "over" ELSE Stage[r]]
  BY <1>0 DEF Stage, StageOf
<1>6. ASSUME NEW r \in Requests
      PROVE  /\ TokensOf(r)' >= TokensOf(r) /\ TokensOf(r)' \in Nat
             /\ TokensOf(r)' # TokensOf(r) => r \in S /\ TokensOf(r)' <= Limit(r)
  <2>1. TokensOf(r) \in Nat
    BY TokensType
  <2>2. CASE r \in S
    <3>1. /\ rows[r].tokens \in Nat /\ (rows[r].tokens > 0 => rows[r].tokens <= Limit(r))
          /\ Limit(r) \in Int
      BY <1>0, AdmissibleLimit DEF IInv, TypeOK, RowLimits
    <3>2. TokensOf(r) = 0 /\ TokensOf(r)' \in {0, rows[r].tokens}
      BY <1>0, <1>2, <2>2 DEF TokensOf
    <3> QED BY <2>2, <3>1, <3>2
  <2>3. CASE r \notin S
    <3>1. TokensOf(r)' = TokensOf(r)
      BY <1>0, <2>3 DEF TokensOf
    <3> QED BY <2>1, <3>1
  <2> QED BY <2>2, <2>3
<1>7. /\ Received' \in [Requests -> Nat]
      /\ \A r \in Requests :
            /\ Received'[r] >= Received[r]
            /\ Received'[r] # Received[r] => r \in S /\ Received'[r] <= Allowed[r]
  BY <1>6 DEF Received, Allowed
<1>8. Promise!Answer(S)
  BY <1>1, <1>4, <1>5, <1>7 DEF Promise!Answer, Allowed, Stage, Received, StageOf, TokensOf
<1> QED BY <1>3, <1>8

LEMMA NextPromise ==
  IInv /\ Delivery /\ [Next]_vars => [Promise!Next]_<<Allowed, Stage, Received>>
<1> SUFFICES ASSUME IInv, Delivery, [Next]_vars
             PROVE  Promise!Next \/ UNCHANGED <<Allowed, Stage, Received>>
  OBVIOUS
<1>0. TypeOK /\ status \in [Requests -> Statuses]
  BY DEF IInv, TypeOK
<1>1. ASSUME UNCHANGED <<ask, status, rows, got>>
      PROVE  UNCHANGED <<Allowed, Stage, Received>>
  BY <1>1, NothingTold DEF StageOf, TokensOf
<1>2. CASE BatchLoop \/ Sigterm \/ StopWorker \/ UNCHANGED vars
  BY <1>1, <1>2, QuietSteps DEF Quiet
<1>3. ASSUME NEW r \in Requests, Arrive(r) PROVE Promise!Next
  <2>1. /\ UNCHANGED <<ask, rows, got>> /\ status[r] = "new"
        /\ \E s \in {"waiting", "refused"} : status' = [status EXCEPT ![r] = s]
    BY <1>3 DEF Arrive
  <2>2. PICK s \in {"waiting", "refused"} : status' = [status EXCEPT ![r] = s]
    BY <2>1
  <2>3. Allowed' = Allowed
    BY <2>1, AllowedStays
  <2>4. Received' = Received
    BY <1>0, <2>1, <2>2 DEF Received, TokensOf
  <2>5. Stage[r] = "new" /\ Stage' = [Stage EXCEPT ![r] = IF s = "waiting" THEN "open" ELSE "over"]
    BY <1>0, <2>1, <2>2 DEF Stage, StageOf
  <2>6. Promise!Open(r) \/ Promise!Refuse(r)
    BY <2>2, <2>3, <2>4, <2>5
       DEF Promise!Open, Promise!Refuse, Allowed, Stage, Received, StageOf, TokensOf
  <2> QED BY <2>6 DEF Promise!Next
<1>4. ASSUME NEW r \in Requests, ClientLeaves(r) PROVE Promise!Next
  <2>1. /\ UNCHANGED <<ask, rows, got>> /\ status[r] = "waiting" /\ ask[r].stream
        /\ status' = [status EXCEPT ![r] = "left"]
    BY <1>4 DEF ClientLeaves
  <2>2. Allowed' = Allowed
    BY <2>1, AllowedStays
  <2>3. Received' = Received /\ Received \in [Requests -> Nat]
    BY <1>0, <2>1, TokensType DEF Received, TokensOf
  <2>4. /\ Stage[r] = "open"
        /\ Stage' = [c \in Requests |-> IF c \in {r} THEN "over" ELSE Stage[c]]
    BY <1>0, <2>1 DEF Stage, StageOf
  <2>5. Promise!Answer({r})
    BY <2>2, <2>3, <2>4 DEF Promise!Answer, Allowed, Stage, Received, StageOf, TokensOf
  <2> QED BY <2>5 DEF Promise!Next
<1>5. ASSUME NEW r \in Requests, SseReads(r)
      PROVE  Promise!Next \/ UNCHANGED <<Allowed, Stage, Received>>
  BY <1>5, SseReadsTells DEF Promise!Next
<1>6. CASE DecodeStep
  <2>1. /\ UNCHANGED <<ask, status, got>>
        /\ \A r \in Requests : r \notin Elements(batch) => rows'[r] = rows[r]
    BY <1>6 DEF DecodeStep
  <2>2. \A r \in Elements(batch) : status[r] # "ok"
    BY <1>0, LineFacts DEF Delivery, Expected
  <2> QED BY <2>1, <2>2, NothingTold DEF StageOf, TokensOf
<1>7. CASE ThreadReturns \/ DeviceFails \/ TokenReachesStream
  BY <1>1, <1>7 DEF ThreadReturns, DeviceFails, TokenReachesStream
<1>8. CASE BatchResumes
  BY <1>8, BatchResumesTells DEF Promise!Next
<1> QED BY <1>2, <1>3, <1>4, <1>5, <1>6, <1>7, <1>8 DEF Next, Thread, Callbacks

(* The server implements Completions: a request is answered at most once,  *)
(* what a client has received only grows and stays within its limit, and   *)
(* nothing follows the answer.                                             *)
THEOREM PromiseKeptCorrect == Spec => PromiseKept
<1>1. PromiseKept <=> Promise!Init /\ [][Promise!Next]_<<Allowed, Stage, Received>>
  BY DEF PromiseKept, Promise!Spec, Allowed, Stage, Received, StageOf, TokensOf
<1> QED BY <1>1, InitPromise, NextPromise, DeliveryInvariant, PTL DEF Spec

===============================================================================
