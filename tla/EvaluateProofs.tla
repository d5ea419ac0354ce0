----------------------------- MODULE EvaluateProofs ----------------------------
(***************************************************************************)
(* For every message: the verdict read from it is one it states.  For      *)
(* every worksheet, pool and way of answering: the state is well formed,   *)
(* the verdict that stands in a row is the one its own prompt was given,   *)
(* and the sheet that is made of the counts shows every row once.          *)
(***************************************************************************)
EXTENDS Evaluate, SumTheorems

-------------------------------------------------------------------------------
(* Reading a message.                                                      *)

LEMMA LineFacts ==
  ASSUME NEW x \in Line
  PROVE  /\ x.label \in Labels \cup {UNKNOWN}
         /\ x.how = "alone" => x.label # UNKNOWN
         /\ x.how \in {"open", "close", "long"} => x.label = UNKNOWN
  BY LabelsAssumption DEF Line, Bearing

LEMMA LastLabelIsStated ==
  ASSUME NEW text \in Seq(Line), NEW places \in SUBSET DOMAIN text,
         LastLabel(text, places) # UNKNOWN
  PROVE  \E i \in places : text[i].label = LastLabel(text, places)
<1> DEFINE bears == {i \in places : text[i].label # UNKNOWN}
<1>1. bears # {} /\ LastLabel(text, places) = text[Max(bears)].label
  BY DEF LastLabel
<1>2. Len(text) \in Nat /\ bears \subseteq 1..Len(text)
  BY LenProperties
<1> HIDE DEF bears
<1>3. Max(bears) \in bears
  BY <1>1, <1>2, MaxOf
<1> QED BY <1>1, <1>3 DEF bears

(* A parsed label stands at a visible place behind every long passage.     *)
LEMMA ParsedIsStated ==
  ASSUME NEW text \in Seq(Line), NEW reading,
         ParseLabel(text, Visible(text), reading) # UNKNOWN
  PROVE  \E i \in Visible(text) :
            /\ text[i].label = ParseLabel(text, Visible(text), reading)
            /\ reading = "exact" => text[i].how = "alone"
            /\ \A k \in Visible(text) : text[k].how = "long" => k < i
<1> DEFINE places == Visible(text)
           last == Max(places)
           label == ParseLabel(text, places, reading)
<1>1. Len(text) \in Nat /\ DOMAIN text = 1..Len(text) /\ places \in SUBSET DOMAIN text
  BY LenProperties DEF Visible
<1>2. places # {}
  BY DEF ParseLabel
<1> HIDE DEF places
<1>3. last \in places /\ \A k \in places : k <= last
  BY <1>1, <1>2, MaxOf
<1> HIDE DEF last
<1>4. text[last] \in Line /\ last \in 1..Len(text)
  BY <1>1, <1>3, ElementOfSeq
<1>5. CASE label = text[last].label /\ (reading = "exact" => text[last].how = "alone")
  <2>1. text[last].how # "long"
    BY <1>4, <1>5, LineFacts DEF places
  <2>2. \A k \in places : text[k].how = "long" => k < last
    <3> SUFFICES ASSUME NEW k \in places, text[k].how = "long" PROVE k < last
      OBVIOUS
    <3>1. k # last /\ k <= last /\ k \in 1..Len(text)
      BY <1>1, <1>3, <2>1
    <3> QED BY <1>4, <3>1
  <2> QED BY <1>3, <1>5, <2>2 DEF places
<1>6. CASE reading # "exact" /\ label = LastLabel(text, Closing(text, places))
  <2>1. Closing(text, places) \in SUBSET DOMAIN text
    BY <1>1 DEF Closing
  <2>2. PICK i \in Closing(text, places) : text[i].label = label
    BY <1>6, <2>1, LastLabelIsStated DEF places
  <2> QED BY <1>6, <2>2 DEF Closing, places
<1>7. \/ label = text[last].label /\ (reading = "exact" => text[last].how = "alone")
      \/ reading # "exact" /\ label = LastLabel(text, Closing(text, places))
  BY <1>2 DEF ParseLabel, last, places
<1> QED BY <1>5, <1>6, <1>7

LEMMA ConclusionIsStated ==
  ASSUME NEW text \in Seq(Line), Conclusion(text) # UNKNOWN
  PROVE  \E i \in DOMAIN text : text[i].label = Conclusion(text) /\ text[i].how = "declared"
<1> DEFINE places == {i \in DOMAIN text : text[i].how = "declared"}
<1>1. PICK i \in places : text[i].label = LastLabel(text, places)
  BY LastLabelIsStated DEF Conclusion
<1> QED BY <1>1 DEF Conclusion

(* A try that finds a label finds it in one of the two texts.              *)
Found(m, text, i, label) ==
    /\ text \in {m.content, m.reasoning} /\ i \in DOMAIN text /\ text[i].label = label
    /\ m.cut => text[i].how \in {"alone", "declared"}
    /\ \/ text[i].how = "declared"
       \/ /\ i \in Visible(text)
          /\ \A k \in Visible(text) : text[k].how = "long" => k < i

LEMMA TriesFind ==
  ASSUME NEW m \in Message, NEW k \in DOMAIN Tries(m), Tries(m)[k].label # UNKNOWN
  PROVE  \E text \in {m.content, m.reasoning} : \E i \in DOMAIN text :
            Found(m, text, i, Tries(m)[k].label)
<1>1. m.content \in Seq(Line) /\ m.reasoning \in Seq(Line) /\ m.cut \in BOOLEAN
  BY DEF Message
<1>2. ASSUME NEW text \in {m.content, m.reasoning}, NEW reading, m.cut => reading = "exact",
             ParseLabel(text, Visible(text), reading) # UNKNOWN
      PROVE  \E i \in DOMAIN text : Found(m, text, i, ParseLabel(text, Visible(text), reading))
  <2>1. PICK i \in Visible(text) :
            /\ text[i].label = ParseLabel(text, Visible(text), reading)
            /\ reading = "exact" => text[i].how = "alone"
            /\ \A j \in Visible(text) : text[j].how = "long" => j < i
    BY <1>1, <1>2, ParsedIsStated
  <2>2. i \in DOMAIN text
    BY DEF Visible
  <2> QED BY <1>2, <2>1, <2>2 DEF Found
<1>3. ASSUME NEW text \in {m.content, m.reasoning}, Conclusion(text) # UNKNOWN
      PROVE  \E i \in DOMAIN text : Found(m, text, i, Conclusion(text))
  BY <1>1, <1>3, ConclusionIsStated DEF Found
<1> DEFINE strict == IF m.cut THEN "exact" ELSE "tail"
           label == Tries(m)[k].label
<1>4. \/ \E text \in {m.content, m.reasoning} :
            label \in {ParseLabel(text, Visible(text), strict), Conclusion(text)}
      \/ /\ ~m.cut
         /\ \E text \in {m.content, m.reasoning} :
               label = ParseLabel(text, Visible(text), "loose")
  <2>1. k \in 1..6
    BY DEF Tries
  <2>2. CASE k \in {1, 2}
    BY <2>2 DEF Tries
  <2>3. CASE k \in {3, 4}
    BY <2>3 DEF Tries
  <2>4. CASE k \in {5, 6}
    BY <2>4 DEF Tries
  <2> QED BY <2>1, <2>2, <2>3, <2>4
<1>5. m.cut => strict = "exact"
  OBVIOUS
<1> HIDE DEF strict, label
<1> QED BY <1>2, <1>3, <1>4, <1>5 DEF label

Sources == {"answer", "reasoning", "conclusion", "loose"}

(* A verdict is that of the first try that finds one.                      *)
LEMMA ExtractFacts ==
  ASSUME NEW m \in Message
  PROVE  /\ Extract(m).label = UNKNOWN => Extract(m).source = "none"
         /\ Extract(m).label # UNKNOWN =>
               /\ Extract(m).source \in Sources
               /\ \E k \in DOMAIN Tries(m) : Extract(m) = Tries(m)[k]
         /\ Tries(m)[1].label # UNKNOWN => Extract(m) = Tries(m)[1]
<1> DEFINE hits == {k \in DOMAIN Tries(m) : Tries(m)[k].label # UNKNOWN}
<1>1. DOMAIN Tries(m) = 1..6 /\ \A k \in 1..6 : Tries(m)[k].source \in Sources
  BY DEF Tries, Sources
<1>2. hits \subseteq Nat /\ \A k \in hits : k \in 1..6
  BY <1>1
<1>3. Extract(m) = IF hits = {} THEN [label |-> UNKNOWN, source |-> "none"] ELSE Tries(m)[Min(hits)]
  BY Zenon DEF Extract
<1>4. \A k \in hits : k \in 1..6 /\ Tries(m)[k].label # UNKNOWN
  BY <1>1
<1>5. Tries(m)[1].label # UNKNOWN => 1 \in hits
  BY <1>1
<1> HIDE DEF hits
<1>6. CASE hits = {}
  BY <1>3, <1>5, <1>6
<1>7. CASE hits # {}
  <2>1. Min(hits) \in hits /\ \A k \in hits : Min(hits) <= k
    BY <1>2, <1>7, MinOf
  <2>2. Extract(m) = Tries(m)[Min(hits)]
    BY <1>3, <1>7
  <2>3. 1 \in hits => Min(hits) = 1
    <3>1. Min(hits) \in 1..6
      BY <1>4, <2>1
    <3>2. 1 \in hits => Min(hits) <= 1
      BY <2>1
    <3> QED BY <3>1, <3>2
  <2>4. PICK k \in 1..6 : k = Min(hits) /\ Tries(m)[k].label # UNKNOWN
    BY <1>4, <2>1
  <2>5. /\ Extract(m).label # UNKNOWN /\ Extract(m).source \in Sources
        /\ \E j \in DOMAIN Tries(m) : Extract(m) = Tries(m)[j]
    <3>1. Extract(m) = Tries(m)[k] /\ k \in DOMAIN Tries(m) /\ Tries(m)[k].source \in Sources
      BY <1>1, <2>2, <2>4
    <3> QED BY <2>4, <3>1
  <2>6. Tries(m)[1].label # UNKNOWN => Extract(m) = Tries(m)[1]
    BY <1>5, <2>2, <2>3
  <2> QED BY <2>5, <2>6
<1> QED BY <1>6, <1>7

LEMMA VisibleFacts ==
  ASSUME NEW text \in Seq(Line)
  PROVE  /\ ~Opens(text) => Visible(text) = 1..Len(text)
         /\ \A i \in Visible(text) : ~InOpenBlock(text, i)
<1>1. Len(text) \in Nat /\ DOMAIN text = 1..Len(text)
  BY LenProperties
<1>2. ~Opens(text) => Visible(text) = 1..Len(text)
  <2> SUFFICES ASSUME ~Opens(text), NEW i \in 1..Len(text) PROVE i \in Visible(text)
    BY <1>1 DEF Visible
  <2>1. \A o \in 1..i : o \in 1..Len(text) /\ text[o].how # "open"
    BY <1>1 DEF Opens
  <2> QED BY <1>1, <2>1 DEF Visible
<1>3. ASSUME NEW i \in Visible(text), InOpenBlock(text, i) PROVE FALSE
  <2>1. i \in 1..Len(text)
    BY <1>1 DEF Visible
  <2>2. PICK o \in 1..i : text[o].how = "open" /\ \A c \in o..Len(text) : text[c].how # "close"
    BY <1>3 DEF InOpenBlock
  <2>3. PICK c \in o + 1..i - 1 : text[c].how = "close"
    BY <2>2 DEF Visible
  <2>4. c \in o..Len(text)
    BY <1>1, <2>1
  <2> QED BY <2>2, <2>3, <2>4
<1> QED BY <1>2, <1>3

(* Whatever the message, of any length: what is extracted is stated.       *)
LEMMA ExtractIsStated ==
  ASSUME NEW m \in Message
  PROVE  Stated(m)
<1>1. m.content \in Seq(Line) /\ m.reasoning \in Seq(Line) /\ m.cut \in BOOLEAN
  BY DEF Message
<1> DEFINE v == Extract(m)
           c == m.content
           r == m.reasoning
<1>2. /\ Len(c) \in Nat /\ DOMAIN c = 1..Len(c)
      /\ Len(r) \in Nat /\ DOMAIN r = 1..Len(r)
  BY <1>1, LenProperties
<1>3. ASSUME v.label # UNKNOWN
      PROVE  \E text \in {c, r} : \E i \in DOMAIN text : Found(m, text, i, v.label)
  BY <1>3, ExtractFacts, TriesFind
<1>4. \A text \in {c, r} : \A i \in DOMAIN text : text[i] \in ToSet(c \o r)
  <2>1. /\ c \o r \in Seq(Line) /\ Len(c \o r) = Len(c) + Len(r)
        /\ \A i \in 1..Len(c) + Len(r) : (c \o r)[i] = IF i <= Len(c) THEN c[i] ELSE r[i - Len(c)]
    BY <1>1, ConcatProperties
  <2>2. DOMAIN (c \o r) = 1..Len(c) + Len(r)
    BY <2>1, LenProperties
  <2> HIDE DEF c, r
  <2>3. \A i \in 1..Len(c) : i \in DOMAIN (c \o r) /\ (c \o r)[i] = c[i]
    BY <1>2, <2>1, <2>2
  <2>4. ASSUME NEW i \in 1..Len(r)
        PROVE  Len(c) + i \in DOMAIN (c \o r) /\ (c \o r)[Len(c) + i] = r[i]
    <3>1. Len(c) + i \in 1..Len(c) + Len(r) /\ ~(Len(c) + i <= Len(c)) /\ (Len(c) + i) - Len(c) = i
      BY <1>2
    <3> QED BY <2>1, <2>2, <3>1
  <2> QED BY <1>2, <2>3, <2>4 DEF ToSet
<1>5. v.label # UNKNOWN => \E x \in ToSet(c \o r) :
          x.label = v.label /\ (m.cut => x.how \in {"alone", "declared"})
  BY <1>3, <1>4 DEF Found
<1>6. ASSUME c # <<>>, Last(c).how = "alone", ~Opens(c)
      PROVE  v.label = Last(c).label
  <2> DEFINE n == Len(c)
  <2>1. n \in Nat \ {0} /\ Last(c) = c[n] /\ c[n] \in Line
    BY <1>1, <1>2, <1>6, EmptySeq, ElementOfSeq DEF Last
  <2>2. Visible(c) = 1..n /\ Visible(c) # {}
    BY <1>1, <1>6, <2>1, VisibleFacts
  <2> HIDE DEF n
  <2>3. Max(Visible(c)) = n
    <3>1. Max(1..n) \in 1..n /\ \A y \in 1..n : y <= Max(1..n)
      BY <2>1, <2>2, MaxOf
    <3> QED BY <2>1, <2>2, <3>1
  <2>4. \A reading : ParseLabel(c, Visible(c), reading) = c[n].label
    BY <1>6, <2>1, <2>2, <2>3 DEF ParseLabel
  <2>5. Tries(m)[1].label = c[n].label /\ c[n].label # UNKNOWN
    BY <1>6, <2>1, <2>4, LineFacts DEF Tries
  <2> QED BY <2>1, <2>5, ExtractFacts
<1>7. ASSUME v.label # UNKNOWN,
             \A i \in DOMAIN r : SaysNothing(r, i),
             \A i \in DOMAIN c : SaysNothing(c, i) \/ ~(c[i].how = "declared" \/ ~InOpenBlock(c, i))
      PROVE  FALSE
  <2>1. PICK text \in {c, r} : \E i \in DOMAIN text : Found(m, text, i, v.label)
    BY <1>3, <1>7
  <2>2. PICK i \in DOMAIN text : Found(m, text, i, v.label)
    BY <2>1
  <2>3. text \in Seq(Line) /\ Len(text) \in Nat /\ DOMAIN text = 1..Len(text)
    BY <1>1, <1>2
  <2>4. text[i].label # UNKNOWN
    BY <1>7, <2>2 DEF Found
  <2>5. CASE SaysNothing(text, i)
    <3>1. text[i].how = "echo" /\ ~Opens(text)
      BY <2>4, <2>5 DEF SaysNothing
    <3>2. PICK k \in i..Len(text) : text[k].how = "long"
      BY <2>4, <2>5 DEF SaysNothing
    <3>3. k \in Visible(text)
      BY <2>3, <3>1, VisibleFacts
    <3>4. k < i
      BY <2>2, <3>1, <3>2, <3>3 DEF Found
    <3> QED BY <2>3, <3>4
  <2>6. CASE InOpenBlock(text, i) /\ text[i].how # "declared"
    <3>1. i \in Visible(text)
      BY <2>2, <2>6 DEF Found
    <3> QED BY <2>3, <2>6, <3>1, VisibleFacts
  <2> QED BY <1>7, <2>5, <2>6
<1>8. SaidByReply(m)
  BY <1>5 DEF SaidByReply
<1>9. AnswerIsFinal(m)
  BY <1>6 DEF AnswerIsFinal
<1>10. NothingIsUnknown(m)
  BY <1>7, Zenon DEF NothingIsUnknown
<1> QED BY <1>8, <1>9, <1>10 DEF Stated

(* For messages of any length, with labels of any kind and number: see     *)
(* VerdictIsStated for what a verdict must be.                             *)
THEOREM VerdictIsStatedCorrect == Spec => []VerdictIsStated
<1>1. VerdictIsStated
  BY MessagesAssumption, ExtractIsStated DEF VerdictIsStated
<1> QED BY <1>1, PTL

-------------------------------------------------------------------------------
(* The invariant.                                                          *)

Own(x, i) == x.row = i /\ x.of = Rows[i].prompt
Sound(x) == x.source \in {"none", "error"} <=> x.pred = UNKNOWN

(* A row's future holds its own verdict, and the list is collected in the  *)
(* order of the rows.                                                      *)
DoneOwn == \A i \in 1..N : done[i] # None => Own(done[i], i) /\ Sound(done[i])
InOrder == \A k \in DOMAIN results : k \in 1..N /\ Own(results[k], k)

IInv == TypeOK /\ DoneOwn /\ InOrder /\ RowsKeepTheirVerdicts

LEMMA RowCount == N \in Nat
<1> DEFINE n == IF MaxSamples > 0 /\ MaxSamples < Len(Raw) THEN MaxSamples ELSE Len(Raw)
<1>1. n \in Nat
  BY SheetAssumption
<1>2. Rows = [i \in 1..n |-> LoadRow(Raw[i], i)]
  BY DEF Rows
<1>3. Len([i \in 1..n |-> LoadRow(Raw[i], i)]) = n
  BY <1>1
<1> QED BY <1>1, <1>2, <1>3 DEF N

(* The pool.                                                               *)
LEMMA RunningFinite ==
  ASSUME TypeOK
  PROVE  IsFiniteSet(Running) /\ Cardinality(Running) \in Nat
<1>1. IsFiniteSet(1..N) /\ Running \subseteq 1..N
  BY RowCount, FS_Interval DEF Running
<1> QED BY <1>1, FS_Subset, FS_CardinalityType

LEMMA PoolShrinks ==
  ASSUME TypeOK, Running' \subseteq Running
  PROVE  Cardinality(Running') <= Config.concurrency
<1>1. Cardinality(Running') <= Cardinality(Running) /\ Cardinality(Running') \in Nat
  BY RunningFinite, FS_Subset, FS_CardinalityType
<1> QED BY <1>1, RunningFinite, ConfigAssumption DEF TypeOK

LEMMA ReplyFacts ==
  ASSUME NEW m \in Replies \cup BareReplies
  PROVE  /\ Extract(m).label \in Labels \cup {UNKNOWN}
         /\ Extract(m).source \in Sources \cup {"none"}
         /\ Extract(m).label = UNKNOWN <=> Extract(m).source = "none"
<1>1. m \in Message
  BY MessagesAssumption
<1>2. CASE Extract(m).label = UNKNOWN
  BY <1>1, <1>2, ExtractFacts
<1>3. CASE Extract(m).label # UNKNOWN
  <2>1. Extract(m).source \in Sources
    BY <1>1, <1>3, ExtractFacts
  <2>2. \E text \in {m.content, m.reasoning} : \E i \in DOMAIN text :
            text[i].label = Extract(m).label
    BY <1>1, <1>3, ExtractFacts, TriesFind DEF Found
  <2>3. Extract(m).label \in Labels \cup {UNKNOWN}
    BY <1>1, <2>2, LineFacts, ElementOfSeq, LenProperties DEF Message
  <2> QED BY <1>3, <2>1, <2>3 DEF Sources
<1> QED BY <1>2, <1>3

LEMMA InvInit == Init => IInv
<1> SUFFICES ASSUME Init PROVE IInv
  OBVIOUS
<1>1. Running = {} /\ results = <<>> /\ ToSet(results) = {}
  BY DEF Init, Running, ToSet
<1>2. TypeOK
  <2>1. Cardinality(Running) = 0 /\ 0 <= Config.concurrency /\ taken \in 0..N
    BY <1>1, RowCount, ConfigAssumption, FS_EmptySet DEF Init
  <2>2. mode \in {"guided_choice", "free_parse"} /\ guided \in BOOLEAN
    BY ConfigAssumption DEF Init
  <2> QED BY <1>1, <2>1, <2>2 DEF Init, TypeOK
<1>3. DoneOwn /\ InOrder /\ RowsKeepTheirVerdicts
  BY DEF Init, DoneOwn, InOrder, RowsKeepTheirVerdicts
<1> QED BY <1>2, <1>3 DEF IInv

(* What leaves the verdicts alone keeps whose they are.                    *)
LEMMA VerdictsStay ==
  ASSUME IInv, UNCHANGED <<done, results, files>>
  PROVE  DoneOwn' /\ InOrder' /\ RowsKeepTheirVerdicts'
  BY DEF IInv, DoneOwn, InOrder, RowsKeepTheirVerdicts, Own, Sound

LEMMA StepTake == ASSUME IInv, Take PROVE IInv'
<1> DEFINE k == taken + 1
<1>1. /\ taken < N /\ Cardinality(Running) < Config.concurrency
      /\ taken' = k /\ call' = [call EXCEPT ![k] = 0]
      /\ UNCHANGED <<at, guided, mode, done, results, files, s3>>
  BY DEF Take
<1>2. k \in 1..N /\ call \in [1..N -> {None} \cup 0..3]
  BY <1>1, RowCount DEF IInv, TypeOK
<1> HIDE DEF k
<1>3. Running' = Running \cup {k}
  BY <1>1, <1>2, NoneAssumption DEF Running
<1>4. Cardinality(Running') <= Config.concurrency
  <2>1. IsFiniteSet(Running) /\ Cardinality(Running) \in Nat
    BY RunningFinite DEF IInv
  <2>2. Cardinality(Running \cup {k}) \in {Cardinality(Running), Cardinality(Running) + 1}
    BY <2>1, FS_AddElement
  <2> QED BY <1>1, <1>3, <2>1, <2>2, ConfigAssumption
<1>5. taken' \in 0..N /\ call' \in [1..N -> {None} \cup 0..3]
  BY <1>1, <1>2, RowCount
<1> QED BY <1>1, <1>4, <1>5, VerdictsStay DEF IInv, TypeOK

(* Whichever attempt settles a row, it settles that row.                   *)
LEMMA StepSettles ==
  ASSUME IInv, NEW i \in 1..N, NEW label \in Labels \cup {UNKNOWN},
         NEW source \in Sources \cup {"retry", "none", "error"},
         source \in {"none", "error"} <=> label = UNKNOWN,
         Settles(i, label, source)
  PROVE  IInv'
<1> DEFINE x == [row |-> i, pred |-> label, source |-> source, of |-> Rows[i].prompt]
<1>1. x \in Result /\ Own(x, i) /\ Sound(x)
  BY DEF Result, Own, Sound, Sources
<1>2. /\ done' = [done EXCEPT ![i] = x] /\ call' = [call EXCEPT ![i] = None]
      /\ UNCHANGED <<at, guided, mode, taken, results, files, s3>>
  BY DEF Settles
<1> HIDE DEF x
<1>3. TypeOK'
  <2>1. done' \in [1..N -> {None} \cup Result] /\ call' \in [1..N -> {None} \cup 0..3]
    BY <1>1, <1>2 DEF IInv, TypeOK
  <2>2. Running' \subseteq Running
    BY <1>2 DEF IInv, TypeOK, Running
  <2> QED BY <1>2, <2>1, <2>2, PoolShrinks DEF IInv, TypeOK
<1>4. DoneOwn'
  BY <1>1, <1>2 DEF IInv, TypeOK, DoneOwn, Own, Sound
<1>5. InOrder' /\ RowsKeepTheirVerdicts'
  BY <1>2 DEF IInv, InOrder, RowsKeepTheirVerdicts, Own
<1> QED BY <1>3, <1>4, <1>5 DEF IInv

LEMMA StepAsks ==
  ASSUME IInv, NEW i \in 1..N, NEW attempt \in 0..2, Asks(i, attempt)
  PROVE  IInv'
<1>1. /\ call[i] = attempt /\ call' = [call EXCEPT ![i] = attempt + 1]
      /\ UNCHANGED <<at, guided, mode, taken, done, results, files, s3>>
  BY DEF Asks
<1>2. call' \in [1..N -> {None} \cup 0..3]
  BY <1>1 DEF IInv, TypeOK
<1>3. Running' \subseteq Running
  BY <1>1, NoneAssumption DEF IInv, TypeOK, Running
<1>4. TypeOK'
  BY <1>1, <1>2, <1>3, PoolShrinks DEF IInv, TypeOK
<1> QED BY <1>1, <1>4, VerdictsStay DEF IInv

LEMMA StepRow ==
  ASSUME IInv, NEW i \in 1..N, Answered(i) \/ Fails(i) \/ Retried(i)
  PROVE  IInv'
<1>1. Len(Attempts) \in {2, 3} /\ DOMAIN Attempts = 1..Len(Attempts)
  BY DEF Attempts
<1>2. CASE Answered(i)
  <2>1. PICK m \in Replies \cup BareReplies :
          Asks(i, 0) \/ Settles(i, Extract(m).label, Extract(m).source)
    BY <1>2 DEF Answered
  <2> QED BY <2>1, ReplyFacts, StepAsks, StepSettles DEF Sources
<1>3. CASE Fails(i)
  BY <1>3, StepSettles DEF Fails
<1>4. CASE Retried(i)
  <2>1. \/ \E m \in Replies \cup BareReplies :
              Extract(m).label # UNKNOWN /\ Settles(i, Extract(m).label, "retry")
        \/ call[i] \in 1..2 /\ Asks(i, call[i])
        \/ Settles(i, UNKNOWN, "none")
    BY <1>1, <1>4 DEF Retried
  <2>2. CASE \E m \in Replies \cup BareReplies :
               Extract(m).label # UNKNOWN /\ Settles(i, Extract(m).label, "retry")
    BY <2>2, ReplyFacts, StepSettles
  <2>3. CASE call[i] \in 1..2 /\ Asks(i, call[i])
    <3>1. PICK attempt \in 0..2 : attempt = call[i]
      BY <2>3
    <3>2. Asks(i, attempt)
      BY <2>3, <3>1 DEF Asks
    <3> QED BY <3>2, StepAsks
  <2>4. CASE Settles(i, UNKNOWN, "none")
    BY <2>4, StepSettles
  <2> QED BY <2>1, <2>2, <2>3, <2>4
<1> QED BY <1>2, <1>3, <1>4

LEMMA StepCollect == ASSUME IInv, Collect PROVE IInv'
<1> DEFINE k == Len(results) + 1
           x == done[k]
<1>1. Len(results) \in Nat /\ DOMAIN results = 1..Len(results) /\ results \in Seq(Result)
  BY LenProperties DEF IInv, TypeOK
<1>2. k \in 1..N /\ x # None
  BY <1>1, RowCount DEF Collect
<1>3. x \in Result /\ Own(x, k) /\ Sound(x)
  BY <1>2 DEF IInv, TypeOK, DoneOwn
<1>4. /\ results' = Append(results, x)
      /\ UNCHANGED <<at, guided, mode, taken, call, done, files, s3>>
  BY DEF Collect
<1>5. /\ results' \in Seq(Result) /\ DOMAIN results' = 1..k
      /\ \A j \in 1..Len(results) : results'[j] = results[j]
      /\ results'[k] = x
  BY <1>1, <1>3, <1>4
<1>6. \A j \in 1..k : j = k \/ j \in 1..Len(results)
  BY <1>1
<1>7. InOrder'
  BY <1>1, <1>2, <1>3, <1>5, <1>6 DEF IInv, InOrder, Own
<1>8. RowsKeepTheirVerdicts'
  <2>1. \A j \in DOMAIN results' : results'[j].of = Rows[results'[j].row].prompt
    BY <1>7 DEF InOrder, Own
  <2> QED BY <1>4, <2>1 DEF IInv, RowsKeepTheirVerdicts
<1>9. TypeOK'
  <2>1. \A r \in ToSet(results') : Sound(r)
    <3>1. \A j \in 1..Len(results) : Sound(results[j])
      BY <1>1 DEF IInv, TypeOK, ToSet, Sound
    <3> QED BY <1>3, <1>5, <1>6, <3>1 DEF ToSet, Sound
  <2>2. Running' = Running
    BY <1>4 DEF Running
  <2> QED BY <1>4, <1>5, <2>1, <2>2 DEF IInv, TypeOK, Sound
<1>10. DoneOwn'
  BY <1>4 DEF IInv, DoneOwn, Own, Sound
<1> QED BY <1>7, <1>8, <1>9, <1>10 DEF IInv

(* Samples are zipped with rows by position, which InOrder makes their own.*)
LEMMA StepFinish == ASSUME IInv, Finish PROVE IInv'
<1>1. /\ UNCHANGED <<guided, mode, taken, call, done, results, s3>> /\ at' = "exited"
      /\ files' = [quality |-> ResultRow(results),
                   samples |-> IF MaxDump = 0 THEN None ELSE Samples(results)]
  BY DEF Finish
<1>2. Len(results) \in Nat /\ DOMAIN results = 1..Len(results)
  BY LenProperties DEF IInv, TypeOK
<1>3. \A j \in DOMAIN Samples(results) :
        /\ j \in DOMAIN results
        /\ Samples(results)[j].id = Rows[results[j].row].id
        /\ Samples(results)[j].input = Rows[j].prompt
        /\ Samples(results)[j].of = results[j].of
  BY <1>2, SheetAssumption DEF Samples
<1>4. \A j \in DOMAIN Samples(results) :
        /\ Samples(results)[j].input = Samples(results)[j].of
        /\ Samples(results)[j].id = Rows[j].id
  BY <1>3 DEF IInv, InOrder, Own
<1>5. RowsKeepTheirVerdicts'
  BY <1>1, <1>4 DEF IInv, RowsKeepTheirVerdicts
<1>6. TypeOK'
  BY <1>1 DEF IInv, TypeOK, Running
<1> QED BY <1>1, <1>5, <1>6 DEF IInv, DoneOwn, InOrder, Own, Sound

LEMMA StepPodDies == ASSUME IInv, PodDies PROVE IInv'
<1>1. /\ done' = [i \in 1..N |-> None] /\ results' = <<>> /\ files'.samples = None
      /\ call' = [i \in 1..N |-> None] /\ at' = "dead"
      /\ UNCHANGED <<guided, mode, taken, s3>>
  BY DEF PodDies
<1>2. Running' = {} /\ ToSet(results') = {}
  BY <1>1 DEF Running, ToSet
<1>3. TypeOK'
  <2>1. Cardinality(Running') <= Config.concurrency
    BY <1>2, PoolShrinks DEF IInv
  <2> QED BY <1>1, <1>2, <2>1 DEF IInv, TypeOK
<1> QED BY <1>1, <1>3 DEF IInv, DoneOwn, InOrder, RowsKeepTheirVerdicts

LEMMA InvNext == IInv /\ [Next]_vars => IInv'
<1> SUFFICES ASSUME IInv, [Next]_vars PROVE IInv'
  OBVIOUS
<1>1. ASSUME UNCHANGED <<taken, call, done, results, files>>,
             at' \in {at, "scoring", "exited", "over"}, guided' \in BOOLEAN,
             mode' \in {mode, "free_parse"}
      PROVE  IInv'
  <2>1. TypeOK'
    BY <1>1 DEF IInv, TypeOK, Running
  <2> QED BY <1>1, <2>1, VerdictsStay DEF IInv
<1>2. CASE UNCHANGED vars \/ NotReady \/ Probe \/ Upload
  <2>1. guided \in BOOLEAN
    BY DEF IInv, TypeOK
  <2> QED BY <1>1, <1>2, <2>1 DEF vars, NotReady, Probe, Upload
<1> QED BY <1>2, StepTake, StepRow, StepCollect, StepFinish, StepPodDies DEF Next

LEMMA Invariant == Spec => []IInv
  BY InvInit, InvNext, PTL DEF Spec

-------------------------------------------------------------------------------
(* What follows.                                                           *)

(* The state stays well formed: the pool never asks about more rows at     *)
(* once than its size, no row is asked about more than four times, and a   *)
(* row has no verdict exactly when no reply gave one.                      *)
THEOREM TypeCorrect == Spec => []TypeOK
<1>1. IInv => TypeOK
  BY DEF IInv
<1> QED BY <1>1, Invariant, PTL

(* quality-eval.py:966 and 1105: threads answer out of order, and yet each *)
(* verdict and each sample stands beside the row and the input it answers. *)
THEOREM VerdictsKeepTheirRows == Spec => []RowsKeepTheirVerdicts
<1>1. IInv => RowsKeepTheirVerdicts
  BY DEF IInv
<1> QED BY <1>1, Invariant, PTL


-------------------------------------------------------------------------------
(* The counts of some rows make up the rows.                               *)
In(rs, places, b) == {i \in places : Bucket(rs[i].pred, rs[i].gold) = b}

AddUp(rs, places, c) ==
    /\ \A b \in Buckets : c[b] = Cardinality(In(rs, places, b)) /\ c[b] \in Nat
    /\ Total(Columns(c)) = Cardinality(places)
    /\ Cardinality(places) \in Nat
    /\ c.tp + c.fn = Cardinality({i \in places : rs[i].gold = Positive})

LEMMA CountsAddUp ==
  ASSUME NEW rs, NEW places, IsFiniteSet(places)
  PROVE  AddUp(rs, places, Counts(rs, places))
<1> DEFINE B(b) == In(rs, places, b)
           c == Counts(rs, places)
<1>1. \A b \in Buckets : IsFiniteSet(B(b)) /\ Cardinality(B(b)) \in Nat
  <2> SUFFICES ASSUME NEW b \in Buckets PROVE IsFiniteSet(B(b)) /\ Cardinality(B(b)) \in Nat
    OBVIOUS
  <2>1. B(b) \subseteq places
    BY DEF In
  <2> QED BY <2>1, FS_Subset, FS_CardinalityType
<1>2. \A b \in Buckets : c[b] = Cardinality(B(b))
  BY DEF Counts, In
<1>3. /\ "tp" \in Buckets /\ "fp" \in Buckets /\ "fn" \in Buckets /\ "tn" \in Buckets
      /\ "unparseable_neg" \in Buckets /\ "unscored_other" \in Buckets
  BY DEF Buckets
<1>4. \A a, b \in Buckets : a # b => B(a) \cap B(b) = {}
  BY DEF In
<1>5. places = ((((B("tp") \cup B("fp")) \cup B("fn")) \cup B("tn")) \cup B("unparseable_neg"))
                 \cup B("unscored_other")
  <2>1. \A i \in places : Bucket(rs[i].pred, rs[i].gold) \in Buckets
    BY DEF Bucket, Buckets
  <2> QED BY <2>1 DEF In, Buckets
<1>6. {i \in places : rs[i].gold = Positive} = B("tp") \cup B("fn")
  BY DEF In, Bucket
<1> HIDE DEF B, c
<1> DEFINE U2 == B("tp") \cup B("fp")
           U3 == U2 \cup B("fn")
           U4 == U3 \cup B("tn")
           U5 == U4 \cup B("unparseable_neg")
<1>7. IsFiniteSet(U2) /\ Cardinality(U2) = Cardinality(B("tp")) + Cardinality(B("fp"))
  <2>1. B("tp") \cap B("fp") = {}
    BY <1>3, <1>4
  <2> QED BY <1>1, <1>3, <2>1, Disjoint
<1>8. IsFiniteSet(U3) /\ Cardinality(U3) = Cardinality(U2) + Cardinality(B("fn"))
  <2>1. U2 \cap B("fn") = {}
    BY <1>3, <1>4
  <2> HIDE DEF U2
  <2> QED BY <1>1, <1>3, <1>7, <2>1, Disjoint
<1>9. IsFiniteSet(U4) /\ Cardinality(U4) = Cardinality(U3) + Cardinality(B("tn"))
  <2>1. U3 \cap B("tn") = {}
    BY <1>3, <1>4
  <2> HIDE DEF U3
  <2> QED BY <1>1, <1>3, <1>8, <2>1, Disjoint
<1>10. IsFiniteSet(U5) /\ Cardinality(U5) = Cardinality(U4) + Cardinality(B("unparseable_neg"))
  <2>1. U4 \cap B("unparseable_neg") = {}
    BY <1>3, <1>4
  <2> HIDE DEF U4
  <2> QED BY <1>1, <1>3, <1>9, <2>1, Disjoint
<1>11. Cardinality(places) = Cardinality(U5) + Cardinality(B("unscored_other"))
  <2>1. U5 \cap B("unscored_other") = {} /\ places = U5 \cup B("unscored_other")
    BY <1>3, <1>4, <1>5
  <2> HIDE DEF U5
  <2> QED BY <1>1, <1>3, <1>10, <2>1, Disjoint
<1>12. Cardinality({i \in places : rs[i].gold = Positive}) = Cardinality(B("tp")) + Cardinality(B("fn"))
  <2>1. B("tp") \cap B("fn") = {}
    BY <1>3, <1>4
  <2> QED BY <1>1, <1>3, <1>6, <2>1, Disjoint
<1>13. Total(Columns(c)) = Cardinality(places)
  <2> HIDE DEF U2, U3, U4, U5
  <2>1. Total(Columns(c)) = c.tp + c.fp + c.fn + c.tn + (c.unparseable_neg + c.unscored_other)
    BY DEF Total, Columns
  <2> QED BY <2>1, <1>1, <1>2, <1>3, <1>7, <1>8, <1>9, <1>10, <1>11
<1>14. c.tp + c.fn = Cardinality({i \in places : rs[i].gold = Positive})
  BY <1>2, <1>3, <1>12
<1>15. \A b \in Buckets : c[b] = Cardinality(In(rs, places, b)) /\ c[b] \in Nat
  BY <1>1, <1>2 DEF B
<1>16. Cardinality(places) \in Nat
  BY FS_CardinalityType
<1> QED BY <1>13, <1>14, <1>15, <1>16 DEF AddUp, c

-------------------------------------------------------------------------------
(* A rounded quotient is off by no more than a half.                       *)
LEMMA RoundedIsNear ==
  ASSUME NEW a \in Nat, NEW b \in Nat \ {0}
  PROVE  /\ Rounded(a, b) \in Nat
         /\ 2 * a - b <= 2 * (b * Rounded(a, b)) /\ 2 * (b * Rounded(a, b)) <= 2 * a + b
<1>1. PICK q \in Nat, r \in Nat : q = a \div b /\ r = a % b /\ a = b * q + r /\ r < b
  OBVIOUS
<1>2. PICK x \in Nat : x = b * q
  OBVIOUS
<1>3. b * (q + 1) = x + b
  BY <1>2
<1>4. Rounded(a, b) = IF 2 * r > b \/ (2 * r = b /\ q % 2 = 1) THEN q + 1 ELSE q
  BY <1>1 DEF Rounded
<1>5. CASE 2 * r > b \/ (2 * r = b /\ q % 2 = 1)
  <2>1. Rounded(a, b) = q + 1 /\ 2 * r >= b
    BY <1>4, <1>5
  <2> QED BY <2>1, <1>1, <1>2, <1>3
<1>6. CASE ~(2 * r > b \/ (2 * r = b /\ q % 2 = 1))
  <2>1. Rounded(a, b) = q
    BY <1>4, <1>6
  <2>2. 2 * r <= b
    <3>1. q % 2 \in {0, 1}
      OBVIOUS
    <3> QED BY <1>6, <3>1
  <2> QED BY <2>1, <2>2, <1>1, <1>2
<1> QED BY <1>5, <1>6

FiveNear(n, L, a, b, c, d, e) ==
    LET s == Rounded(a * n, L) + Rounded(b * n, L) + Rounded(c * n, L)
               + Rounded(d * n, L) + Rounded(e * n, L)
    IN  s \in Nat /\ s <= n + 2 /\ n <= s + 2

(* Five parts of a whole, each scaled and rounded, are within two of it:  *)
(* each rounding is off by a half at most.                                 *)
LEMMA FiveAreNear ==
  ASSUME NEW n \in Nat, NEW L \in Nat \ {0},
         NEW a \in Nat, NEW b \in Nat, NEW c \in Nat, NEW d \in Nat, NEW e \in Nat,
         a + b + c + d + e = L
  PROVE  FiveNear(n, L, a, b, c, d, e)
<1> DEFINE s == Rounded(a * n, L) + Rounded(b * n, L) + Rounded(c * n, L)
                  + Rounded(d * n, L) + Rounded(e * n, L)
<1> SUFFICES s \in Nat /\ s <= n + 2 /\ n <= s + 2
  BY DEF FiveNear
<1>1. PICK an, bn, cn, dn, en \in Nat :
         an = a * n /\ bn = b * n /\ cn = c * n /\ dn = d * n /\ en = e * n
  OBVIOUS
<1>2. an + bn + cn + dn + en = L * n
  <2>1. (a + b + c + d + e) * n = a * n + b * n + c * n + d * n + e * n
    OBVIOUS
  <2> QED BY <1>1, <2>1
<1>3. PICK A, B, C, D, E \in Nat :
         A = Rounded(an, L) /\ B = Rounded(bn, L) /\ C = Rounded(cn, L)
         /\ D = Rounded(dn, L) /\ E = Rounded(en, L)
  BY RoundedIsNear
<1>4. PICK LA, LB, LC, LD, LE \in Nat :
         LA = L * A /\ LB = L * B /\ LC = L * C /\ LD = L * D /\ LE = L * E
  OBVIOUS
<1>5. /\ 2 * an - L <= 2 * LA /\ 2 * LA <= 2 * an + L
      /\ 2 * bn - L <= 2 * LB /\ 2 * LB <= 2 * bn + L
      /\ 2 * cn - L <= 2 * LC /\ 2 * LC <= 2 * cn + L
      /\ 2 * dn - L <= 2 * LD /\ 2 * LD <= 2 * dn + L
      /\ 2 * en - L <= 2 * LE /\ 2 * LE <= 2 * en + L
  BY <1>3, <1>4, RoundedIsNear
<1>6. s = A + B + C + D + E /\ s \in Nat
  BY <1>1, <1>3
<1> HIDE DEF s
<1>7. L * s = LA + LB + LC + LD + LE
  BY <1>4, <1>6
<1>8. PICK x, y \in Nat : x = L * s /\ y = L * n
  BY <1>6
<1>9. 2 * y - 5 * L <= 2 * x /\ 2 * x <= 2 * y + 5 * L
  BY <1>2, <1>5, <1>7, <1>8
<1>10. \A u, v \in Nat : u >= v + 3 => L * u >= L * v + 3 * L
  <2> SUFFICES ASSUME NEW u \in Nat, NEW v \in Nat, u >= v + 3 PROVE L * u >= L * v + 3 * L
    OBVIOUS
  <2>1. PICK w \in Nat : u = v + 3 + w
    <3>1. u - (v + 3) \in Nat /\ u = v + 3 + (u - (v + 3))
      OBVIOUS
    <3> QED BY <3>1
  <2>2. L * u = L * v + 3 * L + L * w /\ L * w >= 0
    BY <2>1
  <2> QED BY <2>2
<1>11. ~(s >= n + 3)
  <2> SUFFICES ASSUME s >= n + 3 PROVE FALSE
    OBVIOUS
  <2>1. x >= y + 3 * L
    BY <1>6, <1>8, <1>10
  <2> QED BY <2>1, <1>9
<1>12. ~(n >= s + 3)
  <2> SUFFICES ASSUME n >= s + 3 PROVE FALSE
    OBVIOUS
  <2>1. y >= x + 3 * L
    BY <1>6, <1>8, <1>10
  <2> QED BY <2>1, <1>9
<1> QED BY <1>6, <1>11, <1>12

(* A record of the sheet, as close as five rounded columns are.            *)
Near(r) == ~r.blank => Total(r.col) <= r.n + 2 /\ r.n <= Total(r.col) + 2

LEMMA SamplesAreNear ==
  ASSUME NEW samples, Len(samples) \in Nat, DOMAIN samples = 1..Len(samples),
         NEW key, NEW qid, NEW n \in Nat
  PROVE  Near(FromSamples(samples, key, qid, n))
<1> DEFINE mine == {i \in DOMAIN samples : Key(samples[i]) = key /\ QidOf(samples[i]) = qid}
           size == Cardinality(mine)
           c == Counts(samples, mine)
           rows == IF n = 0 THEN size ELSE n
           blank == mine = {}
           r == FromSamples(samples, key, qid, n)
<1>1. r = [key |-> key, qid |-> qid, n |-> rows, blank |-> blank,
           col |-> IF mine = {} THEN Blank
                   ELSE [x \in DOMAIN Columns(c) |-> Rounded(Columns(c)[x] * rows, size)]]
  BY DEF FromSamples
<1>2. mine \subseteq 1..Len(samples)
  OBVIOUS
<1> HIDE DEF mine
<1>3. IsFiniteSet(mine) /\ size \in Nat
  <2>1. IsFiniteSet(1..Len(samples))
    BY FS_Interval
  <2>2. IsFiniteSet(mine)
    BY <1>2, <2>1, FS_Subset
  <2> QED BY <2>2, FS_CardinalityType
<1> SUFFICES Near(r)
  OBVIOUS
<1>c. r.blank <=> mine = {}
  <2> HIDE DEF blank
  <2>1. r.blank = blank
    BY <1>1
  <2> QED BY <2>1, Zenon DEF blank
<1>d. r.n = rows /\ (mine # {} => r.col = [x \in DOMAIN Columns(c) |-> Rounded(Columns(c)[x] * rows, size)])
  BY <1>1
<1> HIDE DEF r
<1> SUFFICES ASSUME mine # {} PROVE Total(r.col) <= r.n + 2 /\ r.n <= Total(r.col) + 2
  BY <1>c DEF Near
<1>4. size # 0
  BY <1>3, FS_EmptySet
<1>5. AddUp(samples, mine, c)
  BY <1>3, CountsAddUp
<1>a. /\ c.tp \in Nat /\ c.fp \in Nat /\ c.fn \in Nat /\ c.tn \in Nat
      /\ c.unparseable_neg + c.unscored_other \in Nat
      /\ Total(Columns(c)) = size
  <2>1. (\A b \in Buckets : c[b] \in Nat) /\ Total(Columns(c)) = size
    BY <1>5 DEF AddUp
  <2> HIDE DEF c
  <2> QED BY <2>1 DEF Buckets
<1> HIDE DEF size, c
<1>b. Total(Columns(c)) = c.tp + c.fp + c.fn + c.tn + (c.unparseable_neg + c.unscored_other)
  BY DEF Total, Columns
<1>6. PICK t, f, m, g, o \in Nat :
        /\ t = c.tp /\ f = c.fp /\ m = c.fn /\ g = c.tn /\ o = c.unparseable_neg + c.unscored_other
        /\ t + f + m + g + o = size
  BY <1>a, <1>b
<1>7. rows \in Nat
  BY <1>3
<1> HIDE DEF rows
<1>8. Total(r.col) = Rounded(t * rows, size) + Rounded(f * rows, size) + Rounded(m * rows, size)
                       + Rounded(g * rows, size) + Rounded(o * rows, size)
  <2> DEFINE col == Columns(c)
             scaled == [x \in DOMAIN col |-> Rounded(col[x] * rows, size)]
  <2>1. /\ DOMAIN col = {"tp", "fp", "fn", "tn", "other"}
        /\ col.tp = t /\ col.fp = f /\ col.fn = m /\ col.tn = g /\ col.other = o
    BY <1>6 DEF Columns
  <2>2. r.col = scaled
    BY <1>d
  <2> HIDE DEF col
  <2>3. /\ scaled.tp = Rounded(t * rows, size) /\ scaled.fp = Rounded(f * rows, size)
        /\ scaled.fn = Rounded(m * rows, size) /\ scaled.tn = Rounded(g * rows, size)
        /\ scaled.other = Rounded(o * rows, size)
    BY <2>1
  <2> HIDE DEF scaled
  <2> QED BY <2>2, <2>3 DEF Total
<1>10. size \in Nat \ {0}
  BY <1>3, <1>4 DEF size
<1> DEFINE z == Rounded(t * rows, size) + Rounded(f * rows, size) + Rounded(m * rows, size)
                  + Rounded(g * rows, size) + Rounded(o * rows, size)
<1>11. z \in Nat /\ z <= rows + 2 /\ rows <= z + 2
  <2>1. FiveNear(rows, size, t, f, m, g, o)
    BY <1>6, <1>7, <1>10, FiveAreNear
  <2> QED BY <2>1 DEF FiveNear
<1> HIDE DEF z
<1>12. Total(r.col) = z
  BY <1>8 DEF z
<1> QED BY <1>7, <1>d, <1>11, <1>12

-------------------------------------------------------------------------------
(* The result row of an evaluation.                                        *)

(* The rows of the worksheet in their order, each with a verdict.          *)
Complete(rs) ==
    /\ rs \in Seq(Result) /\ Len(rs) = N /\ DOMAIN rs = 1..N
    /\ \A k \in 1..N : rs[k].row = k
OfRows(g) == {i \in 1..N : Rows[i].group = g}

(* Whatever the worksheet spells, no row is judged against a missing one.  *)
LEMMA GoldIsALabel == \A i \in 1..N : Rows[i].gold # UNKNOWN
<1>1. Len(Raw) \in Nat /\ MaxSamples \in Nat
  BY SheetAssumption
<1> DEFINE n == IF MaxSamples > 0 /\ MaxSamples < Len(Raw) THEN MaxSamples ELSE Len(Raw)
<1>2. n \in Nat /\ n <= Len(Raw)
  BY <1>1
<1>3. Rows = [i \in 1..n |-> LoadRow(Raw[i], i)]
  BY DEF Rows
<1> HIDE DEF n
<1>4. N = n
  BY <1>2, <1>3 DEF N
<1> SUFFICES ASSUME NEW i \in 1..N PROVE Rows[i].gold # UNKNOWN
  OBVIOUS
<1>5. i \in 1..Len(Raw) /\ i \in 1..n
  BY <1>1, <1>2, <1>4
<1>6. Rows[i] = LoadRow(Raw[i], i)
  BY <1>3, <1>5
<1>7. Rows[i].gold = IF Raw[i].gold \in DOMAIN Spelling THEN Spelling[Raw[i].gold] ELSE Raw[i].gold
  BY <1>6 DEF LoadRow
<1> QED BY <1>5, <1>7, GoldAssumption

(* What the proof needs of a row: its counts are those of its rows.        *)
RowAddsUp(rs, q) ==
    /\ Key(q) = Testset(Config.version, Config.folder)
    /\ DOMAIN q.n = Groups /\ DOMAIN q.per = Groups
    /\ q.total = N
    /\ q.unparseable <= q.counts.fn + q.counts.unparseable_neg
    /\ Total(Columns(q.counts)) = N
    /\ \A g \in Groups :
         /\ q.n[g] = Cardinality(OfRows(g)) /\ q.n[g] \in Nat
         /\ Total(Columns(q.per[g])) = q.n[g]
         /\ q.per[g].tp + q.per[g].fn = Cardinality({i \in OfRows(g) : Rows[i].gold = Positive})
         /\ \A b \in Buckets : q.per[g][b] = Cardinality(In(Judged(rs), OfRows(g), b))
    /\ \A b \in Buckets : q.counts[b] = Cardinality(In(Judged(rs), 1..N, b))

(* A missing verdict counts as a false negative or as unparseable.         *)
LEMMA ResultRowFacts ==
  ASSUME NEW rs, Complete(rs)
  PROVE  RowAddsUp(rs, ResultRow(rs))
<1> DEFINE js == Judged(rs)
           q == ResultRow(rs)
<1>1. N \in Nat /\ IsFiniteSet(1..N) /\ Cardinality(1..N) = N
  BY RowCount, FS_Interval
<1>2. DOMAIN rs = 1..N /\ Len(rs) = N /\ \A k \in 1..N : rs[k].row = k /\ rs[k] \in Result
  BY <1>1, ElementOfSeq DEF Complete
<1>3. \A k \in 1..N : js[k].pred = rs[k].pred /\ js[k].gold = Rows[k].gold
  BY <1>2 DEF Judged
<1>4. \A g : OfGroup(rs, g) = OfRows(g)
  BY <1>2 DEF OfGroup, OfRows
<1>5. /\ q.version = Config.version /\ q.folder = Config.folder /\ q.total = Len(rs)
      /\ q.unparseable = Cardinality({k \in 1..N : rs[k].pred = UNKNOWN})
      /\ q.counts = Counts(js, 1..N)
      /\ q.n = [g \in Groups |-> Cardinality(OfRows(g))]
      /\ q.per = [g \in Groups |-> Counts(js, OfRows(g))]
  BY <1>2, <1>4 DEF ResultRow
<1> HIDE DEF q, js
<1>6. \A g : IsFiniteSet(OfRows(g)) /\ Cardinality(OfRows(g)) \in Nat
  <2>1. \A g : OfRows(g) \subseteq 1..N
    BY DEF OfRows
  <2> QED BY <1>1, <2>1, FS_Subset, FS_CardinalityType
<1>7. q.unparseable <= q.counts.fn + q.counts.unparseable_neg
  <2> DEFINE U == {k \in 1..N : rs[k].pred = UNKNOWN}
             F == In(js, 1..N, "fn")
             V == In(js, 1..N, "unparseable_neg")
  <2>1. \A k \in U : Bucket(js[k].pred, js[k].gold) \in {"fn", "unparseable_neg"}
    BY <1>3, GoldIsALabel, GoldAssumption DEF Bucket
  <2>2. U \subseteq F \cup V /\ F \cap V = {} /\ F \subseteq 1..N /\ V \subseteq 1..N
    BY <2>1 DEF In
  <2> HIDE DEF U, F, V
  <2>3. /\ IsFiniteSet(F) /\ IsFiniteSet(V)
    BY <1>1, <2>2, FS_Subset
  <2>4. /\ IsFiniteSet(F \cup V) /\ Cardinality(F \cup V) = Cardinality(F) + Cardinality(V)
    BY <2>2, <2>3, Disjoint
  <2>5. Cardinality(U) <= Cardinality(F \cup V)
    BY <2>2, <2>4, FS_Subset
  <2>6. q.counts.fn = Cardinality(F) /\ q.counts.unparseable_neg = Cardinality(V)
    <3>1. "fn" \in Buckets /\ "unparseable_neg" \in Buckets
      BY DEF Buckets
    <3>2. AddUp(js, 1..N, q.counts)
      BY <1>1, <1>5, CountsAddUp
    <3> QED BY <3>1, <3>2 DEF AddUp, F, V
  <2> QED BY <1>5, <2>4, <2>5, <2>6 DEF U
<1>8. Total(Columns(q.counts)) = N /\ \A b \in Buckets : q.counts[b] = Cardinality(In(js, 1..N, b))
  <2>1. AddUp(js, 1..N, q.counts)
    BY <1>1, <1>5, CountsAddUp
  <2> QED BY <1>1, <2>1 DEF AddUp
<1>9. ASSUME NEW g \in Groups
      PROVE  /\ q.n[g] = Cardinality(OfRows(g)) /\ q.n[g] \in Nat
             /\ Total(Columns(q.per[g])) = q.n[g]
             /\ q.per[g].tp + q.per[g].fn = Cardinality({i \in OfRows(g) : Rows[i].gold = Positive})
             /\ \A b \in Buckets : q.per[g][b] = Cardinality(In(js, OfRows(g), b))
  <2>1. q.n[g] = Cardinality(OfRows(g)) /\ q.per[g] = Counts(js, OfRows(g))
    BY <1>5
  <2>2. {i \in OfRows(g) : js[i].gold = Positive} = {i \in OfRows(g) : Rows[i].gold = Positive}
    BY <1>3 DEF OfRows
  <2>3. AddUp(js, OfRows(g), q.per[g])
    BY <1>6, <2>1, CountsAddUp
  <2> QED BY <1>6, <2>1, <2>2, <2>3 DEF AddUp
<1>10. Key(q) = Testset(Config.version, Config.folder)
  BY <1>5 DEF Key
<1>11. DOMAIN q.n = Groups /\ DOMAIN q.per = Groups /\ q.total = N
  BY <1>2, <1>5
<1> QED BY <1>7, <1>8, <1>9, <1>10, <1>11 DEF RowAddsUp, q, js

(* Sum, a fold, solves the recursion of SumTheorems.                       *)
LEMMA SumIs ==
  ASSUME NEW S, IsFiniteSet(S), NEW g \in [S -> Int]
  PROVE  \E h : Sums(g, S, h) /\ Sum(g) = h[S]
<1> DEFINE Chosen == CHOOSE h : Sums(g, S, h)
<1>1. DOMAIN g = S
  OBVIOUS
<1>2. Sums(g, S, Chosen)
  BY SumsExist
<1>3. Sum(g) = Chosen[S]
  BY <1>1 DEF Sum, MapThenSumSet, MapThenFoldSet, Sums, Some
<1> QED BY <1>2, <1>3

(* The questions part the rows, so their counts make up those of all rows. *)
LEMMA GroupsAddUp ==
  ASSUME NEW rs, NEW q, RowAddsUp(rs, q), NEW b \in Buckets
  PROVE  q.counts[b] = Sum([g \in Groups |-> q.per[g][b]])
<1> DEFINE T == In(Judged(rs), 1..N, b)
           part == [i \in 1..N |-> Rows[i].group]
           per == [g \in Groups |-> q.per[g][b]]
           sizes == [g \in Groups |-> Cardinality({i \in T : part[i] = g})]
<1>1. IsFiniteSet(1..N)
  BY RowCount, FS_Interval
<1>2. IsFiniteSet(Groups)
  <2>1. part \in [1..N -> Groups] /\ \A g \in Groups : \E i \in 1..N : part[i] = g
    BY DEF Groups
  <2> HIDE DEF part
  <2>2. part \in Surjection(1..N, Groups)
    BY <2>1 DEF Surjection
  <2> QED BY <1>1, <2>2, FS_Surjection
<1>3. T \subseteq 1..N
  BY DEF In
<1>4. IsFiniteSet(T)
  BY <1>1, <1>3, FS_Subset
<1>5. ASSUME NEW g \in Groups
      PROVE  /\ per[g] = Cardinality({i \in T : part[i] = g})
             /\ Cardinality({i \in T : part[i] = g}) \in Nat
  <2>1. per[g] = Cardinality(In(Judged(rs), OfRows(g), b))
    BY DEF RowAddsUp
  <2>2. In(Judged(rs), OfRows(g), b) = {i \in T : part[i] = g}
    BY DEF In, OfRows
  <2>3. {i \in T : part[i] = g} \subseteq T
    OBVIOUS
  <2>4. IsFiniteSet({i \in T : part[i] = g})
    BY <1>4, <2>3, FS_Subset
  <2>5. Cardinality({i \in T : part[i] = g}) \in Nat
    BY <2>4, FS_CardinalityType
  <2> QED BY <2>1, <2>2, <2>5
<1>6. per = sizes /\ per \in [Groups -> Int]
  <2> HIDE DEF T, part
  <2>1. \A g \in Groups : per[g] = sizes[g] /\ per[g] \in Int
    <3> SUFFICES ASSUME NEW g \in Groups PROVE per[g] = sizes[g] /\ per[g] \in Int
      OBVIOUS
    <3>1. sizes[g] = Cardinality({i \in T : part[i] = g})
      OBVIOUS
    <3> HIDE DEF per, sizes
    <3> QED BY <1>5, <3>1
  <2>2. per = [g \in Groups |-> per[g]] /\ sizes = [g \in Groups |-> sizes[g]]
    OBVIOUS
  <2> HIDE DEF per, sizes
  <2> QED BY <2>1, <2>2
<1>7. \A i \in T : part[i] \in Groups
  BY <1>3 DEF Groups
<1>8. q.counts[b] = Cardinality(T)
  BY DEF RowAddsUp
<1> HIDE DEF T, part, per
<1>9. PICK h : Sums(per, Groups, h) /\ Sum(per) = h[Groups]
  BY <1>2, <1>6, SumIs
<1>10. h[Groups] = Cardinality(T)
  BY <1>2, <1>4, <1>6, <1>7, <1>9, PartsMakeTheWhole
<1> QED BY <1>8, <1>9, <1>10 DEF per

-------------------------------------------------------------------------------
(* The sheet.                                                              *)
IsList(s) == Len(s) \in Nat /\ DOMAIN s = 1..Len(s)

(* Two lists, one behind the other.                                        *)
LEMMA Joined ==
  ASSUME NEW S, NEW a \in Seq(S), NEW b \in Seq(S)
  PROVE  IsList(a \o b) /\ ToSet(a \o b) = ToSet(a) \cup ToSet(b)
<1>1. /\ Len(a) \in Nat /\ DOMAIN a = 1..Len(a)
      /\ Len(b) \in Nat /\ DOMAIN b = 1..Len(b)
  BY LenProperties
<1>2. /\ a \o b \in Seq(S) /\ Len(a \o b) = Len(a) + Len(b)
      /\ \A i \in 1..Len(a) + Len(b) : (a \o b)[i] = IF i <= Len(a) THEN a[i] ELSE b[i - Len(a)]
  BY ConcatProperties
<1>3. IsList(a \o b)
  BY <1>2, LenProperties DEF IsList
<1>4. DOMAIN (a \o b) = 1..Len(a) + Len(b)
  BY <1>2, <1>3 DEF IsList
<1> DEFINE c == a \o b
<1> HIDE DEF c
<1>5. ASSUME NEW i \in DOMAIN a PROVE a[i] \in ToSet(c)
  <2>1. i \in DOMAIN c /\ c[i] = a[i]
    BY <1>1, <1>2, <1>4 DEF c
  <2> QED BY <2>1 DEF ToSet
<1>6. ASSUME NEW i \in DOMAIN b PROVE b[i] \in ToSet(c)
  <2> DEFINE k == Len(a) + i
  <2>1. k \in 1..Len(a) + Len(b) /\ ~(k <= Len(a)) /\ k - Len(a) = i
    BY <1>1
  <2> HIDE DEF k
  <2>2. k \in DOMAIN c /\ c[k] = b[i]
    BY <1>2, <1>4, <2>1 DEF c
  <2> QED BY <2>2 DEF ToSet
<1>7. ASSUME NEW i \in DOMAIN c PROVE c[i] \in ToSet(a) \cup ToSet(b)
  <2>1. i \in 1..Len(a) + Len(b)
    BY <1>4 DEF c
  <2>2. CASE i <= Len(a)
    <3>1. c[i] = a[i] /\ i \in DOMAIN a
      BY <1>1, <1>2, <2>1, <2>2 DEF c
    <3> QED BY <3>1 DEF ToSet
  <2>3. CASE ~(i <= Len(a))
    <3>1. i - Len(a) \in DOMAIN b /\ c[i] = b[i - Len(a)]
      BY <1>1, <1>2, <2>1, <2>3 DEF c
    <3> QED BY <3>1 DEF ToSet
  <2> QED BY <1>1, <2>1, <2>2, <2>3
<1>8. ToSet(c) = ToSet(a) \cup ToSet(b)
  <2>1. ToSet(c) \subseteq ToSet(a) \cup ToSet(b)
    BY <1>7 DEF ToSet
  <2>2. ToSet(a) \subseteq ToSet(c) /\ ToSet(b) \subseteq ToSet(c)
    BY <1>5, <1>6 DEF ToSet
  <2> QED BY <2>1, <2>2
<1> QED BY <1>3, <1>8 DEF c

(* A result row whose counts, where it has them, make up its rows.         *)
MakesUp(q) ==
    /\ \A g \in DOMAIN q.n : q.n[g] \in Nat
    /\ \A g \in DOMAIN q.per : g \in DOMAIN q.n /\ Total(Columns(q.per[g])) = q.n[g]

(* The record of a question, as build_per_qid_metrics makes it.            *)
Record(samples, quals, key, qid) ==
    LET first == First(quals, key, qid) IN
    IF qid \in DOMAIN first.per
    THEN [key |-> key, qid |-> qid, n |-> first.n[qid], blank |-> FALSE,
          col |-> Columns(first.per[qid])]
    ELSE FromSamples(samples, key, qid, first.n[qid])

(* Every scored question has its record; the others come of samples.       *)
LEMMA ShownIs ==
  ASSUME NEW samples, NEW quals
  PROVE  /\ \A r \in PerQid(samples, quals) :
              \/ \E q \in ToSet(quals) : \E qid \in DOMAIN q.n : r = Record(samples, quals, Key(q), qid)
              \/ \E key, qid : r = FromSamples(samples, key, qid, 0)
         /\ \A q \in ToSet(quals) : \A qid \in DOMAIN q.n :
              Record(samples, quals, Key(q), qid) \in PerQid(samples, quals)
<1> DEFINE sampled == {<<Key(s), QidOf(s)>> : s \in ToSet(samples)}
           scored  == UNION {{<<Key(q), qid>> : qid \in DOMAIN q.n} : q \in ToSet(quals)}
           shown == {Record(samples, quals, k[1], k[2]) : k \in scored}
                      \cup {FromSamples(samples, k[1], k[2], 0) : k \in sampled \ scored}
<1>1. PerQid(samples, quals) = shown
  BY DEF PerQid, Record
<1>2. ASSUME NEW r \in shown
      PROVE  \/ \E q \in ToSet(quals) : \E qid \in DOMAIN q.n : r = Record(samples, quals, Key(q), qid)
             \/ \E key, qid : r = FromSamples(samples, key, qid, 0)
  <2>1. CASE r \in {Record(samples, quals, k[1], k[2]) : k \in scored}
    <3>1. PICK k \in scored : r = Record(samples, quals, k[1], k[2])
      BY <2>1
    <3>2. PICK q \in ToSet(quals) : k \in {<<Key(q), qid>> : qid \in DOMAIN q.n}
      BY <3>1
    <3>3. PICK qid \in DOMAIN q.n : k = <<Key(q), qid>>
      BY <3>2
    <3> QED BY <3>1, <3>3
  <2>2. CASE r \in {FromSamples(samples, k[1], k[2], 0) : k \in sampled \ scored}
    BY <2>2
  <2> QED BY <2>1, <2>2
<1>3. ASSUME NEW q \in ToSet(quals), NEW qid \in DOMAIN q.n
      PROVE  Record(samples, quals, Key(q), qid) \in shown
  <2>1. <<Key(q), qid>> \in scored
    OBVIOUS
  <2> HIDE DEF scored, sampled
  <2>2. \A k \in scored : Record(samples, quals, k[1], k[2]) \in shown
    OBVIOUS
  <2>3. <<Key(q), qid>>[1] = Key(q) /\ <<Key(q), qid>>[2] = qid
    OBVIOUS
  <2> QED BY <2>1, <2>2, <2>3
<1> QED BY <1>1, <1>2, <1>3

(* The first row of a key is one of that key that has the question.        *)
LEMMA FirstIs ==
  ASSUME NEW quals, IsList(quals), NEW q \in ToSet(quals), NEW qid \in DOMAIN q.n
  PROVE  \E o \in ToSet(quals) : /\ First(quals, Key(q), qid) = o
                                 /\ Key(o) = Key(q) /\ qid \in DOMAIN o.n
<1> DEFINE places == {i \in DOMAIN quals : Key(quals[i]) = Key(q) /\ qid \in DOMAIN quals[i].n}
<1>1. places # {} /\ places \subseteq Nat
  BY DEF ToSet, IsList
<1>2. First(quals, Key(q), qid) = quals[Min(places)]
  BY DEF First
<1>3. Min(places) \in places
  <2> HIDE DEF places
  <2> QED BY <1>1, MinOf
<1> QED BY <1>2, <1>3 DEF ToSet

LEMMA ShownAreNear ==
  ASSUME NEW samples, IsList(samples), NEW quals, IsList(quals), \A q \in ToSet(quals) : MakesUp(q)
  PROVE  \A r \in PerQid(samples, quals) : Near(r)
<1> SUFFICES ASSUME NEW r \in PerQid(samples, quals) PROVE Near(r)
  OBVIOUS
<1>1. CASE \E key, qid : r = FromSamples(samples, key, qid, 0)
  BY <1>1, SamplesAreNear DEF IsList
<1>2. ASSUME NEW q \in ToSet(quals), NEW qid \in DOMAIN q.n, r = Record(samples, quals, Key(q), qid)
      PROVE  Near(r)
  <2>1. PICK o \in ToSet(quals) : /\ First(quals, Key(q), qid) = o
                                  /\ Key(o) = Key(q) /\ qid \in DOMAIN o.n
    BY <1>2, FirstIs
  <2>2. MakesUp(o) /\ o.n[qid] \in Nat
    BY <2>1 DEF MakesUp
  <2>3. CASE qid \in DOMAIN o.per
    <3>1. r = [key |-> Key(q), qid |-> qid, n |-> o.n[qid], blank |-> FALSE,
               col |-> Columns(o.per[qid])]
      BY <1>2, <2>1, <2>3 DEF Record
    <3>2. r.n = o.n[qid] /\ Total(r.col) = o.n[qid]
      BY <2>2, <2>3, <3>1 DEF MakesUp
    <3> QED BY <2>2, <3>2 DEF Near
  <2>4. CASE ~(qid \in DOMAIN o.per)
    <3>1. r = FromSamples(samples, Key(q), qid, o.n[qid])
      BY <1>2, <2>1, <2>4 DEF Record
    <3> QED BY <2>2, <3>1, SamplesAreNear DEF IsList
  <2> QED BY <2>3, <2>4
<1> QED BY <1>1, <1>2, ShownIs

(* What was written, and what of it was uploaded, is of all the rows.      *)
FInv ==
    /\ DOMAIN files = {"quality", "samples"}
    /\ files.quality # None \/ files.samples # None => at \in {"exited", "over"}
    /\ s3.quality # None \/ s3.samples # None => at = "over"
    /\ \A q \in {files.quality, s3.quality} :
         q # None => Len(results) = N /\ q = ResultRow(results)
    /\ \A c \in {files.samples, s3.samples} : c # None => c = Samples(results)

LEMMA FilesInit == Init => FInv
  BY DEF Init, FInv

(* Nothing is collected once the files are written, and a pod that has     *)
(* uploaded cannot die any more.                                           *)
LEMMA FilesNext == FInv /\ [Next]_vars => FInv'
<1> SUFFICES ASSUME FInv, [Next]_vars PROVE FInv'
  OBVIOUS
<1>1. ASSUME UNCHANGED <<results, files, s3>>, at' = at PROVE FInv'
  BY <1>1 DEF FInv
<1>2. CASE UNCHANGED vars \/ Take
  BY <1>1, <1>2 DEF vars, Take
<1>3. ASSUME NEW i \in 1..N, Answered(i) \/ Fails(i) \/ Retried(i) PROVE FInv'
  BY <1>1, <1>3 DEF Answered, Fails, Retried, Settles, Asks
<1>4. CASE NotReady \/ Probe
  <2>1. UNCHANGED <<results, files, s3>> /\ at = "waiting"
    BY <1>4 DEF NotReady, Probe
  <2> QED BY <2>1 DEF FInv
<1>5. CASE Collect
  <2>1. UNCHANGED <<files, s3, at>> /\ at = "scoring"
    BY <1>5 DEF Collect
  <2> QED BY <2>1 DEF FInv
<1>6. CASE Finish
  <2>1. /\ files' = [quality |-> ResultRow(results),
                     samples |-> IF MaxDump = 0 THEN None ELSE Samples(results)]
        /\ UNCHANGED <<results, s3>> /\ at = "scoring" /\ at' = "exited" /\ Len(results) = N
    BY <1>6 DEF Finish
  <2>2. s3.quality = None /\ s3.samples = None
    BY <2>1 DEF FInv
  <2>3. /\ DOMAIN files' = {"quality", "samples"}
        /\ files'.quality = ResultRow(results)
        /\ files'.samples \in {None, Samples(results)}
    BY <2>1
  <2>4. ResultRow(results)' = ResultRow(results) /\ Samples(results)' = Samples(results)
    BY <2>1 DEF ResultRow, Samples, Judged, OfGroup, Rows, Groups
  <2> QED BY <2>1, <2>2, <2>3, <2>4 DEF FInv
<1>7. CASE Upload
  <2>1. PICK some \in SUBSET DOMAIN files :
          s3' = [f \in DOMAIN files |-> IF f \in some THEN files[f] ELSE None]
    BY <1>7 DEF Upload
  <2>2. UNCHANGED <<results, files>> /\ at' = "over"
    BY <1>7 DEF Upload
  <2>3. s3'.quality \in {None, files.quality} /\ s3'.samples \in {None, files.samples}
    BY <2>1 DEF FInv
  <2> QED BY <2>2, <2>3 DEF FInv
<1>8. CASE PodDies
  <2>1. /\ files' = [quality |-> None, samples |-> None] /\ UNCHANGED s3
        /\ at \in {"waiting", "scoring", "exited"}
    BY <1>8 DEF PodDies
  <2> QED BY <2>1 DEF FInv
<1> QED BY <1>2, <1>3, <1>4, <1>5, <1>6, <1>7, <1>8 DEF Next

LEMMA FilesInvariant == Spec => []FInv
  BY FilesInit, FilesNext, PTL DEF Spec

(* What reached S3 of an evaluation, beside what was there, and the sheet  *)
(* that is made of both.                                                   *)
Shown(q, shown) == \A g \in Groups :
    \E r \in shown : /\ r.key = Key(q) /\ r.qid = g
                     /\ r.n = q.n[g] /\ r.col = Columns(q.per[g])
Right(old, rs, q, shown) ==
    /\ \A r \in shown : Near(r)
    /\ q # None =>
         /\ RowAddsUp(rs, q)
         /\ Key(q) \notin {Key(o) : o \in ToSet(old.quals)} => Shown(q, shown)

MineOf(q) == IF q = None THEN <<>> ELSE <<q>>
Dumped(c) == IF c = None THEN <<>> ELSE c

Uploaded(rs, q, c) ==
    /\ rs \in Seq(Result) /\ \A k \in DOMAIN rs : rs[k].row = k
    /\ q \in {None, ResultRow(rs)} /\ (q # None => Len(rs) = N)
    /\ c \in {None, Samples(rs)}

LEMMA SheetIsRight ==
  ASSUME NEW old \in Archives, NEW rs, NEW q, NEW c, Uploaded(rs, q, c),
         NEW quals \in {MineOf(q) \o old.quals, old.quals \o MineOf(q)}
  PROVE  Right(old, rs, q, PerQid(old.samples \o Dumped(c), quals))
<1> DEFINE mine == MineOf(q)
           dumped == Dumped(c)
           samples == old.samples \o dumped
           shown == PerQid(samples, quals)
<1>a. /\ rs \in Seq(Result) /\ \A k \in DOMAIN rs : rs[k].row = k
      /\ q \in {None, ResultRow(rs)} /\ (q # None => Len(rs) = N)
      /\ c \in {None, Samples(rs)}
  BY DEF Uploaded
<1>1. ASSUME q # None PROVE Complete(rs)
  <2>1. Len(rs) = N /\ DOMAIN rs = 1..Len(rs)
    BY <1>a, <1>1, LenProperties
  <2> QED BY <1>a, <2>1 DEF Complete
<1>2. q # None => RowAddsUp(rs, q)
  BY <1>a, <1>1, ResultRowFacts
<1>3. q # None => MakesUp(q)
  BY <1>2 DEF RowAddsUp, MakesUp
<1>4. ToSet(mine) = IF q = None THEN {} ELSE {q}
  BY DEF ToSet, MineOf
<1>5. mine \in Seq(ToSet(mine))
  <2>1. CASE q = None
    <3>1. mine = <<>>
      BY <2>1 DEF MineOf
    <3> HIDE DEF mine
    <3> QED BY <3>1
  <2>2. CASE q # None
    <3>1. ToSet(mine) = {q}
      BY <1>4, <2>2
    <3>2. mine = <<q>>
      BY <2>2 DEF MineOf
    <3> HIDE DEF mine
    <3> QED BY <3>1, <3>2
  <2> QED BY <2>1, <2>2
<1>6. dumped \in Seq(ToSet(dumped))
  <2>1. CASE c = None
    <3>1. dumped = <<>>
      BY <2>1 DEF Dumped
    <3> HIDE DEF dumped
    <3> QED BY <3>1
  <2>2. CASE c # None
    <3> DEFINE n == IF Len(rs) < MaxDump THEN Len(rs) ELSE MaxDump
    <3>1. n \in Nat
      BY <1>a, LenProperties, SheetAssumption
    <3>2. DOMAIN Samples(rs) = 1..n /\ Samples(rs) = [k \in 1..n |-> Samples(rs)[k]]
      BY DEF Samples
    <3> HIDE DEF n
    <3>3. Samples(rs) \in [1..n -> ToSet(Samples(rs))]
      BY <3>2 DEF ToSet
    <3>4. Samples(rs) \in Seq(ToSet(Samples(rs)))
      BY <3>1, <3>3, FunctionsAreSequences
    <3>5. dumped = Samples(rs)
      BY <1>a, <2>2 DEF Dumped
    <3> HIDE DEF dumped
    <3> QED BY <3>4, <3>5
  <2> QED BY <2>1, <2>2
<1>7. old.samples \in Seq(ToSet(old.samples)) /\ old.quals \in Seq(ToSet(old.quals))
      /\ \A o \in ToSet(old.quals) : MakesUp(o)
  BY ArchivesAssumption DEF MakesUp
<1> HIDE DEF mine, dumped
<1>8. \A s, A, B : s \in Seq(A) /\ A \subseteq B => s \in Seq(B)
  OBVIOUS
<1>9. IsList(samples)
  <2> DEFINE S == ToSet(old.samples) \cup ToSet(dumped)
  <2>1. old.samples \in Seq(S) /\ dumped \in Seq(S)
    BY <1>6, <1>7, <1>8
  <2> HIDE DEF S
  <2> QED BY <2>1, Joined
<1>10. IsList(quals) /\ ToSet(quals) = ToSet(mine) \cup ToSet(old.quals)
  <2> DEFINE S == ToSet(mine) \cup ToSet(old.quals)
  <2>1. mine \in Seq(S) /\ old.quals \in Seq(S)
    BY <1>5, <1>7, <1>8
  <2> HIDE DEF S
  <2>2. /\ IsList(mine \o old.quals) /\ ToSet(mine \o old.quals) = ToSet(mine) \cup ToSet(old.quals)
        /\ IsList(old.quals \o mine) /\ ToSet(old.quals \o mine) = ToSet(old.quals) \cup ToSet(mine)
    BY <2>1, Joined
  <2>3. quals \in {mine \o old.quals, old.quals \o mine}
    BY DEF mine
  <2> QED BY <2>2, <2>3
<1> HIDE DEF samples, shown
<1>11. \A o \in ToSet(quals) : MakesUp(o)
  <2>1. \A o \in ToSet(mine) : MakesUp(o)
    BY <1>3, <1>4
  <2> QED BY <1>7, <1>10, <2>1
<1>12. \A r \in shown : Near(r)
  BY <1>9, <1>10, <1>11, ShownAreNear DEF shown
<1>13. ASSUME q # None, Key(q) \notin {Key(o) : o \in ToSet(old.quals)}, NEW g \in Groups
       PROVE  \E r \in shown :
                /\ r.key = Key(q) /\ r.qid = g /\ r.n = q.n[g] /\ r.col = Columns(q.per[g])
  <2>1. g \in DOMAIN q.n /\ g \in DOMAIN q.per
    BY <1>2, <1>13 DEF RowAddsUp
  <2>2. q \in ToSet(quals) /\ \A o \in ToSet(quals) : Key(o) = Key(q) => o = q
    BY <1>4, <1>10, <1>13
  <2>3. First(quals, Key(q), g) = q
    BY <1>10, <2>1, <2>2, FirstIs
  <2>4. Record(samples, quals, Key(q), g) =
          [key |-> Key(q), qid |-> g, n |-> q.n[g], blank |-> FALSE, col |-> Columns(q.per[g])]
    BY <2>1, <2>3 DEF Record
  <2>5. Record(samples, quals, Key(q), g) \in shown
    BY <2>1, <2>2, ShownIs DEF shown
  <2> QED BY <2>4, <2>5
<1> QED BY <1>2, <1>12, <1>13 DEF Right, Shown, shown, samples, dumped

OwnShown(q, shown) == \A g \in Groups :
    \E r \in shown :
      /\ r.key = Key(q) /\ r.qid = g
      /\ r.n = Cardinality({i \in 1..N : Rows[i].group = g})
      /\ Total(r.col) = r.n
      /\ r.col.tp + r.col.fn =
           Cardinality({i \in 1..N : Rows[i].group = g /\ Rows[i].gold = Positive})
OwnAddsUp(q) ==
    /\ q.total = N
    /\ q.unparseable <= q.counts.fn + q.counts.unparseable_neg
    /\ \A b \in Buckets : q.counts[b] = Sum([g \in Groups |-> q.per[g][b]])
    /\ Total(Columns(q.counts)) = N

LEMMA RowFollows ==
  ASSUME NEW rs, NEW q, RowAddsUp(rs, q)
  PROVE  /\ OwnAddsUp(q)
         /\ \A shown : Shown(q, shown) => OwnShown(q, shown)
<1>1. OwnAddsUp(q)
  <2>1. \A b \in Buckets : q.counts[b] = Sum([g \in Groups |-> q.per[g][b]])
    BY GroupsAddUp
  <2> QED BY <2>1 DEF RowAddsUp, OwnAddsUp
<1>2. ASSUME NEW shown, Shown(q, shown), NEW g \in Groups
      PROVE  \E r \in shown :
               /\ r.key = Key(q) /\ r.qid = g
               /\ r.n = Cardinality({i \in 1..N : Rows[i].group = g})
               /\ Total(r.col) = r.n
               /\ r.col.tp + r.col.fn =
                    Cardinality({i \in 1..N : Rows[i].group = g /\ Rows[i].gold = Positive})
  <2>1. PICK r \in shown :
          /\ r.key = Key(q) /\ r.qid = g /\ r.n = q.n[g] /\ r.col = Columns(q.per[g])
    BY <1>2 DEF Shown
  <2>2. OfRows(g) = {i \in 1..N : Rows[i].group = g}
    BY DEF OfRows
  <2>3. {i \in OfRows(g) : Rows[i].gold = Positive}
          = {i \in 1..N : Rows[i].group = g /\ Rows[i].gold = Positive}
    BY DEF OfRows
  <2>4. r.col.tp = q.per[g].tp /\ r.col.fn = q.per[g].fn
    BY <2>1 DEF Columns
  <2>5. /\ q.n[g] = Cardinality(OfRows(g))
        /\ Total(Columns(q.per[g])) = q.n[g]
        /\ q.per[g].tp + q.per[g].fn = Cardinality({i \in OfRows(g) : Rows[i].gold = Positive})
    BY DEF RowAddsUp
  <2> QED BY <2>1, <2>2, <2>3, <2>4, <2>5
<1> QED BY <1>1, <1>2 DEF OwnShown

LEMMA SheetFollows == IInv /\ FInv => SheetReconciles
<1> SUFFICES ASSUME IInv, FInv, NEW old \in Archives
             PROVE  LET mine    == IF s3.quality = None THEN <<>> ELSE <<s3.quality>>
                        samples == old.samples \o (IF s3.samples = None THEN <<>> ELSE s3.samples)
                    IN  \A quals \in {mine \o old.quals, old.quals \o mine} :
                          LET shown == PerQid(samples, quals) IN
                          /\ \A r \in shown : ~r.blank => Total(r.col) <= r.n + 2 /\ r.n <= Total(r.col) + 2
                          /\ \A q \in ToSet(mine) :
                               /\ q.total = N
                               /\ q.unparseable <= q.counts.fn + q.counts.unparseable_neg
                               /\ \A b \in Buckets :
                                    q.counts[b] = Sum([g \in Groups |-> q.per[g][b]])
                               /\ Total(Columns(q.counts)) = N
                               /\ Key(q) \notin {Key(o) : o \in ToSet(old.quals)} => \A g \in Groups :
                                    \E r \in shown :
                                      /\ r.key = Key(q) /\ r.qid = g
                                      /\ r.n = Cardinality({i \in 1..N : Rows[i].group = g})
                                      /\ Total(r.col) = r.n
                                      /\ r.col.tp + r.col.fn =
                                           Cardinality({i \in 1..N : Rows[i].group = g /\ Rows[i].gold = Positive})
  BY DEF SheetReconciles
<1> DEFINE mine == IF s3.quality = None THEN <<>> ELSE <<s3.quality>>
           samples == old.samples \o (IF s3.samples = None THEN <<>> ELSE s3.samples)
<1> SUFFICES ASSUME NEW quals \in {mine \o old.quals, old.quals \o mine}
             PROVE  /\ \A r \in PerQid(samples, quals) : Near(r)
                    /\ \A q \in ToSet(mine) :
                         /\ OwnAddsUp(q)
                         /\ Key(q) \notin {Key(o) : o \in ToSet(old.quals)}
                              => OwnShown(q, PerQid(samples, quals))
  BY DEF Near, OwnAddsUp, OwnShown
<1> HIDE DEF mine, samples
<1>1. PICK rs : rs = results
  OBVIOUS
<1>2. /\ rs \in Seq(Result) /\ \A k \in DOMAIN rs : rs[k].row = k
  BY <1>1 DEF IInv, TypeOK, InOrder, Own
<1>3. PICK own, c : own = s3.quality /\ c = s3.samples
  OBVIOUS
<1>4. /\ own \in {None, ResultRow(rs)} /\ (own # None => Len(rs) = N)
      /\ c \in {None, Samples(rs)}
  BY <1>1, <1>3 DEF FInv
<1>5. mine = MineOf(own) /\ samples = old.samples \o Dumped(c)
  BY <1>3 DEF mine, samples, MineOf, Dumped
<1>6. \A q \in ToSet(mine) : q = own /\ own # None
  BY <1>5 DEF MineOf, ToSet
<1>7. Right(old, rs, own, PerQid(samples, quals))
  <2>1. quals \in {MineOf(own) \o old.quals, old.quals \o MineOf(own)}
    BY <1>5
  <2>2. Right(old, rs, own, PerQid(old.samples \o Dumped(c), quals))
    <3>1. Uploaded(rs, own, c)
      BY <1>2, <1>4 DEF Uploaded
    <3> QED BY <2>1, <3>1, SheetIsRight
  <2> QED BY <1>5, <2>2
<1> DEFINE shown == PerQid(samples, quals)
<1> HIDE DEF shown
<1>8. Right(old, rs, own, shown)
  BY <1>7 DEF shown
<1>9. \A r \in shown : Near(r)
  BY <1>8 DEF Right
<1>10. ASSUME NEW q \in ToSet(mine)
       PROVE  /\ OwnAddsUp(q)
              /\ Key(q) \notin {Key(o) : o \in ToSet(old.quals)} => OwnShown(q, shown)
  <2>1. q = own /\ own # None
    BY <1>6
  <2>2. /\ RowAddsUp(rs, q)
        /\ Key(q) \notin {Key(o) : o \in ToSet(old.quals)} => Shown(q, shown)
    BY <1>8, <2>1 DEF Right
  <2> QED BY <2>2, RowFollows
<1> QED BY <1>9, <1>10 DEF shown

(* quality-eval.py:743-757 and report_generator.py:763-785: the counts of  *)
(* a result row make up its rows, over its questions too, and the sheet    *)
(* shows them so, whatever the model answers, however many rows, questions *)
(* and samples there are, whatever failed and whatever S3 held before.     *)
THEOREM SheetReconcilesCorrect == Spec => []SheetReconciles
  BY Invariant, FilesInvariant, SheetFollows, PTL

===============================================================================
