----------------------------- MODULE ResultsProofs -----------------------------
(***************************************************************************)
(* For every number of levels, whichever faults strike: what a sweep has   *)
(* uploaded stays, unless it could not write its file anew and exits with  *)
(* 1, which costs it its last levels; and a row measures its own level.    *)
(* The sheet made of that and of any other run's files, in any order and   *)
(* with any flags, shows every result as it should.                        *)
(***************************************************************************)
EXTENDS Results, SumTheorems

-------------------------------------------------------------------------------
(* Types.                                                                  *)

LEMMA LevelType == Level \subseteq Nat /\ \A l \in 0..Levels : l < Levels => l + 1 \in Level
  BY LevelsAssumption DEF Level

LEMMA TypeInit == InitLoad => TypeOK
  BY ClockAssumption, MadeAssumption, RestartAssumption, LevelsAssumption
     DEF InitLoad, TypeOK, Level

LEMMA ForgetType ==
  ASSUME TypeOK, NEW r \in Runs, Forget(r)
  PROVE  /\ counter' \in [Runs -> Nat] /\ made' \in [Runs -> 0..MaxMade]
         /\ restarts' \in [Runs -> 0..MaxRestart] /\ level' \in [Runs -> 0..Levels]
         /\ before' \in [Runs -> Nat \cup {None}] /\ scraping' \in [Runs -> SUBSET Level]
         /\ samples' \in [Runs -> [Level -> SUBSET Level]]
         /\ bench' \in [Runs -> Nat \cup {None}] /\ rows' \in [Runs -> Seq(Row)]
         /\ began' \in [Runs -> Launch..LastTick] /\ torn' \in [Runs -> BOOLEAN]
  BY ClockAssumption, MadeAssumption, RestartAssumption, LevelsAssumption DEF Forget, TypeOK

LEMMA CountType ==
  ASSUME NEW seen \in Nat, NEW b \in Nat \cup {None}, NEW a \in Nat \cup {None}
  PROVE  /\ EngineDelta(b, a) \in Nat \cup {None}
         /\ EngineDelta(b, a) # None => b \in Nat /\ a \in Nat /\ EngineDelta(b, a) = a - b
         /\ Tokens(seen, EngineDelta(b, a)) \in Nat
         /\ seen <= Tokens(seen, EngineDelta(b, a))
         /\ Tokens(seen, EngineDelta(b, a)) \in {seen, EngineDelta(b, a)}
<1>1. /\ EngineDelta(b, a) \in Nat \cup {None}
      /\ EngineDelta(b, a) # None => b \in Nat /\ a \in Nat /\ EngineDelta(b, a) = a - b
  BY NoneAssumption DEF EngineDelta
<1>2. \A d \in Nat : d * 20 > seen * 21 => seen <= d
  OBVIOUS
<1> QED BY <1>1, <1>2 DEF Tokens

(* The row that Record makes.                                              *)
LEMMA RecordRow ==
  ASSUME TypeOK, NEW r \in Runs, Record(r)
  PROVE  /\ level[r] \in Level => rows' \in [Runs -> Seq(Row)]
         /\ \E row : /\ rows' = [rows EXCEPT ![r] = Append(@, row)]
                     /\ row.level = level[r] /\ row.tele = samples[r][level[r]]
                     /\ \E c \in Scraped(r) :
                          row.tokens = Tokens(bench[r], EngineDelta(before[r], c))
                     /\ level[r] \in Level => row \in Row
<1>1. PICK c \in Scraped(r) :
        rows' = [rows EXCEPT ![r] = Append(@,
            [level |-> level[r], started |-> began[r],
             tokens |-> Tokens(bench[r], EngineDelta(before[r], c)),
             tele |-> samples[r][level[r]],
             status |-> Status(Tokens(bench[r], EngineDelta(before[r], c)))])]
  BY DEF Record
<1> DEFINE tokens == Tokens(bench[r], EngineDelta(before[r], c))
           row == [level |-> level[r], started |-> began[r], tokens |-> tokens,
                   tele |-> samples[r][level[r]], status |-> Status(tokens)]
<1>2. bench[r] \in Nat /\ before[r] \in Nat \cup {None} /\ c \in Nat \cup {None}
  BY <1>1 DEF TypeOK, Record, Scraped
<1>3. tokens \in Nat
  BY <1>2, CountType
<1>4. level[r] \in Level => row \in Row
  BY <1>3 DEF TypeOK, Row, Status
<1>5. level[r] \in Level => rows' \in [Runs -> Seq(Row)]
  BY <1>1, <1>4, AppendProperties DEF TypeOK
<1> QED BY <1>1, <1>4, <1>5

-------------------------------------------------------------------------------
(* The invariant.                                                          *)

Measuring == {"bench", "joining"}
Sweeping == Measuring \cup {"next", "upload"}

Rising(s) == \A i, j \in DOMAIN s : i < j => s[i].level < s[j].level

(* Levels go up, and the level that is measured has no row yet.            *)
LevelsRise(r) ==
    /\ at[r] \in Measuring => level[r] \in Level
    /\ \A i \in DOMAIN rows[r] :
          rows[r][i].level <= level[r] /\ (at[r] \in Measuring => rows[r][i].level < level[r])
    /\ Rising(rows[r])

(* The levels that S3 has and the disk does not: the last ones, of a sweep *)
(* that has exited with 1.                                                 *)
Cut(r) ==
    \A f \in ToSet(s3[r]) \ ToSet(disk[r]) :
       at[r] \in {"exited", "over"} /\ exit[r] = 1 /\ \A g \in ToSet(disk[r]) : g.level < f.level

(* What is on the disk is in memory, and what is in S3 is on the disk.     *)
Behind(r) ==
    /\ at[r] \in Sweeping =>
          disk[r] \in Seq(Row) /\ Rising(disk[r]) /\ ToSet(disk[r]) \subseteq ToSet(rows[r])
    /\ disk[r] # None => Rising(disk[r])
    /\ at[r] = "dead" \/ s3[r] = None
         \/ (disk[r] \in Seq(Row) /\ Cut(r))
    /\ at[r] = "waiting" => s3[r] = None /\ rows[r] = <<>>

(* The engine has counted no more than it made, and the threads of earlier *)
(* levels cannot reach the lists of this one.                              *)
OwnLevel(r) ==
    /\ at[r] \in Measuring =>
          /\ before[r] \in Nat => counter[r] <= before[r] + made[r]
          /\ samples[r][level[r]] \subseteq {level[r]}
    /\ at[r] = "joining" /\ bench[r] # None => bench[r] <= made[r]
    /\ scraping[r] \subseteq 1..level[r]
    /\ \A l \in Level : l > level[r] => samples[r][l] = {}

IInv == TypeOK /\ \A r \in Runs : LevelsRise(r) /\ Behind(r) /\ OwnLevel(r)

LEMMA InvInit == InitLoad => IInv
<1> SUFFICES ASSUME InitLoad PROVE IInv
  OBVIOUS
<1>1. TypeOK
  BY TypeInit
<1>2. ASSUME NEW r \in Runs PROVE LevelsRise(r) /\ Behind(r) /\ OwnLevel(r)
  <2>1. rows[r] = <<>> /\ DOMAIN rows[r] = {} /\ at[r] = "waiting" /\ s3[r] = None /\ disk[r] = None
    BY DEF InitLoad
  <2> QED BY <2>1 DEF InitLoad, LevelsRise, Behind, OwnLevel, Measuring, Sweeping, Rising
<1> QED BY <1>1, <1>2 DEF IInv

-------------------------------------------------------------------------------
(* Each step, for the run that takes it; the others stay as they are.      *)

Untouched(r) ==
    /\ at'[r] = at[r] /\ level'[r] = level[r] /\ rows'[r] = rows[r] /\ disk'[r] = disk[r]
    /\ s3'[r] = s3[r] /\ before'[r] = before[r] /\ counter'[r] = counter[r]
    /\ made'[r] = made[r] /\ samples'[r] = samples[r] /\ bench'[r] = bench[r]
    /\ scraping'[r] = scraping[r] /\ exit'[r] = exit[r]

LEMMA OthersStay ==
  ASSUME NEW q \in Runs, Untouched(q), LevelsRise(q), Behind(q), OwnLevel(q)
  PROVE  (LevelsRise(q) /\ Behind(q) /\ OwnLevel(q))'
  BY DEF Untouched, LevelsRise, Behind, Cut, OwnLevel, Rising

LEMMA EmptyRows == <<>> \in Seq(Row) /\ DOMAIN <<>> = {} /\ ToSet(<<>>) = {} /\ Rising(<<>>)
  BY DEF ToSet, Rising

(* What appending adds to the elements of a sequence.                      *)
LEMMA ElementsAppended ==
  ASSUME NEW S, NEW s \in Seq(S), NEW x \in S
  PROVE  /\ Append(s, x) \in Seq(S) /\ Len(Append(s, x)) = Len(s) + 1
         /\ ToSet(Append(s, x)) = ToSet(s) \cup {x}
         /\ Last(Append(s, x)) = x
<1>1. Len(s) \in Nat /\ DOMAIN s = 1..Len(s)
  BY LenProperties
<1>2. /\ Append(s, x) \in Seq(S)
      /\ Len(Append(s, x)) = Len(s) + 1 /\ DOMAIN Append(s, x) = 1..(Len(s) + 1)
      /\ \A i \in 1..Len(s) : Append(s, x)[i] = s[i]
      /\ Append(s, x)[Len(s) + 1] = x
  BY <1>1
<1>3. \A i \in 1..(Len(s) + 1) : i \in 1..Len(s) \/ i = Len(s) + 1
  BY <1>1
<1>4. Len(s) + 1 \in 1..(Len(s) + 1) /\ 1..Len(s) \subseteq 1..(Len(s) + 1)
  BY <1>1
<1>5. \A e : e \in ToSet(Append(s, x)) <=> e \in ToSet(s) \/ e = x
  BY <1>1, <1>2, <1>3, <1>4, Zenon DEF ToSet
<1> QED BY <1>2, <1>5 DEF Last

(* A row of a level above all others keeps the order.                      *)
LEMMA RisingAppended ==
  ASSUME NEW s \in Seq(Row), NEW x \in Row, Rising(s), \A y \in ToSet(s) : y.level < x.level
  PROVE  Rising(Append(s, x))
<1>1. Len(s) \in Nat /\ DOMAIN s = 1..Len(s) /\ DOMAIN Append(s, x) = 1..(Len(s) + 1)
  BY LenProperties
<1>2. /\ \A i \in 1..Len(s) : Append(s, x)[i] = s[i] /\ s[i] \in ToSet(s)
      /\ Append(s, x)[Len(s) + 1] = x
  BY <1>1 DEF ToSet
<1> SUFFICES ASSUME NEW i \in 1..(Len(s) + 1), NEW j \in 1..(Len(s) + 1), i < j
             PROVE  Append(s, x)[i].level < Append(s, x)[j].level
  BY <1>1 DEF Rising
<1>3. i \in 1..Len(s)
  BY <1>1
<1>4. CASE j = Len(s) + 1
  BY <1>2, <1>3, <1>4
<1>5. CASE j # Len(s) + 1
  <2>1. j \in 1..Len(s)
    BY <1>1, <1>5
  <2> QED BY <1>1, <1>2, <1>3, <2>1 DEF Rising
<1> QED BY <1>4, <1>5

LEMMA RowLevels ==
  ASSUME TypeOK, NEW r \in Runs
  PROVE  \A i \in DOMAIN rows[r] : rows[r][i] \in Row /\ rows[r][i].level \in Nat
<1>1. rows[r] \in Seq(Row)
  BY DEF TypeOK
<1>2. \A i \in DOMAIN rows[r] : rows[r][i] \in Row
  BY <1>1, ElementOfSeq, LenProperties
<1>3. \A x \in Row : x.level \in Nat
  BY LevelType DEF Row
<1> QED BY <1>2, <1>3

LEMMA StepOf ==
  ASSUME IInv, NEW r \in Runs, TypeOK', (LevelsRise(r) /\ Behind(r) /\ OwnLevel(r))',
         \A q \in Runs \ {r} : Untouched(q)
  PROVE  IInv'
  BY OthersStay DEF IInv

LEMMA StepReady == ASSUME IInv, NEW r \in Runs, Ready(r) PROVE IInv'
<1>1. TypeOK'
  BY DEF IInv, TypeOK, Ready, Goes
<1>2. at'[r] = "next" /\ disk'[r] = <<>> /\ rows[r] = <<>> /\ s3[r] = None
  BY DEF IInv, TypeOK, Ready, Goes, Behind
<1>3. (LevelsRise(r) /\ Behind(r) /\ OwnLevel(r))'
  BY <1>2, EmptyRows DEF IInv, Ready, LevelsRise, Behind, OwnLevel, Measuring, Sweeping, Rising
<1>4. \A q \in Runs \ {r} : Untouched(q)
  BY DEF IInv, TypeOK, Ready, Goes, Untouched
<1> QED BY <1>1, <1>3, <1>4, StepOf

(* The process is gone: nothing is in memory, S3 is as it was.             *)
LEMMA Forgotten ==
  ASSUME IInv, NEW r \in Runs, Forget(r), at'[r] \in {"exited", "dead"},
         s3'[r] = s3[r], disk'[r] # None => Rising(disk'[r]),
         \/ at'[r] = "dead" \/ s3[r] = None
         \/ disk'[r] \in Seq(Row) /\ Cut(r)'
  PROVE  (LevelsRise(r) /\ Behind(r) /\ OwnLevel(r))'
<1>1. /\ rows'[r] = <<>> /\ level'[r] = 0 /\ scraping'[r] = {} /\ bench'[r] = None
      /\ samples'[r] = [l \in Level |-> {}]
  BY DEF IInv, TypeOK, Forget
<1> QED BY <1>1, EmptyRows DEF LevelsRise, Behind, OwnLevel, Measuring, Sweeping

LEMMA ForgetsOwn ==
  ASSUME TypeOK, NEW r \in Runs, Forget(r), NEW q \in Runs \ {r}
  PROVE  /\ level'[q] = level[q] /\ rows'[q] = rows[q] /\ before'[q] = before[q]
         /\ counter'[q] = counter[q] /\ made'[q] = made[q] /\ samples'[q] = samples[q]
         /\ bench'[q] = bench[q] /\ scraping'[q] = scraping[q]
  BY DEF TypeOK, Forget

LEMMA StepNotReady == ASSUME IInv, NEW r \in Runs, NotReady(r) PROVE IInv'
<1>0. TypeOK /\ Forget(r)
  BY DEF IInv, NotReady
<1>1. TypeOK'
  BY <1>0, ForgetType DEF TypeOK, NotReady, Goes
<1>2. /\ at'[r] = "exited" /\ s3' = s3 /\ s3[r] = None /\ disk' = disk
      /\ \A q \in Runs \ {r} : at'[q] = at[q] /\ exit'[q] = exit[q]
  BY <1>0 DEF IInv, TypeOK, NotReady, Goes, Behind
<1>3. (LevelsRise(r) /\ Behind(r) /\ OwnLevel(r))'
  BY <1>0, <1>2, Forgotten DEF IInv, Behind
<1>4. \A q \in Runs \ {r} : Untouched(q)
  BY <1>0, <1>2, ForgetsOwn DEF Untouched
<1> QED BY <1>1, <1>3, <1>4, StepOf

LEMMA StepBeginLevel == ASSUME IInv, NEW r \in Runs, BeginLevel(r) PROVE IInv'
<1>0. /\ TypeOK /\ level[r] \in 0..Levels /\ level[r] < Levels /\ level[r] + 1 \in Level
      /\ Level \subseteq Nat
  BY LevelType DEF IInv, TypeOK, BeginLevel
<1>1. PICK c \in Scraped(r) : before' = [before EXCEPT ![r] = c]
  BY DEF BeginLevel
<1>2. c \in Nat \cup {None} /\ (c \in Nat => c = counter[r])
  BY <1>0, NoneAssumption DEF Scraped, TypeOK
<1>3. TypeOK'
  BY <1>0, <1>1, <1>2, LevelsAssumption, MadeAssumption DEF TypeOK, BeginLevel, Goes
<1>4. /\ at[r] = "next" /\ at'[r] = "bench" /\ level'[r] = level[r] + 1
      /\ before'[r] = c /\ made'[r] = 0 /\ scraping'[r] = scraping[r] \cup {level[r] + 1}
      /\ counter' = counter /\ samples' = samples /\ bench' = bench /\ rows' = rows
      /\ disk' = disk /\ s3' = s3 /\ exit' = exit
  BY <1>0, <1>1 DEF TypeOK, BeginLevel, Goes
<1>5. LevelsRise(r)'
  <2>1. \A i \in DOMAIN rows[r] : rows[r][i].level \in Nat
    BY <1>0, RowLevels
  <2>2. level[r] \in Nat /\ level[r] < level[r] + 1
    BY <1>0
  <2> QED BY <1>0, <1>4, <2>1, <2>2 DEF IInv, LevelsRise, Measuring
<1>6. Behind(r)'
  BY <1>4 DEF IInv, Behind, Cut, Measuring, Sweeping
<1>7. OwnLevel(r)'
  <2>1. before'[r] \in Nat => counter'[r] <= before'[r] + made'[r]
    BY <1>0, <1>2, <1>4 DEF TypeOK
  <2>2. scraping'[r] \subseteq 1..level'[r]
    BY <1>0, <1>4 DEF IInv, OwnLevel
  <2>3. samples'[r][level'[r]] \subseteq {level'[r]}
    BY <1>0, <1>4 DEF IInv, OwnLevel
  <2>4. \A l \in Level : l > level'[r] => samples'[r][l] = {}
    <3>1. \A l \in Level : l > level[r] + 1 => l > level[r]
      BY <1>0
    <3> QED BY <1>4, <3>1 DEF IInv, OwnLevel
  <2> QED BY <1>4, <2>1, <2>2, <2>3, <2>4 DEF OwnLevel
<1>8. \A q \in Runs \ {r} : Untouched(q)
  BY <1>0, <1>1 DEF TypeOK, BeginLevel, Goes, Untouched
<1> QED BY <1>3, <1>5, <1>6, <1>7, <1>8, StepOf

LEMMA StepEngine ==
  ASSUME IInv, NEW r \in Runs, Generate(r) \/ EngineRestarts(r)
  PROVE  IInv'
<1>0. TypeOK
  BY DEF IInv
<1>1. TypeOK'
  <2>1. /\ counter \in [Runs -> Nat] /\ made \in [Runs -> 0..MaxMade]
        /\ restarts \in [Runs -> 0..MaxRestart]
    BY <1>0 DEF TypeOK
  <2>2. CASE Generate(r)
    <3>1. made[r] + 1 \in 0..MaxMade /\ counter[r] + 1 \in Nat
      BY <2>1, <2>2, MadeAssumption DEF Generate
    <3>2. made' \in [Runs -> 0..MaxMade] /\ counter' \in [Runs -> Nat]
      BY <2>1, <2>2, <3>1 DEF Generate
    <3> QED BY <1>0, <2>2, <3>2 DEF TypeOK, Generate
  <2>3. CASE EngineRestarts(r)
    <3>1. restarts[r] + 1 \in 0..MaxRestart
      BY <2>1, <2>3, RestartAssumption DEF EngineRestarts
    <3>2. restarts' \in [Runs -> 0..MaxRestart] /\ counter' \in [Runs -> Nat]
      BY <2>1, <2>3, <3>1 DEF EngineRestarts
    <3> QED BY <1>0, <2>3, <3>2 DEF TypeOK, EngineRestarts
  <2> QED BY <2>2, <2>3
<1>2. /\ at' = at /\ level' = level /\ rows' = rows /\ disk' = disk /\ s3' = s3 /\ exit' = exit
      /\ before' = before /\ samples' = samples /\ bench' = bench /\ scraping' = scraping
      /\ \/ at[r] = "bench" /\ counter'[r] = counter[r] + 1 /\ made'[r] = made[r] + 1
         \/ counter'[r] = 0 /\ made'[r] = made[r]
  BY <1>0 DEF TypeOK, Generate, EngineRestarts
<1>3. LevelsRise(r)' /\ Behind(r)'
  BY <1>2 DEF IInv, LevelsRise, Behind, Cut
<1>4. OwnLevel(r)'
  <2>1. counter[r] \in Nat /\ made[r] \in Nat
    BY <1>0 DEF TypeOK
  <2> QED BY <1>2, <2>1 DEF IInv, OwnLevel, Measuring
<1>5. \A q \in Runs \ {r} : Untouched(q)
  BY <1>0, <1>2 DEF TypeOK, Generate, EngineRestarts, Untouched
<1> QED BY <1>1, <1>3, <1>4, <1>5, StepOf

LEMMA StepBenchEnds == ASSUME IInv, NEW r \in Runs, BenchEnds(r) PROVE IInv'
<1>0. TypeOK
  BY DEF IInv
<1>1. PICK seen \in (0..made[r]) \cup {None} : bench' = [bench EXCEPT ![r] = seen]
  BY DEF BenchEnds
<1>2. TypeOK'
  <2>1. bench \in [Runs -> Nat \cup {None}] /\ made[r] \in Nat
    BY <1>0 DEF TypeOK
  <2>2. bench' \in [Runs -> Nat \cup {None}]
    BY <1>1, <2>1
  <2> QED BY <1>0, <2>2 DEF TypeOK, BenchEnds, Goes
<1>3. /\ at[r] = "bench" /\ at'[r] = "joining" /\ bench'[r] = seen
      /\ level' = level /\ rows' = rows /\ disk' = disk /\ s3' = s3 /\ counter' = counter
      /\ made' = made /\ before' = before /\ samples' = samples /\ scraping' = scraping
      /\ exit' = exit
  BY <1>0, <1>1 DEF TypeOK, BenchEnds, Goes
<1>4. (LevelsRise(r) /\ Behind(r) /\ OwnLevel(r))'
  <2>1. LevelsRise(r)'
    BY <1>3 DEF IInv, LevelsRise, Measuring
  <2>2. Behind(r)'
    BY <1>3 DEF IInv, Behind, Cut, Measuring, Sweeping
  <2>3. OwnLevel(r)'
    <3>1. seen # None => seen <= made[r]
      BY <1>0 DEF TypeOK
    <3> QED BY <1>3, <3>1 DEF IInv, OwnLevel, Measuring
  <2> QED BY <2>1, <2>2, <2>3
<1>5. \A q \in Runs \ {r} : Untouched(q)
  BY <1>0, <1>1 DEF TypeOK, BenchEnds, Goes, Untouched
<1> QED BY <1>2, <1>4, <1>5, StepOf

(* Only the level that is measured can be read under load, and its own     *)
(* thread alone writes its lists.                                          *)
LEMMA StepScrape == ASSUME IInv, NEW r \in Runs, NEW l \in Level, ScrapeLands(r, l) PROVE IInv'
<1>0. TypeOK /\ l \in scraping[r]
  BY DEF IInv, ScrapeLands
<1>1. Reading(r) \subseteq Level /\ Reading(r) \subseteq {level[r]}
  BY DEF IInv, LevelsRise, Measuring, Reading
<1>2. /\ samples' = [samples EXCEPT ![r] = [samples[r] EXCEPT ![l] = samples[r][l] \cup Reading(r)]]
      /\ scraping'[r] \subseteq scraping[r]
      /\ scraping' \in [Runs -> SUBSET Level]
      /\ \A q \in Runs \ {r} : scraping'[q] = scraping[q]
  BY <1>0 DEF TypeOK, ScrapeLands
<1>3. samples' \in [Runs -> [Level -> SUBSET Level]]
  BY <1>0, <1>1, <1>2 DEF TypeOK
<1>4. TypeOK'
  BY <1>0, <1>2, <1>3 DEF TypeOK, ScrapeLands
<1>5. /\ at' = at /\ level' = level /\ rows' = rows /\ disk' = disk /\ s3' = s3
      /\ counter' = counter /\ made' = made /\ before' = before /\ bench' = bench /\ exit' = exit
  BY DEF ScrapeLands
<1>6. /\ samples'[r][l] = samples[r][l] \cup Reading(r)
      /\ \A k \in Level \ {l} : samples'[r][k] = samples[r][k]
  BY <1>0, <1>2 DEF TypeOK
<1>7. LevelsRise(r)' /\ Behind(r)'
  BY <1>5 DEF IInv, LevelsRise, Behind, Cut
<1>8. OwnLevel(r)'
  <2>1. l <= level[r] /\ level[r] \in Nat /\ l \in Nat
    BY <1>0, LevelType DEF IInv, TypeOK, OwnLevel
  <2>2. \A k \in Level : k > level[r] => samples'[r][k] = {}
    BY <1>6, <2>1 DEF IInv, OwnLevel
  <2>3. at[r] \in Measuring => samples'[r][level[r]] \subseteq {level[r]}
    BY <1>1, <1>6 DEF IInv, OwnLevel, LevelsRise
  <2> QED BY <1>2, <1>5, <2>2, <2>3 DEF IInv, OwnLevel
<1>9. \A q \in Runs \ {r} : Untouched(q)
  BY <1>0, <1>2, <1>5 DEF TypeOK, Untouched
<1> QED BY <1>4, <1>7, <1>8, <1>9, StepOf

LEMMA StepLevelFails == ASSUME IInv, NEW r \in Runs, LevelFails(r) PROVE IInv'
<1>0. TypeOK
  BY DEF IInv
<1>1. TypeOK'
  BY <1>0 DEF TypeOK, LevelFails, Goes
<1>2. /\ at[r] = "joining" /\ at'[r] = "next"
      /\ level' = level /\ rows' = rows /\ disk' = disk /\ s3' = s3 /\ counter' = counter
      /\ made' = made /\ before' = before /\ samples' = samples /\ bench' = bench
      /\ scraping' = scraping /\ exit' = exit
  BY <1>0 DEF TypeOK, LevelFails, Goes
<1>3. (LevelsRise(r) /\ Behind(r) /\ OwnLevel(r))'
  <2>1. LevelsRise(r)'
    BY <1>2 DEF IInv, LevelsRise, Measuring
  <2>2. Behind(r)'
    BY <1>2 DEF IInv, Behind, Cut, Measuring, Sweeping
  <2>3. OwnLevel(r)'
    BY <1>2 DEF IInv, OwnLevel, Measuring
  <2> QED BY <2>1, <2>2, <2>3
<1>4. \A q \in Runs \ {r} : Untouched(q)
  BY <1>0 DEF TypeOK, LevelFails, Goes, Untouched
<1> QED BY <1>1, <1>3, <1>4, StepOf

(* The new row is above those in memory, and so above those on the disk.   *)
LEMMA StepRecord == ASSUME IInv, NEW r \in Runs, Record(r) PROVE IInv'
<1>0. TypeOK /\ at[r] = "joining" /\ level[r] \in Level /\ level[r] \in Nat
  BY LevelType DEF IInv, LevelsRise, Measuring, Record
<1>1. PICK row \in Row : rows' = [rows EXCEPT ![r] = Append(@, row)] /\ row.level = level[r]
  BY <1>0, RecordRow
<1>2. /\ rows[r] \in Seq(Row) /\ disk[r] \in Seq(Row)
      /\ rows'[r] = Append(rows[r], row) /\ Last(rows'[r]) = row
  BY <1>0, <1>1, ElementsAppended DEF IInv, TypeOK, Behind, Measuring, Sweeping
<1>3. /\ level' = level /\ counter' = counter /\ made' = made /\ before' = before /\ s3' = s3
      /\ samples' = samples /\ bench' = bench /\ scraping' = scraping /\ exit' = exit
      /\ disk' \in {[disk EXCEPT ![r] = Append(@, row)], disk}
      /\ at' \in {[at EXCEPT ![r] = "upload"], [at EXCEPT ![r] = "next"]}
      /\ \E b \in BOOLEAN : torn' = [torn EXCEPT ![r] = b]
  <2>1. torn[r] \in BOOLEAN
    BY <1>0 DEF TypeOK
  <2> QED BY <1>2, <2>1 DEF Record, Goes
<1>4. /\ Append(disk[r], row) \in Seq(Row)
      /\ disk'[r] = Append(disk[r], row) \/ disk'[r] = disk[r]
      /\ at'[r] \in {"upload", "next"}
  BY <1>0, <1>2, <1>3, ElementsAppended DEF TypeOK
<1>5. TypeOK'
  <2>1. rows' \in [Runs -> Seq(Row)]
    BY <1>0, RecordRow
  <2>2. disk \in [Runs -> Seq(Row) \cup {None}] /\ at \in [Runs -> {"waiting", "next", "bench",
             "joining", "upload", "exited", "over", "dead"}]
    BY <1>0 DEF TypeOK
  <2>3. disk' \in [Runs -> Seq(Row) \cup {None}] /\ at' \in [Runs -> {"waiting", "next", "bench",
             "joining", "upload", "exited", "over", "dead"}]
    <3>1. [disk EXCEPT ![r] = Append(disk[r], row)] \in [Runs -> Seq(Row) \cup {None}]
      BY <1>4, <2>2
    <3> QED BY <1>3, <2>2, <3>1
  <2>4. /\ counter' = counter /\ restarts' = restarts /\ exit' = exit /\ clock' = clock
        /\ began' = began
    BY DEF Record
  <2>5. torn' \in [Runs -> BOOLEAN]
    BY <1>0, <1>3 DEF TypeOK
  <2> QED BY <1>0, <1>3, <2>1, <2>3, <2>4, <2>5 DEF TypeOK
<1>6. \A y \in ToSet(rows[r]) : y.level < row.level
  BY <1>0, <1>1 DEF IInv, LevelsRise, Measuring, ToSet
<1>7. LevelsRise(r)'
  <2>1. Rising(rows'[r])
    BY <1>2, <1>6, RisingAppended DEF IInv, LevelsRise
  <2>2. \A y \in ToSet(rows'[r]) : y.level <= level[r]
    <3>1. ToSet(rows'[r]) = ToSet(rows[r]) \cup {row}
      BY <1>2, ElementsAppended
    <3>2. \A y \in ToSet(rows[r]) : y.level \in Nat
      BY <1>0, RowLevels DEF ToSet
    <3> QED BY <1>0, <1>1, <1>6, <3>1, <3>2
  <2> QED BY <1>3, <1>4, <2>1, <2>2 DEF LevelsRise, Measuring, ToSet
<1>8. Behind(r)'
  <2>1. /\ ToSet(disk[r]) \subseteq ToSet(rows[r]) /\ Rising(disk[r])
        /\ s3[r] = None \/ ToSet(s3[r]) \subseteq ToSet(disk[r])
    BY <1>0, <1>2 DEF IInv, Behind, Cut, Measuring, Sweeping
  <2>2. /\ ToSet(rows'[r]) = ToSet(rows[r]) \cup {row}
        /\ ToSet(Append(disk[r], row)) = ToSet(disk[r]) \cup {row}
    BY <1>2, ElementsAppended
  <2>3. Rising(Append(disk[r], row))
    BY <1>2, <1>6, <2>1, RisingAppended
  <2>4. disk'[r] \in Seq(Row) /\ Rising(disk'[r]) /\ ToSet(disk'[r]) \subseteq ToSet(rows'[r])
    BY <1>2, <1>4, <2>1, <2>2, <2>3
  <2>5. s3[r] = None \/ ToSet(s3[r]) \subseteq ToSet(disk'[r])
    BY <1>4, <2>1, <2>2
  <2> QED BY <1>3, <1>4, <2>4, <2>5 DEF Behind, Cut
<1>9. OwnLevel(r)'
  BY <1>3, <1>4 DEF IInv, OwnLevel, Measuring
<1>10. \A q \in Runs \ {r} : Untouched(q)
  BY <1>0, <1>1, <1>3 DEF TypeOK, Untouched
<1> QED BY <1>5, <1>7, <1>8, <1>9, <1>10, StepOf

LEMMA PutType ==
  ASSUME TypeOK, NEW r \in Runs, Put(r)
  PROVE  /\ s3' \in [Runs -> Seq(Row) \cup {None}]
         /\ \A q \in Runs \ {r} : s3'[q] = s3[q]
         /\ s3'[r] = disk[r] \/ s3' = s3
  BY DEF TypeOK, Put

LEMMA StepUploads ==
  ASSUME IInv, NEW r \in Runs, Upload(r) \/ FinalUpload(r)
  PROVE  IInv'
<1>0. TypeOK
  BY DEF IInv
<1>1. /\ s3' \in [Runs -> Seq(Row) \cup {None}]
      /\ \A q \in Runs \ {r} : s3'[q] = s3[q]
      /\ s3' = s3 \/ (s3'[r] = disk[r] /\ disk[r] \in Seq(Row))
  BY <1>0, PutType DEF IInv, TypeOK, Upload, FinalUpload, Behind, Measuring, Sweeping
<1>2. /\ at[r] \in {"upload", "exited"} /\ at'[r] \in {"next", "over"}
      /\ at[r] = "exited" => at'[r] = "over"
      /\ level' = level /\ rows' = rows /\ disk' = disk /\ counter' = counter /\ made' = made
      /\ before' = before /\ samples' = samples /\ bench' = bench /\ scraping' = scraping
      /\ began' = began /\ restarts' = restarts /\ exit' = exit /\ clock' = clock /\ torn' = torn
      /\ at' \in [Runs -> {"waiting", "next", "bench", "joining", "upload", "exited", "over", "dead"}]
      /\ \A q \in Runs \ {r} : at'[q] = at[q]
  BY <1>0 DEF TypeOK, Upload, FinalUpload, Goes
<1>3. TypeOK'
  BY <1>0, <1>1, <1>2 DEF TypeOK
<1>4. LevelsRise(r)' /\ OwnLevel(r)'
  BY <1>2 DEF IInv, LevelsRise, OwnLevel, Measuring
<1>5. Behind(r)'
  BY <1>1, <1>2 DEF IInv, Behind, Cut, Measuring, Sweeping
<1>6. \A q \in Runs \ {r} : Untouched(q)
  BY <1>1, <1>2 DEF Untouched
<1> QED BY <1>3, <1>4, <1>5, <1>6, StepOf

(* The first rows of a rising sequence, and what they leave out.           *)
LEMMA FirstRows ==
  ASSUME NEW s \in Seq(Row), Rising(s), NEW n \in 0..Len(s)
  PROVE  /\ SubSeq(s, 1, n) \in Seq(Row) /\ Rising(SubSeq(s, 1, n))
         /\ \A f \in ToSet(s) \ ToSet(SubSeq(s, 1, n)) :
               \A g \in ToSet(SubSeq(s, 1, n)) : g.level < f.level
<1> DEFINE t == SubSeq(s, 1, n)
<1>1. Len(s) \in Nat /\ DOMAIN s = 1..Len(s) /\ n \in Nat /\ n <= Len(s)
  BY LenProperties
<1>2. t \in Seq(Row) /\ DOMAIN t = 1..n /\ \A i \in 1..n : t[i] = s[i]
  BY <1>1
<1>3. 1..n \subseteq 1..Len(s)
  BY <1>1
<1> HIDE DEF t
<1>4. Rising(t)
  BY <1>1, <1>2, <1>3 DEF Rising
<1>5. ASSUME NEW f \in ToSet(s) \ ToSet(t), NEW g \in ToSet(t) PROVE g.level < f.level
  <2>1. PICK i \in 1..Len(s) : f = s[i]
    BY <1>1 DEF ToSet
  <2>2. PICK j \in 1..n : g = s[j]
    BY <1>2 DEF ToSet
  <2>3. i \notin 1..n
    BY <1>2, <2>1 DEF ToSet
  <2>4. j < i
    BY <1>1, <2>3
  <2> QED BY <1>1, <1>3, <2>1, <2>2, <2>4 DEF Rising
<1> QED BY <1>2, <1>4, <1>5 DEF t

LEMMA StepFinish == ASSUME IInv, NEW r \in Runs, Finish(r) PROVE IInv'
<1>0. TypeOK /\ Forget(r)
  BY DEF IInv, Finish
<1>1. /\ rows[r] \in Seq(Row) /\ Rising(rows[r]) /\ disk[r] \in Seq(Row) /\ at[r] = "next"
      /\ ToSet(disk[r]) \subseteq ToSet(rows[r]) /\ Rising(disk[r])
      /\ s3[r] = None \/ ToSet(s3[r]) \subseteq ToSet(disk[r])
  BY <1>0 DEF IInv, TypeOK, Finish, LevelsRise, Behind, Cut, Sweeping
<1>2. /\ at' \in [Runs -> {"waiting", "next", "bench", "joining", "upload", "exited", "over", "dead"}]
      /\ at'[r] = "exited" /\ \A q \in Runs \ {r} : at'[q] = at[q]
      /\ s3' = s3 /\ clock' = clock
  BY <1>0 DEF TypeOK, Finish, Goes
<1>3. PICK file \in Seq(Row) :
         /\ disk' = [disk EXCEPT ![r] = file] /\ Rising(file)
         /\ \E code \in {0, 1} : exit' = [exit EXCEPT ![r] = code]
         /\ ToSet(rows[r]) \subseteq ToSet(file) \/ ToSet(disk[r]) \subseteq ToSet(file)
            \/ /\ exit' = [exit EXCEPT ![r] = 1]
               /\ \A f \in ToSet(rows[r]) \ ToSet(file) : \A g \in ToSet(file) : g.level < f.level
  <2>1. CASE disk' = [disk EXCEPT ![r] = rows[r]] /\ exit' = [exit EXCEPT ![r] = ExitCode(r)]
    <3>1. ExitCode(r) \in {0, 1}
      BY DEF ExitCode
    <3> QED BY <1>1, <2>1, <3>1
  <2>2. CASE RewriteFails(r) /\ UNCHANGED disk
    <3>1. disk' = [disk EXCEPT ![r] = disk[r]]
      BY <1>0, <2>2 DEF TypeOK
    <3> QED BY <1>1, <2>2, <3>1 DEF RewriteFails
  <2>3. CASE RewriteFails(r)
             /\ \E n \in 0..Len(rows[r]) : disk' = [disk EXCEPT ![r] = SubSeq(rows[r], 1, n)]
    BY <1>1, <2>3, FirstRows DEF RewriteFails
  <2> QED BY <2>1, <2>2, <2>3 DEF Finish, RewriteFails
<1>4. /\ disk' \in [Runs -> Seq(Row) \cup {None}] /\ disk'[r] = file
      /\ \A q \in Runs \ {r} : disk'[q] = disk[q] /\ exit'[q] = exit[q]
      /\ exit' \in [Runs -> {0, 1, 3, None}]
      /\ exit' = [exit EXCEPT ![r] = 1] => exit'[r] = 1
  BY <1>0, <1>3 DEF TypeOK
<1>5. TypeOK'
  BY <1>0, <1>2, <1>4, ForgetType DEF TypeOK
<1>6. s3[r] = None \/ Cut(r)'
  <2> SUFFICES ASSUME s3[r] # None, NEW f \in ToSet(s3[r]) \ ToSet(file)
               PROVE  exit'[r] = 1 /\ \A g \in ToSet(file) : g.level < f.level
    BY <1>2, <1>4 DEF Cut
  <2>1. f \in ToSet(disk[r]) /\ f \in ToSet(rows[r])
    BY <1>1
  <2> QED BY <1>3, <1>4, <2>1
<1>7. (LevelsRise(r) /\ Behind(r) /\ OwnLevel(r))'
  BY <1>0, <1>2, <1>3, <1>4, <1>6, Forgotten
<1>8. \A q \in Runs \ {r} : Untouched(q)
  BY <1>0, <1>2, <1>4, ForgetsOwn DEF Untouched
<1> QED BY <1>5, <1>7, <1>8, StepOf

LEMMA StepPodDies == ASSUME IInv, NEW r \in Runs, PodDies(r) PROVE IInv'
<1>0. TypeOK /\ Forget(r)
  BY DEF IInv, PodDies
<1>1. /\ at' \in [Runs -> {"waiting", "next", "bench", "joining", "upload", "exited", "over", "dead"}]
      /\ at'[r] = "dead" /\ disk'[r] = None /\ s3' = s3 /\ exit' = exit /\ clock' = clock
      /\ disk' \in [Runs -> Seq(Row) \cup {None}]
      /\ \A q \in Runs \ {r} : at'[q] = at[q] /\ disk'[q] = disk[q]
  BY <1>0 DEF TypeOK, PodDies, Goes
<1>2. TypeOK'
  BY <1>0, <1>1, ForgetType DEF TypeOK
<1>3. (LevelsRise(r) /\ Behind(r) /\ OwnLevel(r))'
  BY <1>0, <1>1, Forgotten
<1>4. \A q \in Runs \ {r} : Untouched(q)
  BY <1>0, <1>1, ForgetsOwn DEF Untouched
<1> QED BY <1>2, <1>3, <1>4, StepOf

LEMMA InvNext == IInv /\ [Next]_loadVars => IInv'
<1> SUFFICES ASSUME IInv, [Next]_loadVars PROVE IInv'
  OBVIOUS
<1>1. CASE UNCHANGED loadVars
  <2>1. \A q \in Runs : Untouched(q)
    BY <1>1 DEF loadVars, Untouched
  <2>2. TypeOK'
    BY <1>1 DEF IInv, TypeOK, loadVars
  <2> QED BY <2>1, <2>2, OthersStay DEF IInv
<1>2. CASE Tick
  <2>1. \A q \in Runs : Untouched(q)
    BY <1>2 DEF Tick, Untouched
  <2>2. TypeOK'
    BY <1>2, ClockAssumption DEF IInv, TypeOK, Tick
  <2> QED BY <2>1, <2>2, OthersStay DEF IInv
<1>3. ASSUME NEW r \in Runs, Sweep(r) PROVE IInv'
  BY <1>3, StepReady, StepNotReady, StepBeginLevel, StepEngine, StepBenchEnds, StepScrape,
     StepLevelFails, StepRecord, StepUploads, StepFinish, StepPodDies DEF Sweep
<1> QED BY <1>1, <1>2, <1>3 DEF Next

(* Every variable keeps its type.                                          *)
THEOREM ResultsTypes == Spec => []TypeOK
<1>1. IInv => TypeOK
  BY DEF IInv
<1> QED BY <1>1, InvInit, InvNext, PTL DEF Spec

-------------------------------------------------------------------------------
(* What an upload takes out of S3, and that what it puts there rises.      *)
LEMMA UploadGrows ==
  ASSUME IInv, [Next]_loadVars, NEW r \in Runs, s3'[r] # s3[r]
  PROVE  /\ s3[r] # None =>
               \A f \in ToSet(s3[r]) \ ToSet(s3'[r]) :
                  exit[r] = 1 /\ \A g \in ToSet(s3'[r]) : g.level < f.level
         /\ Rising(s3'[r])
<1>0. TypeOK
  BY DEF IInv
<1>1. PICK q \in Runs : Upload(q) \/ FinalUpload(q)
  BY DEF Next, loadVars, Tick, Sweep, Ready, NotReady, BeginLevel, Generate, EngineRestarts,
         BenchEnds, LevelFails, Record, Finish, PodDies, ScrapeLands
<1>2. Put(q)
  BY <1>1 DEF Upload, FinalUpload, IInv, Behind
<1>3. q = r /\ s3'[r] = disk[r]
  BY <1>0, <1>2, PutType
<1>4. at[r] = "upload" \/ (at[r] = "exited" /\ disk[r] # None)
  BY <1>1, <1>3 DEF Upload, FinalUpload
<1> QED BY <1>3, <1>4 DEF IInv, Behind, Cut, Measuring, Sweeping

(* load-test.py, _append_result_to_disk to _upload_file_to_s3 and the last *)
(* write: whatever fails between memory, disk and S3, what S3 has of a run *)
(* stays, with every level once; only a sweep that could not write its     *)
(* file anew takes its last levels away, and exits with 1.                 *)
THEOREM UploadsLast == Spec => NothingLost
<1> DEFINE Kept == \A r \in Runs : s3'[r] # s3[r] =>
              /\ \A i, j \in DOMAIN s3'[r] : i < j => s3'[r][i].level < s3'[r][j].level
              /\ s3[r] # None =>
                    \A f \in ToSet(s3[r]) \ ToSet(s3'[r]) :
                       exit[r] = 1 /\ \A g \in ToSet(s3'[r]) : g.level < f.level
<1>1. IInv /\ [Next]_loadVars => Kept
  BY UploadGrows DEF Rising
<1>2. Spec => []IInv
  BY InvInit, InvNext, PTL DEF Spec
<1> QED BY <1>1, <1>2, PTL DEF Spec, NothingLost

(* load-test.py:569-586 and 417-456: a row reports tokens between what the *)
(* client saw and what the engine made in its level, and telemetry of its  *)
(* own level only.                                                         *)
THEOREM RowsMeasureTheirLevel == Spec => RowIsOfItsLevel
<1> DEFINE Own == \A r \in Runs : Len(rows'[r]) > Len(rows[r]) =>
              /\ bench[r] <= Last(rows'[r]).tokens /\ Last(rows'[r]).tokens <= made[r]
              /\ Last(rows'[r]).tele \subseteq {Last(rows'[r]).level}
<1>1. IInv /\ [Next]_loadVars => Own
  <2> SUFFICES ASSUME IInv, [Next]_loadVars, NEW r \in Runs, Len(rows'[r]) > Len(rows[r])
               PROVE  /\ bench[r] <= Last(rows'[r]).tokens /\ Last(rows'[r]).tokens <= made[r]
                      /\ Last(rows'[r]).tele \subseteq {Last(rows'[r]).level}
    OBVIOUS
  <2>0. TypeOK /\ Len(rows[r]) \in Nat /\ ~(Len(rows[r]) > Len(rows[r])) /\ ~(0 > Len(rows[r]))
    BY LenProperties DEF IInv, TypeOK
  <2>1. rows'[r] # rows[r] /\ rows'[r] # <<>>
    BY <2>0, EmptySeq
  <2>2. Record(r)
    <3>1. ASSUME NEW q \in Runs, Forget(q) PROVE FALSE
      BY <2>0, <2>1, <3>1 DEF Forget, TypeOK
    <3>2. ASSUME NEW q \in Runs, Record(q) PROVE q = r
      BY <2>0, <2>1, <3>2 DEF Record, TypeOK
    <3> QED BY <2>1, <3>1, <3>2
            DEF Next, loadVars, Tick, Sweep, Ready, NotReady, BeginLevel, Generate, EngineRestarts,
                BenchEnds, LevelFails, Upload, FinalUpload, Finish, PodDies, ScrapeLands
  <2>3. /\ at[r] = "joining" /\ level[r] \in Level /\ bench[r] # None
    BY <2>2 DEF Record, IInv, LevelsRise, Measuring
  <2>4. PICK row : /\ rows' = [rows EXCEPT ![r] = Append(@, row)] /\ row \in Row
                   /\ row.level = level[r] /\ row.tele = samples[r][level[r]]
                   /\ \E c \in Scraped(r) : row.tokens = Tokens(bench[r], EngineDelta(before[r], c))
    BY <2>0, <2>2, <2>3, RecordRow
  <2>5. Last(rows'[r]) = row
    BY <2>0, <2>4, ElementsAppended DEF TypeOK
  <2>6. PICK c \in Scraped(r) : row.tokens = Tokens(bench[r], EngineDelta(before[r], c))
    BY <2>4
  <2>7. /\ bench[r] \in Nat /\ before[r] \in Nat \cup {None} /\ made[r] \in Nat
        /\ counter[r] \in Nat /\ c \in Nat \cup {None} /\ (c \in Nat => c = counter[r])
    BY <2>0, <2>3, NoneAssumption DEF TypeOK, Scraped
  <2>8. /\ before[r] \in Nat => counter[r] <= before[r] + made[r]
        /\ samples[r][level[r]] \subseteq {level[r]} /\ bench[r] <= made[r]
    BY <2>3 DEF IInv, OwnLevel, Measuring
  <2> DEFINE delta == EngineDelta(before[r], c)
  <2>9. /\ bench[r] <= row.tokens /\ row.tokens \in {bench[r], delta}
        /\ delta # None => before[r] \in Nat /\ c \in Nat /\ delta = c - before[r]
        /\ row.tokens \in Nat
    <3>1. /\ delta # None => before[r] \in Nat /\ c \in Nat /\ delta = c - before[r]
          /\ Tokens(bench[r], delta) \in Nat /\ bench[r] <= Tokens(bench[r], delta)
          /\ Tokens(bench[r], delta) \in {bench[r], delta}
      BY <2>7, CountType
    <3> QED BY <2>6, <3>1
  <2> HIDE DEF delta
  <2>10. delta # None => delta <= made[r]
    BY <2>7, <2>8, <2>9
  <2>11. row.tokens <= made[r]
    BY <2>7, <2>8, <2>9, <2>10, NoneAssumption
  <2> QED BY <2>4, <2>5, <2>8, <2>9, <2>11
<1>2. Spec => []IInv
  BY InvInit, InvNext, PTL DEF Spec
<1> QED BY <1>1, <1>2, PTL DEF Spec, RowIsOfItsLevel

-------------------------------------------------------------------------------
(* THE REPORT'S FOLDS: step by step, and what they make                    *)

(* Only, step by step.                                                     *)
OnlyLiteral(h, rs, good) ==
    h = [s \in SUBSET (DOMAIN rs) |->
            IF s = {} THEN <<>>
            ELSE IF rs[Max(s)] \in good THEN Append(h[s \ {Max(s)}], rs[Max(s)])
                 ELSE h[s \ {Max(s)}]]

OnlySteps(f, rs, good) ==
    /\ f[0] = <<>>
    /\ \A k \in 1..Len(rs) :
          f[k] = IF rs[k] \in good THEN Append(f[k - 1], rs[k]) ELSE f[k - 1]

(* The fold, as its literal recursion over the subsets of the indices.     *)
LEMMA OnlyIsChosen ==
  ASSUME NEW rs, NEW good
  PROVE  Only(rs, good) = (CHOOSE h : OnlyLiteral(h, rs, good))[DOMAIN rs]
  BY DEF Only, FoldLeft, MapThenFoldSet, OnlyLiteral

(* The recursion exists, so that the fold goes through the rows in order.  *)
LEMMA OnlyClimbs ==
  ASSUME NEW S, NEW rs \in Seq(S), NEW good
  PROVE  \E f : OnlySteps(f, rs, good) /\ Only(rs, good) = f[Len(rs)]
<1> DEFINE n == Len(rs)
           V == Seq(S)
           base == <<>>
           st == [i \in 1..n |-> [v \in V |-> IF rs[i] \in good THEN Append(v, rs[i]) ELSE v]]
           C == CHOOSE h : OnlyLiteral(h, rs, good)
<1>1. n \in Nat /\ DOMAIN rs = 1..n /\ \A k \in 1..n : rs[k] \in S
  OBVIOUS
<1>2. \A i \in 1..n : \A v \in V :
        st[i][v] \in V /\ st[i][v] = IF rs[i] \in good THEN Append(v, rs[i]) ELSE v
  BY <1>1
<1>3. base \in V
  OBVIOUS
<1> HIDE DEF st, V, n
<1>4. PICK h \in [SUBSET (1..n) -> V] : Leftwards(h, n, base, st)
  <2>1. Keeps(1..n, V, st)
    BY <1>2 DEF Keeps
  <2> HIDE DEF base
  <2> QED BY <1>1, <1>3, <2>1, LeftFoldExists
<1>5. OnlyLiteral(h, rs, good)
  <2>1. ASSUME NEW s \in SUBSET (1..n), s # {}
        PROVE  st[Max(s)][h[s \ {Max(s)}]] =
                 IF rs[Max(s)] \in good THEN Append(h[s \ {Max(s)}], rs[Max(s)])
                 ELSE h[s \ {Max(s)}]
    <3>1. Max(s) \in 1..n /\ s \ {Max(s)} \in SUBSET (1..n)
      BY <1>1, <2>1, MaxOf
    <3> QED BY <1>2, <3>1
  <2> QED BY <1>1, <1>4, <2>1 DEF Leftwards, OnlyLiteral, base
<1>6. OnlyLiteral(C, rs, good)
  BY <1>5
<1>7. Only(rs, good) = C[1..n]
  BY <1>1, OnlyIsChosen
<1> HIDE DEF C
<1> DEFINE f == [k \in 0..n |-> C[1..k]]
<1>8. \A k \in 0..n : f[k] = C[1..k]
  OBVIOUS
<1> HIDE DEF f
<1>9. f[0] = <<>>
  <2>1. 1..0 = {} /\ {} \in SUBSET (1..n) /\ 0 \in 0..n
    BY <1>1
  <2> QED BY <1>1, <1>6, <1>8, <2>1 DEF OnlyLiteral
<1>10. ASSUME NEW k \in 1..n
       PROVE  f[k] = IF rs[k] \in good THEN Append(f[k - 1], rs[k]) ELSE f[k - 1]
  <2>1. /\ Max(1..k) = k /\ (1..k) \ {k} = 1..(k - 1) /\ 1..k # {}
        /\ 1..k \in SUBSET (1..n)
    BY <1>1, TopOf
  <2>2. k \in 0..n /\ k - 1 \in 0..n
    BY <1>1
  <2>3. C[1..k] = IF rs[k] \in good THEN Append(C[1..(k - 1)], rs[k]) ELSE C[1..(k - 1)]
    BY <1>1, <1>6, <2>1 DEF OnlyLiteral
  <2> QED BY <1>8, <2>2, <2>3
<1>11. OnlySteps(f, rs, good)
  BY <1>9, <1>10 DEF OnlySteps, n
<1>12. Only(rs, good) = f[n]
  BY <1>1, <1>7, <1>8
<1> QED BY <1>11, <1>12 DEF n

LEMMA RefreshedType ==
  ASSUME NEW S, NEW v \in Seq(S), NEW x \in S
  PROVE  Refreshed(v, x) \in Seq(S)
<1>1. CASE \E i \in DOMAIN v : Identity(v[i]) = Identity(x)
  <2> DEFINE w == [i \in 1..Len(v) |->
             IF Identity(v[i]) = Identity(x) /\ x.started > v[i].started THEN x ELSE v[i]]
  <2>1. Len(v) \in Nat /\ DOMAIN v = 1..Len(v) /\ \A i \in 1..Len(v) : v[i] \in S
    OBVIOUS
  <2>2. w \in [1..Len(v) -> S]
    BY <2>1
  <2>3. w \in Seq(S)
    BY <2>1, <2>2, FunctionsAreSequences
  <2>4. Refreshed(v, x) = w
    BY <1>1, <2>1 DEF Refreshed
  <2> QED BY <2>3, <2>4
<1>2. CASE ~\E i \in DOMAIN v : Identity(v[i]) = Identity(x)
  BY <1>2, AppendProperties DEF Refreshed
<1> QED BY <1>1, <1>2

LEMMA ListedType ==
  ASSUME NEW S, NEW v \in Seq(S), NEW x \in S
  PROVE  Listed(v, x) \in Seq(S)
  BY AppendProperties DEF Listed

(* The freshest rows, step by step. *)
FreshestLiteral(h, rs) ==
    h = [s \in SUBSET (DOMAIN rs) |->
            IF s = {} THEN <<>> ELSE Refreshed(h[s \ {Max(s)}], rs[Max(s)])]

FreshestSteps(f, rs) ==
    f[0] = <<>> /\ \A k \in 1..Len(rs) : f[k] = Refreshed(f[k - 1], rs[k])

LEMMA FreshestIsChosen ==
  ASSUME NEW rs
  PROVE  Freshest(rs) = (CHOOSE h : FreshestLiteral(h, rs))[DOMAIN rs]
  BY DEF Freshest, FoldLeft, MapThenFoldSet, FreshestLiteral

LEMMA FreshestClimbs ==
  ASSUME NEW S, NEW rs \in Seq(S)
  PROVE  \E f : FreshestSteps(f, rs) /\ Freshest(rs) = f[Len(rs)]
<1> DEFINE n == Len(rs)
           V == Seq(S)
           base == <<>>
           st == [i \in 1..n |-> [v \in V |-> Refreshed(v, rs[i])]]
           C == CHOOSE h : FreshestLiteral(h, rs)
<1>1. n \in Nat /\ DOMAIN rs = 1..n /\ \A k \in 1..n : rs[k] \in S
  OBVIOUS
<1>2. \A i \in 1..n : \A v \in V : st[i][v] \in V /\ st[i][v] = Refreshed(v, rs[i])
  BY <1>1, RefreshedType
<1>3. base \in V
  OBVIOUS
<1> HIDE DEF st, V, n
<1>4. PICK h \in [SUBSET (1..n) -> V] : Leftwards(h, n, base, st)
  <2>1. Keeps(1..n, V, st)
    BY <1>2 DEF Keeps
  <2> HIDE DEF base
  <2> QED BY <1>1, <1>3, <2>1, LeftFoldExists
<1>5. FreshestLiteral(h, rs)
  <2>1. ASSUME NEW s \in SUBSET (1..n), s # {}
        PROVE  st[Max(s)][h[s \ {Max(s)}]] = Refreshed(h[s \ {Max(s)}], rs[Max(s)])
    <3>1. Max(s) \in 1..n /\ s \ {Max(s)} \in SUBSET (1..n)
      BY <1>1, <2>1, MaxOf
    <3> QED BY <1>2, <3>1
  <2> QED BY <1>1, <1>4, <2>1 DEF Leftwards, FreshestLiteral, base
<1>6. FreshestLiteral(C, rs)
  BY <1>5
<1>7. Freshest(rs) = C[1..n]
  BY <1>1, FreshestIsChosen
<1> HIDE DEF C
<1> DEFINE f == [k \in 0..n |-> C[1..k]]
<1>8. \A k \in 0..n : f[k] = C[1..k]
  OBVIOUS
<1> HIDE DEF f
<1>9. f[0] = <<>>
  <2>1. 1..0 = {} /\ {} \in SUBSET (1..n) /\ 0 \in 0..n
    BY <1>1
  <2> QED BY <1>1, <1>6, <1>8, <2>1 DEF FreshestLiteral
<1>10. ASSUME NEW k \in 1..n PROVE f[k] = Refreshed(f[k - 1], rs[k])
  <2>1. /\ Max(1..k) = k /\ (1..k) \ {k} = 1..(k - 1) /\ 1..k # {}
        /\ 1..k \in SUBSET (1..n)
    BY <1>1, TopOf
  <2>2. k \in 0..n /\ k - 1 \in 0..n
    BY <1>1
  <2>3. C[1..k] = Refreshed(C[1..(k - 1)], rs[k])
    BY <1>1, <1>6, <2>1 DEF FreshestLiteral
  <2> QED BY <1>8, <2>2, <2>3
<1>11. FreshestSteps(f, rs)
  BY <1>9, <1>10 DEF FreshestSteps, n
<1>12. Freshest(rs) = f[n]
  BY <1>1, <1>7, <1>8
<1> QED BY <1>11, <1>12 DEF n

(* The unique rows, step by step. *)
UniqueLiteral(h, rs) ==
    h = [s \in SUBSET (DOMAIN rs) |->
            IF s = {} THEN <<>> ELSE Listed(h[s \ {Max(s)}], rs[Max(s)])]

UniqueSteps(f, rs) ==
    f[0] = <<>> /\ \A k \in 1..Len(rs) : f[k] = Listed(f[k - 1], rs[k])

LEMMA UniqueIsChosen ==
  ASSUME NEW rs
  PROVE  Unique(rs) = (CHOOSE h : UniqueLiteral(h, rs))[DOMAIN rs]
  BY DEF Unique, FoldLeft, MapThenFoldSet, UniqueLiteral

LEMMA UniqueClimbs ==
  ASSUME NEW S, NEW rs \in Seq(S)
  PROVE  \E f : UniqueSteps(f, rs) /\ Unique(rs) = f[Len(rs)]
<1> DEFINE n == Len(rs)
           V == Seq(S)
           base == <<>>
           st == [i \in 1..n |-> [v \in V |-> Listed(v, rs[i])]]
           C == CHOOSE h : UniqueLiteral(h, rs)
<1>1. n \in Nat /\ DOMAIN rs = 1..n /\ \A k \in 1..n : rs[k] \in S
  OBVIOUS
<1>2. \A i \in 1..n : \A v \in V : st[i][v] \in V /\ st[i][v] = Listed(v, rs[i])
  BY <1>1, ListedType
<1>3. base \in V
  OBVIOUS
<1> HIDE DEF st, V, n
<1>4. PICK h \in [SUBSET (1..n) -> V] : Leftwards(h, n, base, st)
  <2>1. Keeps(1..n, V, st)
    BY <1>2 DEF Keeps
  <2> HIDE DEF base
  <2> QED BY <1>1, <1>3, <2>1, LeftFoldExists
<1>5. UniqueLiteral(h, rs)
  <2>1. ASSUME NEW s \in SUBSET (1..n), s # {}
        PROVE  st[Max(s)][h[s \ {Max(s)}]] = Listed(h[s \ {Max(s)}], rs[Max(s)])
    <3>1. Max(s) \in 1..n /\ s \ {Max(s)} \in SUBSET (1..n)
      BY <1>1, <2>1, MaxOf
    <3> QED BY <1>2, <3>1
  <2> QED BY <1>1, <1>4, <2>1 DEF Leftwards, UniqueLiteral, base
<1>6. UniqueLiteral(C, rs)
  BY <1>5
<1>7. Unique(rs) = C[1..n]
  BY <1>1, UniqueIsChosen
<1> HIDE DEF C
<1> DEFINE f == [k \in 0..n |-> C[1..k]]
<1>8. \A k \in 0..n : f[k] = C[1..k]
  OBVIOUS
<1> HIDE DEF f
<1>9. f[0] = <<>>
  <2>1. 1..0 = {} /\ {} \in SUBSET (1..n) /\ 0 \in 0..n
    BY <1>1
  <2> QED BY <1>1, <1>6, <1>8, <2>1 DEF UniqueLiteral
<1>10. ASSUME NEW k \in 1..n PROVE f[k] = Listed(f[k - 1], rs[k])
  <2>1. /\ Max(1..k) = k /\ (1..k) \ {k} = 1..(k - 1) /\ 1..k # {}
        /\ 1..k \in SUBSET (1..n)
    BY <1>1, TopOf
  <2>2. k \in 0..n /\ k - 1 \in 0..n
    BY <1>1
  <2>3. C[1..k] = Listed(C[1..(k - 1)], rs[k])
    BY <1>1, <1>6, <2>1 DEF UniqueLiteral
  <2> QED BY <1>8, <2>2, <2>3
<1>11. UniqueSteps(f, rs)
  BY <1>9, <1>10 DEF UniqueSteps, n
<1>12. Unique(rs) = f[n]
  BY <1>1, <1>7, <1>8
<1> QED BY <1>11, <1>12 DEF n

(* What is used of sequences.                                              *)
LEMMA SeqFacts ==
  ASSUME NEW S, NEW s \in Seq(S)
  PROVE  /\ Len(s) \in Nat /\ DOMAIN s = 1..Len(s) /\ \A i \in 1..Len(s) : s[i] \in S
         /\ ToSet(s) \subseteq S
         /\ \A x : x \in ToSet(s) <=> \E i \in 1..Len(s) : x = s[i]
<1>1. Len(s) \in Nat /\ DOMAIN s = 1..Len(s) /\ \A i \in 1..Len(s) : s[i] \in S
  OBVIOUS
<1>2. \A x : x \in ToSet(s) <=> \E i \in 1..Len(s) : x = s[i]
  BY <1>1 DEF ToSet
<1> QED BY <1>1, <1>2

(* The rows that are good, and no others.                                  *)
LEMMA OnlyIs ==
  ASSUME NEW S, NEW rs \in Seq(S), NEW good
  PROVE  Only(rs, good) \in Seq(S) /\ ToSet(Only(rs, good)) = ToSet(rs) \cap good
<1> DEFINE n == Len(rs)
<1>1. n \in Nat /\ DOMAIN rs = 1..n /\ \A k \in 1..n : rs[k] \in S
  BY SeqFacts
<1>2. PICK f : OnlySteps(f, rs, good) /\ Only(rs, good) = f[n]
  BY OnlyClimbs
<1>3. /\ f[0] = <<>>
      /\ \A k \in 1..n : f[k] = IF rs[k] \in good THEN Append(f[k - 1], rs[k]) ELSE f[k - 1]
  BY <1>2 DEF OnlySteps
<1> DEFINE Upto(k) == /\ f[k] \in Seq(S)
                      /\ \A x : x \in ToSet(f[k]) <=> x \in good /\ \E i \in 1..k : x = rs[i]
           K == {k \in 0..n : Upto(k)}
<1>4. 0 \in K
  <2>1. <<>> \in Seq(S) /\ ToSet(<<>>) = {}
    BY DEF ToSet
  <2>2. f[0] = <<>>
    BY <1>3
  <2>3. Upto(0)
    BY <2>1, <2>2
  <2> HIDE DEF Upto
  <2> QED BY <1>1, <2>3
<1>5. ASSUME NEW k \in 0..n, k \in K, k < n PROVE k + 1 \in K
  <2>1. k + 1 \in 1..n /\ (k + 1) - 1 = k /\ k + 1 \in 0..n
    BY <1>1, <1>5
  <2>2. \A i : i \in 1..(k + 1) <=> i \in 1..k \/ i = k + 1
    BY <2>1
  <2>3. CASE rs[k + 1] \in good
    <3>1. f[k + 1] = Append(f[k], rs[k + 1])
      BY <1>3, <2>1, <2>3
    <3>2. f[k + 1] \in Seq(S) /\ ToSet(f[k + 1]) = ToSet(f[k]) \cup {rs[k + 1]}
      BY <1>1, <1>5, <2>1, <3>1, ElementsAppended
    <3>3. \A x : x \in ToSet(f[k + 1]) <=> x \in good /\ \E i \in 1..(k + 1) : x = rs[i]
      BY <1>5, <2>2, <2>3, <3>2
    <3> QED BY <2>1, <3>2, <3>3
  <2>4. CASE rs[k + 1] \notin good
    <3>1. f[k + 1] = f[k]
      BY <1>3, <2>1, <2>4
    <3>2. \A x : x \in ToSet(f[k + 1]) <=> x \in good /\ \E i \in 1..(k + 1) : x = rs[i]
      BY <1>5, <2>2, <2>4, <3>1
    <3> QED BY <1>5, <2>1, <3>1, <3>2
  <2> QED BY <2>3, <2>4
<1>6. n \in K
  <2>1. \A k \in 0..n : k \in K /\ k < n => k + 1 \in K
    BY <1>5
  <2> HIDE DEF K, n
  <2>2. 0..n \subseteq K
    BY <1>1, <1>4, <2>1, Upwards
  <2> QED BY <1>1, <2>2
<1>7. \A x : x \in ToSet(f[n]) <=> x \in ToSet(rs) \cap good
  BY <1>6, SeqFacts
<1> QED BY <1>2, <1>6, <1>7

(* One row of each identity, none of them older than another of its.       *)
OneOfEach(b) == \A i, j \in DOMAIN b : Identity(b[i]) = Identity(b[j]) => i = j
Beats(b, x) == \E i \in DOMAIN b : Identity(b[i]) = Identity(x) /\ b[i].started >= x.started

(* One row more: still one of each identity, and none is beaten.           *)
LEMMA RefreshedIs ==
  ASSUME NEW S, \A x \in S : x.started \in Nat, NEW b \in Seq(S), NEW x \in S, OneOfEach(b)
  PROVE  /\ OneOfEach(Refreshed(b, x)) /\ ToSet(Refreshed(b, x)) \subseteq ToSet(b) \cup {x}
         /\ Beats(Refreshed(b, x), x)
         /\ \A y \in S : Beats(b, y) => Beats(Refreshed(b, x), y)
<1> DEFINE m == Len(b)
<1>1. m \in Nat /\ DOMAIN b = 1..m /\ \A i \in 1..m : b[i] \in S /\ b[i].started \in Nat
  BY SeqFacts
<1>2. \A i \in 1..m : b[i] \in ToSet(b)
  BY <1>1 DEF ToSet
<1>3. CASE \E i \in DOMAIN b : Identity(b[i]) = Identity(x)
  <2> DEFINE w == [i \in DOMAIN b |->
             IF Identity(b[i]) = Identity(x) /\ x.started > b[i].started THEN x ELSE b[i]]
  <2>1. DOMAIN w = 1..m /\ \A i \in 1..m :
             /\ Identity(w[i]) = Identity(b[i]) /\ w[i] \in {x, b[i]}
             /\ w[i].started \in Nat /\ w[i].started >= b[i].started
             /\ Identity(b[i]) = Identity(x) => w[i].started >= x.started
    BY <1>1
  <2>2. Refreshed(b, x) = w
    BY <1>3 DEF Refreshed
  <2> HIDE DEF w
  <2>3. OneOfEach(w)
    BY <1>1, <2>1 DEF OneOfEach
  <2>4. ToSet(w) \subseteq ToSet(b) \cup {x}
    BY <1>2, <2>1 DEF ToSet
  <2>5. Beats(w, x)
    BY <1>1, <1>3, <2>1 DEF Beats
  <2>6. ASSUME NEW y \in S, Beats(b, y) PROVE Beats(w, y)
    <3>1. PICK i \in 1..m : Identity(b[i]) = Identity(y) /\ b[i].started >= y.started
      BY <1>1, <2>6 DEF Beats
    <3>2. w[i].started >= y.started
      BY <1>1, <2>1, <3>1
    <3> QED BY <2>1, <3>1, <3>2 DEF Beats
  <2> QED BY <2>2, <2>3, <2>4, <2>5, <2>6
<1>4. CASE ~\E i \in DOMAIN b : Identity(b[i]) = Identity(x)
  <2> DEFINE w == Append(b, x)
  <2>1. DOMAIN w = 1..(m + 1) /\ w[m + 1] = x /\ \A i \in 1..m : w[i] = b[i]
    BY <1>1
  <2>2. Refreshed(b, x) = w
    BY <1>4 DEF Refreshed
  <2>3. ToSet(w) = ToSet(b) \cup {x}
    BY ElementsAppended
  <2> HIDE DEF w
  <2>4. \A i \in 1..(m + 1) : i \in 1..m \/ i = m + 1
    BY <1>1
  <2>5. OneOfEach(w)
    <3> SUFFICES ASSUME NEW i \in 1..(m + 1), NEW j \in 1..(m + 1), Identity(w[i]) = Identity(w[j])
                 PROVE  i = j
      BY <2>1 DEF OneOfEach
    <3>1. CASE i \in 1..m /\ j \in 1..m
      BY <1>1, <2>1, <3>1 DEF OneOfEach
    <3>2. CASE i = m + 1 /\ j = m + 1
      BY <3>2
    <3>3. CASE i \in 1..m /\ j = m + 1
      BY <1>1, <1>4, <2>1, <3>3
    <3>4. CASE i = m + 1 /\ j \in 1..m
      BY <1>1, <1>4, <2>1, <3>4
    <3> QED BY <2>4, <3>1, <3>2, <3>3, <3>4
  <2>6. m + 1 \in 1..(m + 1) /\ 1..m \subseteq 1..(m + 1) /\ x.started >= x.started
    BY <1>1
  <2>7. Beats(w, x)
    BY <2>1, <2>6 DEF Beats
  <2>8. \A y \in S : Beats(b, y) => Beats(w, y)
    BY <1>1, <2>1, <2>6 DEF Beats
  <2> QED BY <2>2, <2>3, <2>5, <2>7, <2>8
<1> QED BY <1>3, <1>4

(* The freshest row of every identity.                                     *)
LEMMA FreshestIs ==
  ASSUME NEW S, \A x \in S : x.started \in Nat, NEW rs \in Seq(S)
  PROVE  /\ Freshest(rs) \in Seq(S) /\ OneOfEach(Freshest(rs))
         /\ ToSet(Freshest(rs)) \subseteq ToSet(rs)
         /\ \A x \in ToSet(rs) : Beats(Freshest(rs), x)
<1> DEFINE n == Len(rs)
<1>1. n \in Nat /\ DOMAIN rs = 1..n /\ \A k \in 1..n : rs[k] \in S
  BY SeqFacts
<1>2. PICK f : FreshestSteps(f, rs) /\ Freshest(rs) = f[n]
  BY FreshestClimbs
<1>3. f[0] = <<>> /\ \A k \in 1..n : f[k] = Refreshed(f[k - 1], rs[k])
  BY <1>2 DEF FreshestSteps
<1> DEFINE Upto(k) == /\ f[k] \in Seq(S) /\ OneOfEach(f[k]) /\ ToSet(f[k]) \subseteq ToSet(rs)
                      /\ \A i \in 1..k : Beats(f[k], rs[i])
           K == {k \in 0..n : Upto(k)}
<1>4. 0 \in K
  <2>1. <<>> \in Seq(S) /\ ToSet(<<>>) = {} /\ OneOfEach(<<>>)
    BY DEF ToSet, OneOfEach
  <2>2. \A i \in 1..0 : FALSE
    OBVIOUS
  <2>3. f[0] = <<>>
    BY <1>3
  <2>4. Upto(0)
    BY <2>1, <2>2, <2>3
  <2> HIDE DEF Upto
  <2> QED BY <1>1, <2>4
<1>5. ASSUME NEW k \in 0..n, k \in K, k < n PROVE k + 1 \in K
  <2>1. k + 1 \in 1..n /\ (k + 1) - 1 = k /\ k + 1 \in 0..n
    BY <1>1, <1>5
  <2>2. \A i \in 1..(k + 1) : i \in 1..k \/ i = k + 1
    BY <2>1
  <2>3. f[k + 1] = Refreshed(f[k], rs[k + 1])
    BY <1>3, <2>1
  <2>4. rs[k + 1] \in S /\ rs[k + 1] \in ToSet(rs) /\ \A i \in 1..k : rs[i] \in S
    BY <1>1, <2>1 DEF ToSet
  <2>5. f[k + 1] \in Seq(S)
    BY <1>5, <2>3, <2>4, RefreshedType
  <2>6. /\ OneOfEach(f[k + 1]) /\ ToSet(f[k + 1]) \subseteq ToSet(f[k]) \cup {rs[k + 1]}
        /\ Beats(f[k + 1], rs[k + 1])
        /\ \A y \in S : Beats(f[k], y) => Beats(f[k + 1], y)
    BY <1>5, <2>3, <2>4, RefreshedIs
  <2>7. \A i \in 1..(k + 1) : Beats(f[k + 1], rs[i])
    BY <1>5, <2>2, <2>4, <2>6
  <2> QED BY <1>5, <2>1, <2>4, <2>5, <2>6, <2>7
<1>6. n \in K
  <2>1. \A k \in 0..n : k \in K /\ k < n => k + 1 \in K
    BY <1>5
  <2> HIDE DEF K, n
  <2>2. 0..n \subseteq K
    BY <1>1, <1>4, <2>1, Upwards
  <2> QED BY <1>1, <2>2
<1>7. \A x \in ToSet(rs) : Beats(f[n], x)
  BY <1>6, SeqFacts
<1> QED BY <1>2, <1>6, <1>7

(* One row of each key, and a row with the key of x.                       *)
OneOfEachKey(u) == \A i, j \in DOMAIN u : SheetKey(u[i]) = SheetKey(u[j]) => i = j
HasKeyOf(u, x) == \E i \in DOMAIN u : SheetKey(u[i]) = SheetKey(x)

(* One row more: still one of each key, and none is without.               *)
LEMMA ListedIs ==
  ASSUME NEW S, NEW u \in Seq(S), NEW x \in S, OneOfEachKey(u)
  PROVE  /\ OneOfEachKey(Listed(u, x)) /\ ToSet(Listed(u, x)) \subseteq ToSet(u) \cup {x}
         /\ HasKeyOf(Listed(u, x), x)
         /\ \A y \in S : HasKeyOf(u, y) => HasKeyOf(Listed(u, x), y)
<1> DEFINE m == Len(u)
<1>1. m \in Nat /\ DOMAIN u = 1..m /\ \A i \in 1..m : u[i] \in S
  BY SeqFacts
<1>3. CASE \E i \in DOMAIN u : SheetKey(u[i]) = SheetKey(x)
  BY <1>3 DEF Listed, HasKeyOf
<1>4. CASE ~\E i \in DOMAIN u : SheetKey(u[i]) = SheetKey(x)
  <2> DEFINE w == Append(u, x)
  <2>1. DOMAIN w = 1..(m + 1) /\ w[m + 1] = x /\ \A i \in 1..m : w[i] = u[i]
    BY <1>1
  <2>2. Listed(u, x) = w
    BY <1>4 DEF Listed
  <2>3. ToSet(w) = ToSet(u) \cup {x}
    BY ElementsAppended
  <2> HIDE DEF w
  <2>4. \A i \in 1..(m + 1) : i \in 1..m \/ i = m + 1
    BY <1>1
  <2>5. OneOfEachKey(w)
    <3> SUFFICES ASSUME NEW i \in 1..(m + 1), NEW j \in 1..(m + 1), SheetKey(w[i]) = SheetKey(w[j])
                 PROVE  i = j
      BY <2>1 DEF OneOfEachKey
    <3>1. CASE i \in 1..m /\ j \in 1..m
      BY <1>1, <2>1, <3>1 DEF OneOfEachKey
    <3>2. CASE i = m + 1 /\ j = m + 1
      BY <3>2
    <3>3. CASE i \in 1..m /\ j = m + 1
      BY <1>1, <1>4, <2>1, <3>3
    <3>4. CASE i = m + 1 /\ j \in 1..m
      BY <1>1, <1>4, <2>1, <3>4
    <3> QED BY <2>4, <3>1, <3>2, <3>3, <3>4
  <2>6. m + 1 \in 1..(m + 1) /\ 1..m \subseteq 1..(m + 1)
    BY <1>1
  <2>7. HasKeyOf(w, x) /\ \A y \in S : HasKeyOf(u, y) => HasKeyOf(w, y)
    BY <1>1, <2>1, <2>6 DEF HasKeyOf
  <2> QED BY <2>2, <2>3, <2>5, <2>7
<1> QED BY <1>3, <1>4

(* One row of every key.                                                   *)
LEMMA UniqueIs ==
  ASSUME NEW S, NEW rs \in Seq(S)
  PROVE  /\ Unique(rs) \in Seq(S) /\ OneOfEachKey(Unique(rs))
         /\ ToSet(Unique(rs)) \subseteq ToSet(rs)
         /\ \A x \in ToSet(rs) : HasKeyOf(Unique(rs), x)
<1> DEFINE n == Len(rs)
<1>1. n \in Nat /\ DOMAIN rs = 1..n /\ \A k \in 1..n : rs[k] \in S
  BY SeqFacts
<1>2. PICK f : UniqueSteps(f, rs) /\ Unique(rs) = f[n]
  BY UniqueClimbs
<1>3. f[0] = <<>> /\ \A k \in 1..n : f[k] = Listed(f[k - 1], rs[k])
  BY <1>2 DEF UniqueSteps
<1> DEFINE Upto(k) == /\ f[k] \in Seq(S) /\ OneOfEachKey(f[k]) /\ ToSet(f[k]) \subseteq ToSet(rs)
                      /\ \A i \in 1..k : HasKeyOf(f[k], rs[i])
           K == {k \in 0..n : Upto(k)}
<1>4. 0 \in K
  <2>1. <<>> \in Seq(S) /\ ToSet(<<>>) = {} /\ OneOfEachKey(<<>>)
    BY DEF ToSet, OneOfEachKey
  <2>2. \A i \in 1..0 : FALSE
    OBVIOUS
  <2>3. f[0] = <<>>
    BY <1>3
  <2>4. Upto(0)
    BY <2>1, <2>2, <2>3
  <2> HIDE DEF Upto
  <2> QED BY <1>1, <2>4
<1>5. ASSUME NEW k \in 0..n, k \in K, k < n PROVE k + 1 \in K
  <2>1. k + 1 \in 1..n /\ (k + 1) - 1 = k /\ k + 1 \in 0..n
    BY <1>1, <1>5
  <2>2. \A i \in 1..(k + 1) : i \in 1..k \/ i = k + 1
    BY <2>1
  <2>3. f[k + 1] = Listed(f[k], rs[k + 1])
    BY <1>3, <2>1
  <2>4. rs[k + 1] \in S /\ rs[k + 1] \in ToSet(rs) /\ \A i \in 1..k : rs[i] \in S
    BY <1>1, <2>1 DEF ToSet
  <2>5. f[k + 1] \in Seq(S)
    BY <1>5, <2>3, <2>4, ListedType
  <2>6. /\ OneOfEachKey(f[k + 1]) /\ ToSet(f[k + 1]) \subseteq ToSet(f[k]) \cup {rs[k + 1]}
        /\ HasKeyOf(f[k + 1], rs[k + 1])
        /\ \A y \in S : HasKeyOf(f[k], y) => HasKeyOf(f[k + 1], y)
    BY <1>5, <2>3, <2>4, ListedIs
  <2>7. \A i \in 1..(k + 1) : HasKeyOf(f[k + 1], rs[i])
    BY <1>5, <2>2, <2>4, <2>6
  <2> QED BY <1>5, <2>1, <2>4, <2>5, <2>6, <2>7
<1>6. n \in K
  <2>1. \A k \in 0..n : k \in K /\ k < n => k + 1 \in K
    BY <1>5
  <2> HIDE DEF K, n
  <2>2. 0..n \subseteq K
    BY <1>1, <1>4, <2>1, Upwards
  <2> QED BY <1>1, <2>2
<1>7. \A x \in ToSet(rs) : HasKeyOf(f[n], x)
  BY <1>6, SeqFacts
<1> QED BY <1>2, <1>6, <1>7

(* What two sequences hold together.                                       *)
LEMMA ElementsJoined ==
  ASSUME NEW S, NEW s \in Seq(S), NEW t \in Seq(S)
  PROVE  s \o t \in Seq(S) /\ ToSet(s \o t) = ToSet(s) \cup ToSet(t)
<1> DEFINE m == Len(s)
           n == Len(t)
<1>1. m \in Nat /\ n \in Nat /\ s \o t \in Seq(S) /\ Len(s \o t) = m + n
  BY ConcatProperties
<1>2. /\ \A i \in 1..m : (s \o t)[i] = s[i] /\ i \in 1..(m + n)
      /\ \A i \in 1..n : (s \o t)[m + i] = t[i] /\ m + i \in 1..(m + n)
  BY <1>1
<1>3. \A i \in 1..(m + n) : i \in 1..m \/ \E j \in 1..n : i = m + j
  <2> SUFFICES ASSUME NEW i \in 1..(m + n), i \notin 1..m PROVE \E j \in 1..n : i = m + j
    OBVIOUS
  <2>1. i - m \in 1..n /\ i = m + (i - m)
    BY <1>1
  <2> QED BY <2>1
<1>4. \A x : x \in ToSet(s \o t) <=> \E i \in 1..(m + n) : x = (s \o t)[i]
  BY <1>1, SeqFacts
<1>5. \A x : x \in ToSet(s) <=> \E i \in 1..m : x = s[i]
  BY SeqFacts
<1>6. \A x : x \in ToSet(t) <=> \E i \in 1..n : x = t[i]
  BY SeqFacts
<1> HIDE DEF m, n
<1>7. ASSUME NEW x PROVE x \in ToSet(s \o t) <=> x \in ToSet(s) \/ x \in ToSet(t)
  <2>1. ASSUME x \in ToSet(s \o t) PROVE x \in ToSet(s) \/ x \in ToSet(t)
    <3>1. PICK i \in 1..(m + n) : x = (s \o t)[i]
      BY <1>4, <2>1
    <3>2. CASE i \in 1..m
      BY <1>2, <1>5, <3>1, <3>2
    <3>3. ASSUME NEW j \in 1..n, i = m + j PROVE x \in ToSet(t)
      BY <1>2, <1>6, <3>1, <3>3
    <3> QED BY <1>3, <3>2, <3>3
  <2>2. ASSUME x \in ToSet(s) PROVE x \in ToSet(s \o t)
    BY <1>2, <1>4, <1>5, <2>2
  <2>3. ASSUME x \in ToSet(t) PROVE x \in ToSet(s \o t)
    <3>1. PICK j \in 1..n : x = t[j]
      BY <1>6, <2>3
    <3>2. x = (s \o t)[m + j] /\ m + j \in 1..(m + n)
      BY <1>2, <3>1
    <3> QED BY <1>4, <3>2
  <2> QED BY <2>1, <2>2, <2>3
<1> QED BY <1>1, <1>7

(* What --dedup-trn leaves of some rows.                                   *)
LEMMA DedupTrnIs ==
  ASSUME NEW S, \A x \in S : x.started \in Nat, NEW rs \in Seq(S)
  PROVE  /\ DedupTrn(rs) \in Seq(S) /\ ToSet(DedupTrn(rs)) \subseteq ToSet(rs)
         /\ \A x \in ToSet(rs) : x.inst \notin Trainium => x \in ToSet(DedupTrn(rs))
         /\ \A x, y \in ToSet(DedupTrn(rs)) :
               x.inst \in Trainium /\ Identity(x) = Identity(y) => x = y
         /\ \A x \in ToSet(rs) : x.inst \in Trainium =>
               \E y \in ToSet(DedupTrn(rs)) : Identity(y) = Identity(x) /\ y.started >= x.started
<1> DEFINE gpu == Only(rs, {r \in ToSet(rs) : r.inst \notin Trainium})
           trn == Only(rs, {r \in ToSet(rs) : r.inst \in Trainium})
           best == Freshest(trn)
<1>1. gpu \in Seq(S) /\ \A x : x \in ToSet(gpu) <=> x \in ToSet(rs) /\ x.inst \notin Trainium
  BY OnlyIs
<1>2. trn \in Seq(S) /\ \A x : x \in ToSet(trn) <=> x \in ToSet(rs) /\ x.inst \in Trainium
  BY OnlyIs
<1> HIDE DEF gpu, trn
<1>3. /\ best \in Seq(S) /\ OneOfEach(best) /\ ToSet(best) \subseteq ToSet(trn)
      /\ \A x \in ToSet(trn) : Beats(best, x)
  BY <1>2, FreshestIs
<1>4. DedupTrn(rs) = gpu \o best
  BY DEF DedupTrn, gpu, trn
<1> HIDE DEF best
<1>5. gpu \o best \in Seq(S) /\ ToSet(gpu \o best) = ToSet(gpu) \cup ToSet(best)
  BY <1>1, <1>3, ElementsJoined
<1>6. \A x, y : Identity(x) = Identity(y) => x.inst = y.inst
  BY DEF Identity
<1>7. ASSUME NEW x \in ToSet(best), NEW y \in ToSet(best), Identity(x) = Identity(y) PROVE x = y
  <2>1. PICK i \in DOMAIN best : x = best[i]
    BY <1>7 DEF ToSet
  <2>2. PICK j \in DOMAIN best : y = best[j]
    BY <1>7 DEF ToSet
  <2> QED BY <1>3, <1>7, <2>1, <2>2 DEF OneOfEach
<1>8. ASSUME NEW x \in ToSet(trn)
      PROVE  \E y \in ToSet(best) : Identity(y) = Identity(x) /\ y.started >= x.started
  <2>1. PICK i \in DOMAIN best : Identity(best[i]) = Identity(x) /\ best[i].started >= x.started
    BY <1>3 DEF Beats
  <2>2. best[i] \in ToSet(best)
    BY DEF ToSet
  <2> QED BY <2>1, <2>2
<1>9. ASSUME NEW x \in ToSet(gpu \o best), NEW y \in ToSet(gpu \o best),
             x.inst \in Trainium, Identity(x) = Identity(y)
      PROVE  x = y
  <2>1. x.inst = y.inst
    BY <1>6, <1>9
  <2>2. x \in ToSet(best) /\ y \in ToSet(best)
    BY <1>1, <1>5, <1>9, <2>1
  <2> QED BY <1>7, <1>9, <2>2
<1>10. ToSet(gpu \o best) \subseteq ToSet(rs)
  BY <1>1, <1>2, <1>3, <1>5
<1>11. \A x \in ToSet(rs) : x.inst \notin Trainium => x \in ToSet(gpu \o best)
  BY <1>1, <1>5
<1>12. ASSUME NEW x \in ToSet(rs), x.inst \in Trainium
       PROVE  \E y \in ToSet(gpu \o best) : Identity(y) = Identity(x) /\ y.started >= x.started
  <2>1. x \in ToSet(trn)
    BY <1>2, <1>12
  <2>2. PICK y \in ToSet(best) : Identity(y) = Identity(x) /\ y.started >= x.started
    BY <1>8, <2>1
  <2> QED BY <1>5, <2>2
<1> QED BY <1>4, <1>5, <1>9, <1>10, <1>11, <1>12

-------------------------------------------------------------------------------
(* THE SHEET                                                               *)

(* A cost is that of the label.                                            *)
Priced(f) ==
    f.cost # 0 => /\ f.inst \in DOMAIN Price /\ f.cost = Price[f.inst]
                  /\ f.perUsd = Worth \div Price[f.inst]

(* Costs are scaled without a remainder.                                   *)
LEMMA Quotients ==
  ASSUME NEW p \in Nat \ {0}, NEW q \in Nat \ {0}
  PROVE  /\ (p * q) \div p = q
         /\ \A x \in Nat : (x * q) \div p \in Nat
         /\ \A w \in Nat : w % p = 0 => (w \div p) \in Nat /\ (w \div p) * p = w
<1>1. (p * q) \div p = q
  OBVIOUS
<1>2. \A x \in Nat : x \div p \in Nat
  OBVIOUS
<1>3. \A x \in Nat : x * q \in Nat
  OBVIOUS
<1>4. \A w \in Nat : w = (p * (w \div p)) + (w % p)
  OBVIOUS
<1>5. ASSUME NEW w \in Nat, w % p = 0 PROVE (w \div p) * p = w
  <2> DEFINE d == w \div p
  <2>1. d \in Nat /\ w = (p * d) + 0
    BY <1>2, <1>4, <1>5
  <2> HIDE DEF d
  <2>2. (p * d) + 0 = d * p
    BY <2>1
  <2> QED BY <2>1, <2>2 DEF d
<1> QED BY <1>1, <1>2, <1>3, <1>5

(* A row that is shown has the cost of the label it is shown with.         *)
RightCost(g) ==
    g.inst \in DOMAIN Price /\ g.cost # 0 =>
        g.cost = Price[g.inst] /\ g.perUsd = Worth \div Price[g.inst]

(* Fixing a label changes the label, and the costs with it.                *)
Relabels(g, f, inst) ==
    /\ g \in Stored /\ g.inst = inst
    /\ g.kind = f.kind /\ g.model = f.model /\ g.level = f.level /\ g.started = f.started
    /\ g.launched = f.launched /\ Instants(g) = Instants(f)
    /\ Priced(f) => RightCost(g)

LEMMA FixedRelabels ==
  ASSUME NEW f \in Stored
  PROVE  Relabels(Fixed(f), f, IF f.folder # NoFamily THEN f.folder ELSE f.inst)
<1>0. /\ f.kind \in {"perf", "quality", "sample"} /\ f.model = "m" /\ f.level \in Nat
      /\ f.inst \in Families /\ f.folder \in Families \cup {NoFamily}
      /\ f.cost \in Nat /\ f.perUsd \in Nat /\ f.started \in Nat /\ f.launched \in Nat
  BY DEF Stored
<1>1. CASE f.folder = NoFamily \/ f.folder = f.inst
  <2>1. Fixed(f) = f
    BY <1>1 DEF Fixed
  <2>2. f.inst = IF f.folder # NoFamily THEN f.folder ELSE f.inst
    BY <1>1
  <2> QED BY <2>1, <2>2 DEF Relabels, Priced, RightCost
<1>2. CASE /\ ~(f.folder = NoFamily \/ f.folder = f.inst)
           /\ f.folder \in DOMAIN Price /\ f.inst \in DOMAIN Price
  <2> DEFINE c == (f.cost * Price[f.folder]) \div Price[f.inst]
             u == (f.perUsd * Price[f.inst]) \div Price[f.folder]
             g == [f EXCEPT !.inst = f.folder, !.cost = c, !.perUsd = u]
  <2>1. Price[f.folder] \in Nat \ {0} /\ Price[f.inst] \in Nat \ {0}
    BY <1>2, PriceAssumption
  <2>2. c \in Nat /\ u \in Nat
    BY <1>0, <2>1, Quotients
  <2>3. Fixed(f) = g
    BY <1>2 DEF Fixed
  <2>4. f.cost = 0 => c = 0
    BY <2>1
  <2>5. f.cost # 0 /\ Priced(f) => c = Price[f.folder] /\ u = Worth \div Price[f.folder]
    <3> SUFFICES ASSUME f.cost = Price[f.inst], f.perUsd = Worth \div Price[f.inst]
                 PROVE  c = Price[f.folder] /\ u = Worth \div Price[f.folder]
      BY DEF Priced
    <3>1. (Worth \div Price[f.inst]) * Price[f.inst] = Worth
      BY <1>2, <2>1, WorthAssumption, Quotients
    <3>2. (Price[f.inst] * Price[f.folder]) \div Price[f.inst] = Price[f.folder]
      BY <2>1, Quotients
    <3> QED BY <3>1, <3>2
  <2> HIDE DEF c, u
  <2>6. /\ g \in Stored /\ g.inst = f.folder /\ g.cost = c /\ g.perUsd = u
        /\ g.kind = f.kind /\ g.model = f.model /\ g.level = f.level
        /\ g.started = f.started /\ g.launched = f.launched
    BY <1>0, <1>2, <2>2, PriceAssumption DEF Stored
  <2> HIDE DEF g
  <2>7. Priced(f) => RightCost(g)
    BY <2>4, <2>5, <2>6 DEF RightCost
  <2> QED BY <1>2, <2>3, <2>6, <2>7 DEF Relabels, Instants
<1>3. CASE /\ ~(f.folder = NoFamily \/ f.folder = f.inst)
           /\ ~(f.folder \in DOMAIN Price /\ f.inst \in DOMAIN Price)
  <2> DEFINE g == [f EXCEPT !.inst = f.folder]
  <2>1. Fixed(f) = g
    BY <1>3 DEF Fixed
  <2>2. /\ g \in Stored /\ g.inst = f.folder /\ g.cost = f.cost /\ g.perUsd = f.perUsd
        /\ g.kind = f.kind /\ g.model = f.model /\ g.level = f.level
        /\ g.started = f.started /\ g.launched = f.launched
    BY <1>0, <1>3 DEF Stored
  <2> HIDE DEF g
  <2>3. Priced(f) => RightCost(g)
    BY <1>3, <2>2 DEF Priced, RightCost
  <2> QED BY <1>3, <2>1, <2>2, <2>3 DEF Relabels, Instants
<1> QED BY <1>1, <1>2, <1>3

(* The row a result is shown as.                                           *)
Named(f, opt) == IF opt.fix THEN Fixed(f) ELSE f

LEMMA NamedRelabels ==
  ASSUME NEW f \in Stored, NEW opt
  PROVE  Relabels(Named(f, opt), f, TrueInst(f, opt))
<1>1. CASE opt.fix
  <2>1. TrueInst(f, opt) = IF f.folder # NoFamily THEN f.folder ELSE f.inst
    BY <1>1 DEF TrueInst
  <2>2. Named(f, opt) = Fixed(f)
    BY <1>1 DEF Named
  <2> QED BY <2>1, <2>2, FixedRelabels
<1>2. CASE ~opt.fix
  <2>1. TrueInst(f, opt) = f.inst /\ Named(f, opt) = f
    BY <1>2 DEF TrueInst, Named
  <2> QED BY <2>1 DEF Relabels, Priced, RightCost
<1> QED BY <1>1, <1>2

LEMMA FixLabelsIs ==
  ASSUME NEW rs \in Seq(Stored)
  PROVE  /\ FixLabels(rs) \in Seq(Stored)
         /\ ToSet(FixLabels(rs)) = {Fixed(f) : f \in ToSet(rs)}
<1>1. Len(rs) \in Nat /\ DOMAIN rs = 1..Len(rs) /\ \A i \in 1..Len(rs) : rs[i] \in Stored
  BY SeqFacts
<1>2. \A i \in 1..Len(rs) : Fixed(rs[i]) \in Stored
  BY <1>1, FixedRelabels DEF Relabels
<1> DEFINE w == [i \in 1..Len(rs) |-> Fixed(rs[i])]
<1>3. w \in [1..Len(rs) -> Stored]
  BY <1>2
<1>4. w \in Seq(Stored)
  BY <1>1, <1>3, FunctionsAreSequences
<1>5. FixLabels(rs) = w
  BY <1>1 DEF FixLabels
<1>6. ToSet(w) = {Fixed(f) : f \in ToSet(rs)}
  BY <1>1 DEF ToSet
<1> QED BY <1>4, <1>5, <1>6

(* A row with an instant in the days and one in the times that are asked.  *)
InRange(x, opt, now) ==
    /\ \E i \in Instants(x) : Within(i \div Parts, opt.from, LastDay(opt, now))
    /\ \E i \in Instants(x) :
          Within(i, Bound(opt.from, opt.after), Bound(LastDay(opt, now), opt.before))

(* What is left of the rows N by --dedup-trn, or without it.               *)
KeptOf(D, N, opt) ==
    /\ D \subseteq N
    /\ ~opt.dedup => D = N
    /\ opt.dedup =>
          /\ \A x \in N : x.inst \notin Trainium => x \in D
          /\ \A x, y \in D : x.inst \in Trainium /\ Identity(x) = Identity(y) => x = y
          /\ \A x \in N : x.inst \in Trainium =>
                \E y \in D : Identity(y) = Identity(x) /\ y.started >= x.started

(* What the sheet shows of the rows D.                                     *)
SheetOf(shown, D, opt, now) ==
    /\ shown \in Seq(Stored) /\ OneOfEachKey(shown)
    /\ \A x \in ToSet(shown) : x \in D /\ InRange(x, opt, now)
    /\ \A x \in D : InRange(x, opt, now) => HasKeyOf(shown, x)

(* main(): the flags, in its order, leave the rows D, and the sheet is of  *)
(* them.                                                                   *)
LEMMA ExportIs ==
  ASSUME NEW files \in Seq(Stored), NEW opt, NEW now, NEW perf,
         perf = {f \in ToSet(files) : f.kind = "perf"}
  PROVE  \E D : /\ KeptOf(D, {Named(f, opt) : f \in perf}, opt)
                /\ SheetOf(Export(files, opt, now), D, opt, now)
<1> DEFINE rs == LoadPerf(files)
           named == IF opt.fix THEN FixLabels(rs) ELSE rs
           fresh == IF opt.dedup THEN DedupTrn(named) ELSE named
           last == LastDay(opt, now)
           dated == ByDate(fresh, opt.from, last)
           timed == ByTime(dated, Bound(opt.from, opt.after), Bound(last, opt.before))
           N == {Named(f, opt) : f \in perf}
           D == ToSet(fresh)
<1>1. rs \in Seq(Stored) /\ ToSet(rs) = perf
  <2>1. rs = Only(files, perf)
    BY DEF LoadPerf
  <2>2. rs \in Seq(Stored) /\ ToSet(rs) = ToSet(files) \cap perf
    BY <2>1, OnlyIs
  <2> QED BY <2>2
<1>2. named \in Seq(Stored) /\ ToSet(named) = N
  <2> HIDE DEF rs
  <2>1. CASE opt.fix
    <3>1. named = FixLabels(rs)
      BY <2>1
    <3>2. FixLabels(rs) \in Seq(Stored) /\ ToSet(FixLabels(rs)) = {Fixed(f) : f \in ToSet(rs)}
      BY <1>1, FixLabelsIs
    <3>3. N = {Fixed(f) : f \in perf}
      BY <2>1 DEF Named
    <3> QED BY <1>1, <3>1, <3>2, <3>3
  <2>2. CASE ~opt.fix
    <3>1. named = rs
      BY <2>2
    <3>2. N = {f : f \in perf}
      BY <2>2 DEF Named
    <3> QED BY <1>1, <3>1, <3>2
  <2> QED BY <2>1, <2>2
<1>s. \A x \in Stored : x.started \in Nat
  BY DEF Stored
<1> HIDE DEF named, N
<1>3. fresh \in Seq(Stored) /\ KeptOf(D, N, opt)
  <2>1. CASE opt.dedup
    <3>1. fresh = DedupTrn(named)
      BY <2>1
    <3>2. /\ DedupTrn(named) \in Seq(Stored) /\ ToSet(DedupTrn(named)) \subseteq ToSet(named)
          /\ \A x \in ToSet(named) : x.inst \notin Trainium => x \in ToSet(DedupTrn(named))
          /\ \A x, y \in ToSet(DedupTrn(named)) :
                x.inst \in Trainium /\ Identity(x) = Identity(y) => x = y
          /\ \A x \in ToSet(named) : x.inst \in Trainium =>
                \E y \in ToSet(DedupTrn(named)) : Identity(y) = Identity(x) /\ y.started >= x.started
      BY <1>2, <1>s, DedupTrnIs
    <3> HIDE DEF fresh
    <3> QED BY <1>2, <2>1, <3>1, <3>2 DEF KeptOf
  <2>2. CASE ~opt.dedup
    <3>1. fresh = named
      BY <2>2
    <3> HIDE DEF fresh
    <3> QED BY <1>2, <2>2, <3>1 DEF KeptOf
  <2> QED BY <2>1, <2>2
<1> HIDE DEF fresh, last
<1>4. /\ dated \in Seq(Stored)
      /\ \A x : x \in ToSet(dated) <=>
            x \in D /\ \E i \in Instants(x) : Within(i \div Parts, opt.from, last)
  <2> DEFINE good == {r \in ToSet(fresh) : \E i \in Instants(r) : Within(i \div Parts, opt.from, last)}
  <2>1. dated = Only(fresh, good)
    BY DEF ByDate
  <2>2. dated \in Seq(Stored) /\ ToSet(dated) = ToSet(fresh) \cap good
    BY <1>3, <2>1, OnlyIs
  <2> QED BY <2>2
<1> HIDE DEF dated
<1>5. /\ timed \in Seq(Stored)
      /\ \A x : x \in ToSet(timed) <=>
            x \in ToSet(dated)
              /\ \E i \in Instants(x) : Within(i, Bound(opt.from, opt.after), Bound(last, opt.before))
  <2> DEFINE good == {r \in ToSet(dated) :
               \E i \in Instants(r) : Within(i, Bound(opt.from, opt.after), Bound(last, opt.before))}
  <2>1. timed = Only(dated, good)
    BY DEF ByTime
  <2>2. timed \in Seq(Stored) /\ ToSet(timed) = ToSet(dated) \cap good
    BY <1>4, <2>1, OnlyIs
  <2> QED BY <2>2
<1>6. \A x : x \in ToSet(timed) <=> x \in D /\ InRange(x, opt, now)
  BY <1>4, <1>5 DEF InRange, last
<1>7. Export(files, opt, now) = Unique(timed)
  BY DEF Export, timed, dated, last, fresh, named
<1> HIDE DEF timed, D
<1>8. /\ Unique(timed) \in Seq(Stored) /\ OneOfEachKey(Unique(timed))
      /\ ToSet(Unique(timed)) \subseteq ToSet(timed)
      /\ \A x \in ToSet(timed) : HasKeyOf(Unique(timed), x)
  BY <1>5, UniqueIs
<1>9. SheetOf(Export(files, opt, now), D, opt, now)
  BY <1>6, <1>7, <1>8 DEF SheetOf
<1> QED BY <1>3, <1>9 DEF N

(* The results a sync brought can be told apart, and are priced.           *)
ToldApart(perf) ==
    /\ \A f, g \in perf : f.level = g.level /\ f.started = g.started => f = g
    /\ \A f \in perf : f \in Stored /\ Priced(f)

(* At most one row of the sheet is of f; it is there if some row is.       *)
LEMMA ShowsOne ==
  ASSUME NEW shown \in Seq(Stored), OneOfEachKey(shown), NEW f \in Stored
  PROVE  /\ HasKeyOf(shown, f) => Cardinality(Shows(shown, f)) = 1
         /\ ~HasKeyOf(shown, f) => Shows(shown, f) = {} /\ Cardinality(Shows(shown, f)) = 0
<1>1. DOMAIN shown = 1..Len(shown) /\ \A k \in DOMAIN shown : shown[k] \in Stored
  BY SeqFacts
<1>2. \A x, y \in Stored : SheetKey(x) = SheetKey(y) <=> x.level = y.level /\ x.started = y.started
  BY DEF SheetKey, Stored
<1>3. Shows(shown, f) = {k \in DOMAIN shown : SheetKey(shown[k]) = SheetKey(f)}
  BY <1>1, <1>2 DEF Shows
<1>4. ASSUME HasKeyOf(shown, f) PROVE Cardinality(Shows(shown, f)) = 1
  <2>1. PICK k \in DOMAIN shown : SheetKey(shown[k]) = SheetKey(f)
    BY <1>4 DEF HasKeyOf
  <2>2. Shows(shown, f) = {k}
    BY <1>3, <2>1 DEF OneOfEachKey
  <2> QED BY <2>2, FS_Singleton
<1>5. ASSUME ~HasKeyOf(shown, f) PROVE Shows(shown, f) = {} /\ Cardinality(Shows(shown, f)) = 0
  <2>1. Shows(shown, f) = {}
    BY <1>3, <1>5 DEF HasKeyOf
  <2> QED BY <2>1, FS_EmptySet
<1> QED BY <1>4, <1>5

(* Where there is no date there is no time, and everything is in range.    *)
LEMMA RangeFacts ==
  ASSUME NEW opt, NEW f, NEW x, Instants(x) = Instants(f)
  PROVE  /\ AllIn(f, opt) => InRange(x, opt, clock)
         /\ NoneIn(f, opt) => ~InRange(x, opt, clock)
         /\ Unbounded(opt) /\ Accepts(opt, clock) => InRange(x, opt, clock)
<1>1. f.started \in Instants(f)
  BY DEF Instants
<1>2. AllIn(f, opt) => InRange(x, opt, clock)
  BY <1>1 DEF AllIn, InRange, Dated, Timed
<1>3. NoneIn(f, opt) => ~InRange(x, opt, clock)
  BY DEF NoneIn, InRange, Dated, Timed
<1>4. ASSUME Unbounded(opt), Accepts(opt, clock) PROVE InRange(x, opt, clock)
  <2>1. LastDay(opt, clock) = Open /\ opt.from = Open
    BY <1>4 DEF Unbounded, LastDay
  <2>2. opt.after = Open /\ opt.before = Open
    BY <1>4, <2>1 DEF Accepts
  <2>3. Bound(opt.from, opt.after) = Open /\ Bound(LastDay(opt, clock), opt.before) = Open
    BY <2>2 DEF Bound
  <2> QED BY <1>1, <2>1, <2>3 DEF InRange, Within
<1> QED BY <1>2, <1>3, <1>4

Mine(perf, f, opt) == {g \in perf : TrueInst(g, opt) = TrueInst(f, opt) /\ g.level = f.level}

(* What ReportIsFaithful asks of a sheet.                                  *)
FaithfulRow(shown, perf, f, opt) ==
    /\ NoneIn(f, opt) => Shows(shown, f) = {}
    /\ (~opt.dedup \/ TrueInst(f, opt) \notin Trainium) /\ AllIn(f, opt)
         => Cardinality(Shows(shown, f)) = 1
    /\ opt.dedup /\ TrueInst(f, opt) \in Trainium /\ Unbounded(opt)
         => Cardinality(Shows(shown, f)) =
               IF \A g \in Mine(perf, f, opt) : g.started <= f.started THEN 1 ELSE 0

(* So each result is shown as it should be, with its own cost.             *)
LEMMA SheetIsFaithful ==
  ASSUME NEW perf, ToldApart(perf), NEW opt, Accepts(opt, clock), NEW D, NEW shown,
         KeptOf(D, {Named(f, opt) : f \in perf}, opt), SheetOf(shown, D, opt, clock)
  PROVE  /\ \A f \in perf : FaithfulRow(shown, perf, f, opt)
         /\ \A k \in DOMAIN shown : RightCost(shown[k])
<1> DEFINE N == {Named(f, opt) : f \in perf}
<1>1. \A f \in perf : f \in Stored /\ Priced(f) /\ Relabels(Named(f, opt), f, TrueInst(f, opt))
  BY NamedRelabels DEF ToldApart
<1>2. \A x : x \in N <=> \E f \in perf : x = Named(f, opt)
  OBVIOUS
<1>3. D \subseteq N /\ shown \in Seq(Stored) /\ OneOfEachKey(shown)
  BY DEF KeptOf, SheetOf
<1> HIDE DEF N
<1>4. ASSUME NEW k \in DOMAIN shown PROVE RightCost(shown[k])
  <2>1. shown[k] \in D
    BY DEF SheetOf, ToSet
  <2>2. PICK f \in perf : shown[k] = Named(f, opt)
    BY <1>2, <1>3, <2>1
  <2> QED BY <1>1, <2>2 DEF Relabels
<1>5. ASSUME NEW f \in perf PROVE FaithfulRow(shown, perf, f, opt)
  <2> DEFINE x == Named(f, opt)
  <2>1. /\ f \in Stored /\ x \in Stored /\ x \in N /\ x.inst = TrueInst(f, opt)
        /\ x.level = f.level /\ x.started = f.started /\ Instants(x) = Instants(f)
        /\ f.started \in Nat
    BY <1>1, <1>2 DEF Relabels, Stored
  <2>2. ASSUME NEW y \in N PROVE \E g \in perf : /\ y = Named(g, opt) /\ y \in Stored
             /\ y.inst = TrueInst(g, opt) /\ y.level = g.level /\ y.started = g.started
             /\ y.model = "m" /\ g.started \in Nat
    <3>1. PICK g \in perf : y = Named(g, opt)
      BY <1>2
    <3>2. g \in Stored /\ Relabels(y, g, TrueInst(g, opt))
      BY <1>1, <3>1
    <3> QED BY <3>1, <3>2 DEF Relabels, Stored
  <2>3. x.model = "m"
    BY <2>1 DEF Stored
  <2> HIDE DEF x
  <2>4. ASSUME NEW y \in N, y.level = f.level, y.started = f.started PROVE y = x
    <3>1. PICK g \in perf : y = Named(g, opt) /\ y.level = g.level /\ y.started = g.started
      BY <2>2
    <3>2. g = f
      BY <2>4, <3>1 DEF ToldApart
    <3> QED BY <3>1, <3>2 DEF x
  <2>5. SheetKey(x) = SheetKey(f)
    BY <2>1, <2>3 DEF SheetKey, Stored
  <2>6. HasKeyOf(shown, f) => x \in D /\ InRange(x, opt, clock)
    <3> SUFFICES ASSUME HasKeyOf(shown, f) PROVE x \in D /\ InRange(x, opt, clock)
      OBVIOUS
    <3>1. PICK k \in DOMAIN shown : SheetKey(shown[k]) = SheetKey(f)
      BY DEF HasKeyOf
    <3>2. shown[k] \in D /\ InRange(shown[k], opt, clock)
      BY DEF SheetOf, ToSet
    <3>3. shown[k].level = f.level /\ shown[k].started = f.started
      BY <3>1 DEF SheetKey
    <3>4. shown[k] = x
      BY <1>3, <2>4, <3>2, <3>3
    <3> QED BY <3>2, <3>4
  <2>7. x \in D /\ InRange(x, opt, clock) => HasKeyOf(shown, f)
    BY <2>5 DEF SheetOf, HasKeyOf
  <2>8. /\ HasKeyOf(shown, f) => Cardinality(Shows(shown, f)) = 1
        /\ ~HasKeyOf(shown, f) => Shows(shown, f) = {} /\ Cardinality(Shows(shown, f)) = 0
    BY <1>3, <2>1, ShowsOne
  <2>9. /\ AllIn(f, opt) => InRange(x, opt, clock)
        /\ NoneIn(f, opt) => ~InRange(x, opt, clock)
        /\ Unbounded(opt) => InRange(x, opt, clock)
    BY <2>1, RangeFacts
  <2>10. NoneIn(f, opt) => Shows(shown, f) = {}
    BY <2>6, <2>8, <2>9
  <2>11. ASSUME ~opt.dedup \/ TrueInst(f, opt) \notin Trainium, AllIn(f, opt)
         PROVE  Cardinality(Shows(shown, f)) = 1
    <3>1. x \in D
      <4>1. CASE opt.dedup
        BY <2>1, <2>11, <4>1 DEF KeptOf, N
      <4>2. CASE ~opt.dedup
        BY <2>1, <4>2 DEF KeptOf, N
      <4> QED BY <4>1, <4>2
    <3> QED BY <2>7, <2>8, <2>9, <2>11, <3>1
  <2>12. ASSUME opt.dedup, TrueInst(f, opt) \in Trainium, Unbounded(opt)
         PROVE  Cardinality(Shows(shown, f)) =
                   IF \A g \in Mine(perf, f, opt) : g.started <= f.started THEN 1 ELSE 0
    <3>0. /\ \A y, z \in D : y.inst \in Trainium /\ Identity(y) = Identity(z) => y = z
          /\ \A y \in N : y.inst \in Trainium =>
                \E z \in D : Identity(z) = Identity(y) /\ z.started >= y.started
      BY <2>12 DEF KeptOf, N
    <3>1. CASE \A g \in Mine(perf, f, opt) : g.started <= f.started
      <4>1. PICK y \in D : Identity(y) = Identity(x) /\ y.started >= x.started
        BY <2>1, <2>12, <3>0
      <4>2. y.level = f.level /\ y.inst = TrueInst(f, opt)
        BY <2>1, <4>1 DEF Identity
      <4>3. PICK g \in perf : /\ y.inst = TrueInst(g, opt) /\ y.level = g.level
                              /\ y.started = g.started /\ g.started \in Nat
        BY <1>3, <2>2
      <4>4. g \in Mine(perf, f, opt)
        BY <4>2, <4>3 DEF Mine
      <4>5. g.started = f.started
        BY <2>1, <3>1, <4>1, <4>3, <4>4
      <4>6. y = x
        BY <1>3, <2>4, <4>2, <4>3, <4>5
      <4> QED BY <2>7, <2>8, <2>9, <2>12, <3>1, <4>6
    <3>2. CASE ~\A g \in Mine(perf, f, opt) : g.started <= f.started
      <4>1. PICK g \in Mine(perf, f, opt) : ~(g.started <= f.started)
        BY <3>2
      <4> DEFINE z == Named(g, opt)
      <4>2. /\ g \in perf /\ g.level = f.level /\ TrueInst(g, opt) = TrueInst(f, opt)
        BY DEF Mine
      <4>3. /\ z \in N /\ z.inst = TrueInst(f, opt) /\ z.level = f.level
            /\ z.started = g.started /\ z.model = "m" /\ g.started \in Nat
        BY <1>1, <1>2, <4>2 DEF Relabels, Stored
      <4> HIDE DEF z
      <4>4. Identity(z) = Identity(x)
        BY <2>1, <2>3, <4>3 DEF Identity
      <4>5. PICK y \in D : Identity(y) = Identity(z) /\ y.started >= z.started
        BY <2>12, <3>0, <4>3
      <4>6. y.inst \in Trainium
        BY <2>12, <4>3, <4>5 DEF Identity
      <4>7. y.started \in Nat
        BY <1>3, <2>2
      <4>8. y # x
        BY <2>1, <4>1, <4>3, <4>5, <4>7
      <4>9. x \notin D
        BY <3>0, <4>4, <4>5, <4>6, <4>8
      <4> QED BY <2>6, <2>8, <3>2, <4>9
    <3> QED BY <3>1, <3>2
  <2> QED BY <2>10, <2>11, <2>12 DEF FaithfulRow
<1> QED BY <1>4, <1>5

-------------------------------------------------------------------------------
(* WHAT A SYNC BRINGS                                                      *)

(* What is in S3 rises too.                                                *)
Uploaded == \A r \in Runs : s3[r] # None => Rising(s3[r])

LEMMA UploadedInit == InitLoad => Uploaded
  BY DEF InitLoad, Uploaded

LEMMA UploadedNext == IInv /\ Uploaded /\ [Next]_loadVars => Uploaded'
<1> SUFFICES ASSUME IInv, Uploaded, [Next]_loadVars, NEW r \in Runs, s3'[r] # None
             PROVE  Rising(s3'[r])
  BY DEF Uploaded, Rising
<1>1. CASE s3'[r] = s3[r]
  BY <1>1 DEF Uploaded
<1>2. CASE s3'[r] # s3[r]
  BY <1>2, UploadGrows
<1> QED BY <1>1, <1>2

(* A row of the sweep, as the report reads it, is priced by its label.     *)
LEMMA ResultIs ==
  ASSUME NEW row \in Row, NEW place \in Folders
  PROVE  /\ Result(row, place) \in Stored /\ Priced(Result(row, place))
         /\ Result(row, place).level = row.level /\ Result(row, place).started = row.started
         /\ row.started \in Launch..LastTick
<1> DEFINE priced == place[1] \in DOMAIN Price /\ row.tokens > 0
           c == IF priced THEN Price[place[1]] ELSE 0
           u == IF priced THEN Worth \div Price[place[1]] ELSE 0
           g == [kind |-> "perf", model |-> "m", level |-> row.level, inst |-> place[1],
                 folder |-> place[2], cost |-> c, perUsd |-> u, started |-> row.started,
                 launched |-> Launch]
<1>1. /\ row.level \in Nat /\ row.started \in Launch..LastTick /\ row.started \in Nat
      /\ Launch \in Nat
  <2>1. row.level \in Level /\ row.started \in Launch..LastTick
    BY DEF Row
  <2>2. row.level \in Nat
    BY <2>1, LevelType
  <2> QED BY <2>1, <2>2, ClockAssumption
<1>2. place[1] \in Families /\ place[2] \in Families \cup {NoFamily}
  BY FoldersAssumption
<1>3. /\ c \in Nat /\ u \in Nat
      /\ c # 0 => place[1] \in DOMAIN Price /\ c = Price[place[1]] /\ u = Worth \div Price[place[1]]
  <2>1. CASE priced
    <3>1. Price[place[1]] \in Nat \ {0} /\ Worth \in Nat
      BY <2>1, PriceAssumption, WorthAssumption
    <3>2. c = Price[place[1]] /\ u = Worth \div Price[place[1]]
      BY <2>1
    <3>3. Worth \div Price[place[1]] \in Nat
      BY <3>1
    <3> QED BY <2>1, <3>1, <3>2, <3>3
  <2>2. CASE ~priced
    <3>1. c = 0 /\ u = 0
      BY <2>2
    <3> QED BY <3>1
  <2> QED BY <2>1, <2>2
<1>4. Result(row, place) = g
  BY DEF Result
<1> HIDE DEF c, u, priced
<1>5. /\ g \in Stored /\ g.inst = place[1] /\ g.cost = c /\ g.perUsd = u
      /\ g.level = row.level /\ g.started = row.started
  BY <1>1, <1>2, <1>3 DEF Stored
<1> HIDE DEF g
<1> QED BY <1>1, <1>3, <1>4, <1>5 DEF Priced

(* The file of a run has every level once.                                 *)
LEMMA FileIs ==
  ASSUME TypeOK, Uploaded, NEW r \in Runs, NEW place \in Folders
  PROVE  /\ File(r, place) \in Seq(Stored)
         /\ \A f \in ToSet(File(r, place)) : Priced(f) /\ f.started \in Launch..LastTick
         /\ \A f, g \in ToSet(File(r, place)) : f.level = g.level => f = g
<1>1. CASE s3[r] = None
  <2>1. File(r, place) = <<>> /\ ToSet(<<>>) = {} /\ <<>> \in Seq(Stored)
    BY <1>1 DEF File, ToSet
  <2> QED BY <2>1
<1>2. CASE s3[r] # None
  <2> DEFINE s == s3[r]
             w == [i \in 1..Len(s) |-> Result(s[i], place)]
  <2>1. s \in Seq(Row) /\ Rising(s)
    BY <1>2 DEF TypeOK, Uploaded
  <2>2. Len(s) \in Nat /\ DOMAIN s = 1..Len(s) /\ \A i \in 1..Len(s) : s[i] \in Row
    BY <2>1, SeqFacts
  <2>3. File(r, place) = w
    BY <1>2, <2>2 DEF File
  <2> HIDE DEF s
  <2>4. \A i \in 1..Len(s) : /\ Result(s[i], place) \in Stored /\ Priced(Result(s[i], place))
                             /\ Result(s[i], place).level = s[i].level
                             /\ Result(s[i], place).started \in Launch..LastTick
    BY <2>2, ResultIs
  <2>5. w \in [1..Len(s) -> Stored]
    BY <2>4
  <2>6. w \in Seq(Stored)
    BY <2>2, <2>5, FunctionsAreSequences
  <2>7. DOMAIN w = 1..Len(s) /\ \A i \in 1..Len(s) : w[i] = Result(s[i], place)
    OBVIOUS
  <2> HIDE DEF w
  <2>8. \A f \in ToSet(w) : \E i \in 1..Len(s) : f = Result(s[i], place)
    BY <2>7 DEF ToSet
  <2>9. \A i, j \in 1..Len(s) : s[i].level = s[j].level => i = j
    <3> SUFFICES ASSUME NEW i \in 1..Len(s), NEW j \in 1..Len(s), s[i].level = s[j].level, i # j
                 PROVE  FALSE
      OBVIOUS
    <3>1. s[i].level \in Nat
      BY <2>2, LevelType DEF Row
    <3>2. i < j \/ j < i
      BY <2>2
    <3>3. s[i].level < s[j].level \/ s[j].level < s[i].level
      BY <2>1, <2>2, <3>2 DEF Rising
    <3> QED BY <3>1, <3>3
  <2>10. ASSUME NEW f \in ToSet(w), NEW g \in ToSet(w), f.level = g.level PROVE f = g
    <3>1. PICK i \in 1..Len(s) : f = Result(s[i], place)
      BY <2>8
    <3>2. PICK j \in 1..Len(s) : g = Result(s[j], place)
      BY <2>8
    <3>3. s[i].level = s[j].level
      BY <2>4, <2>10, <3>1, <3>2
    <3> QED BY <2>9, <3>1, <3>2, <3>3
  <2>11. \A f \in ToSet(w) : Priced(f) /\ f.started \in Launch..LastTick
    BY <2>4, <2>8
  <2> QED BY <2>3, <2>6, <2>10, <2>11
<1> QED BY <1>1, <1>2

(* The results of a listing can be told apart: the sweep's by their level, *)
(* those of another run by their time too.                                 *)
LEMMA ListingIs ==
  ASSUME TypeOK, Uploaded, NEW files \in Listings, NEW perf,
         perf = {f \in ToSet(files) : f.kind = "perf"}
  PROVE  files \in Seq(Stored) /\ ToldApart(perf)
<1>1. PICK r \in Runs, place \in Folders, old \in Archives :
         files \in {old \o File(r, place), File(r, place) \o old}
  BY DEF Listings
<1> DEFINE new == File(r, place)
<1>2. /\ new \in Seq(Stored) /\ ToSet(new) \subseteq Stored
      /\ \A f \in ToSet(new) : Priced(f) /\ f.started \in Launch..LastTick
      /\ \A f, g \in ToSet(new) : f.level = g.level => f = g
  BY FileIs, SeqFacts
<1> HIDE DEF new
<1>3. /\ old \in Seq(Stored)
      /\ \A f \in {g \in ToSet(old) : g.kind = "perf"} :
            /\ f.started \notin Launch..LastTick /\ Priced(f)
            /\ \A g \in ToSet(old) :
                  g.kind = "perf" /\ g.level = f.level /\ g.started = f.started => g = f
  BY ArchivesAssumption DEF Priced
<1>4. ToSet(old) \subseteq Stored
  BY <1>3, SeqFacts
<1>5. files \in Seq(Stored) /\ ToSet(files) = ToSet(old) \cup ToSet(new)
  <2>1. /\ old \o new \in Seq(Stored) /\ ToSet(old \o new) = ToSet(old) \cup ToSet(new)
        /\ new \o old \in Seq(Stored) /\ ToSet(new \o old) = ToSet(new) \cup ToSet(old)
    BY <1>2, <1>3, ElementsJoined
  <2>2. files = old \o new \/ files = new \o old
    BY <1>1 DEF new
  <2> QED BY <2>1, <2>2
<1>6. \A f \in perf : f \in Stored /\ Priced(f)
  BY <1>2, <1>3, <1>4, <1>5
<1>7. ASSUME NEW f \in perf, NEW g \in perf, f.level = g.level, f.started = g.started PROVE f = g
  <2>1. f.kind = "perf" /\ g.kind = "perf"
    OBVIOUS
  <2>2. CASE f \in ToSet(old) /\ g \in ToSet(old)
    BY <1>3, <1>7, <2>1, <2>2
  <2>3. CASE f \in ToSet(new) /\ g \in ToSet(new)
    BY <1>2, <1>7, <2>3
  <2>4. CASE f \in ToSet(old) /\ g \in ToSet(new)
    BY <1>2, <1>3, <1>7, <2>1, <2>4
  <2>5. CASE f \in ToSet(new) /\ g \in ToSet(old)
    BY <1>2, <1>3, <1>7, <2>1, <2>5
  <2> QED BY <1>5, <2>2, <2>3, <2>4, <2>5
<1> QED BY <1>5, <1>6, <1>7 DEF ToldApart

(* report_generator.py, main(): whatever a sync has brought, in whatever   *)
(* order, and whichever flags it is read with.                             *)
THEOREM ReportIsFaithfulCorrect == Spec => []ReportIsFaithful
<1>1. ASSUME TypeOK, Uploaded PROVE ReportIsFaithful
  <2> SUFFICES ASSUME NEW files \in Listings, NEW opt \in {o \in Commands : Accepts(o, clock)}
               PROVE
            LET shown == Export(files, opt, clock)
                perf  == {f \in ToSet(files) : f.kind = "perf"}
                mine(f) == {g \in perf : TrueInst(g, opt) = TrueInst(f, opt) /\ g.level = f.level}
            IN  /\ \A f \in perf :
                     /\ NoneIn(f, opt) => Shows(shown, f) = {}
                     /\ (~opt.dedup \/ TrueInst(f, opt) \notin Trainium) /\ AllIn(f, opt)
                          => Cardinality(Shows(shown, f)) = 1
                     /\ opt.dedup /\ TrueInst(f, opt) \in Trainium /\ Unbounded(opt)
                          => Cardinality(Shows(shown, f)) =
                                IF \A g \in mine(f) : g.started <= f.started THEN 1 ELSE 0
                /\ \A k \in DOMAIN shown :
                     shown[k].inst \in DOMAIN Price /\ shown[k].cost # 0 =>
                        /\ shown[k].cost = Price[shown[k].inst]
                        /\ shown[k].perUsd = Worth \div Price[shown[k].inst]
    BY DEF ReportIsFaithful
  <2> DEFINE shown == Export(files, opt, clock)
             perf == {f \in ToSet(files) : f.kind = "perf"}
  <2>1. files \in Seq(Stored) /\ ToldApart(perf)
    BY <1>1, ListingIs
  <2>2. PICK D : KeptOf(D, {Named(f, opt) : f \in perf}, opt) /\ SheetOf(shown, D, opt, clock)
    BY <2>1, ExportIs
  <2> HIDE DEF shown, perf
  <2>3. /\ \A f \in perf : FaithfulRow(shown, perf, f, opt)
        /\ \A k \in DOMAIN shown : RightCost(shown[k])
    BY <2>1, <2>2, SheetIsFaithful
  <2>4. /\ \A f \in perf :
             /\ NoneIn(f, opt) => Shows(shown, f) = {}
             /\ (~opt.dedup \/ TrueInst(f, opt) \notin Trainium) /\ AllIn(f, opt)
                  => Cardinality(Shows(shown, f)) = 1
             /\ opt.dedup /\ TrueInst(f, opt) \in Trainium /\ Unbounded(opt)
                  => Cardinality(Shows(shown, f)) =
                        IF \A g \in {g \in perf : TrueInst(g, opt) = TrueInst(f, opt) /\ g.level = f.level} :
                              g.started <= f.started THEN 1 ELSE 0
        /\ \A k \in DOMAIN shown :
             shown[k].inst \in DOMAIN Price /\ shown[k].cost # 0 =>
                /\ shown[k].cost = Price[shown[k].inst]
                /\ shown[k].perUsd = Worth \div Price[shown[k].inst]
    BY <2>3, Zenon DEF FaithfulRow, Mine, RightCost
  <2> QED BY <2>4, Zenon DEF shown, perf
<1>2. IInv => TypeOK
  BY DEF IInv
<1>3. Spec => [](IInv /\ Uploaded)
  <2>1. InitLoad => IInv /\ Uploaded
    BY InvInit, UploadedInit
  <2>2. (IInv /\ Uploaded) /\ [Next]_loadVars => (IInv /\ Uploaded)'
    BY InvNext, UploadedNext
  <2> QED BY <2>1, <2>2, PTL DEF Spec
<1> QED BY <1>1, <1>2, <1>3, PTL

===============================================================================
