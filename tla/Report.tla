-------------------------------- MODULE Report --------------------------------
(***************************************************************************)
(* report-gen/report_generator.py: from the result files that a sync has   *)
(* brought to the rows of the performance sheet.                           *)
(*                                                                         *)
(* A result is a row of a load test with what its path says: the folder of *)
(* the run, dated, and the tag below it, which is often a hardware family. *)
(* Instances stand for the sizes of one family.                            *)
(***************************************************************************)
EXTENDS Naturals, Sequences, SequencesExt

CONSTANTS
    Families,  \* the hardware families the report knows
    Trainium,  \* those of them with Capacity Block prices
    Price,     \* the price book, a function from the families it lists
    NoFamily,  \* the tag of a run folder that is no family
    Parts,     \* parts of a day, the unit of time
    Open       \* a bound that is not given

ASSUME FamiliesAssumption == Trainium \subseteq Families /\ NoFamily \notin Families
ASSUME PriceAssumption ==
    /\ DOMAIN Price \subseteq Families
    /\ \A f \in DOMAIN Price : Price[f] \in Nat \ {0}

ASSUME PartsAssumption == Parts \in Nat \ {0} /\ Open \notin Nat

(* A result: kind, model and level; inst, the recorded instance type; cost *)
(* and perUsd, what its price made of the run; folder, the tag; started    *)
(* and launched, the instants of started_at and of the folder's name.      *)
(* opt holds the flags: fix, dedup, the days from and to, after and before *)
(* within them.                                                            *)

-------------------------------------------------------------------------------
(* The rows that are good, in their order.                                 *)
Only(rs, good) ==
    FoldLeft(LAMBDA kept, r : IF r \in good THEN Append(kept, r) ELSE kept, <<>>, rs)

(* Only measurements: quality rows carry an accuracy, samples a name.      *)
LoadPerf(files) == Only(files, {f \in ToSet(files) : f.kind = "perf"})

(* --fix-instance-labels: the folder's family is the true one; costs scale *)
(* with the prices, tokens per dollar against them.                        *)
Fixed(r) ==
    IF r.folder = NoFamily \/ r.folder = r.inst THEN r
    ELSE IF r.folder \in DOMAIN Price /\ r.inst \in DOMAIN Price
    THEN [r EXCEPT !.inst = r.folder,
                   !.cost = (r.cost * Price[r.folder]) \div Price[r.inst],
                   !.perUsd = (r.perUsd * Price[r.inst]) \div Price[r.folder]]
    ELSE [r EXCEPT !.inst = r.folder]

FixLabels(rs) == [i \in DOMAIN rs |-> Fixed(rs[i])]

(* What makes two Trainium rows one: everything but started_at.            *)
Identity(r) == <<r.model, r.level, r.inst>>

(* --dedup-trn: in the order of the files, GPU rows first, then the latest *)
(* row of each identity in the place of the first.                         *)
Refreshed(best, r) ==
    IF \E i \in DOMAIN best : Identity(best[i]) = Identity(r)
    THEN [i \in DOMAIN best |->
            IF Identity(best[i]) = Identity(r) /\ r.started > best[i].started THEN r ELSE best[i]]
    ELSE Append(best, r)
Freshest(rs) == FoldLeft(Refreshed, <<>>, rs)
DedupTrn(rs) ==
    Only(rs, {r \in ToSet(rs) : r.inst \notin Trainium})
      \o Freshest(Only(rs, {r \in ToSet(rs) : r.inst \in Trainium}))

(* --from-date alone ends today.                                           *)
LastDay(opt, now) == IF opt.from # Open /\ opt.to = Open THEN now \div Parts ELSE opt.to

Within(x, low, high) == (low = Open \/ x >= low) /\ (high = Open \/ x <= high)
Instants(r) == {r.started, r.launched}

ByDate(rs, first, last) ==
    Only(rs, {r \in ToSet(rs) : \E i \in Instants(r) : Within(i \div Parts, first, last)})

(* --after and --before: an instant of the first and of the last day.      *)
Bound(day, part) == IF part = Open THEN Open ELSE day * Parts + part
ByTime(rs, low, high) ==
    Only(rs, {r \in ToSet(rs) : \E i \in Instants(r) : Within(i, low, high)})

(* Refused: a range that ends before it begins, a time without its day.    *)
Accepts(opt, now) ==
    LET last == LastDay(opt, now) IN
    /\ Open \in {opt.from, last} \/ opt.from <= last
    /\ opt.after # Open => opt.from # Open
    /\ opt.before # Open => last # Open

(* The sheet keeps one row of those that agree in all it is keyed by.      *)
SheetKey(r) == <<r.model, r.level, r.started>>
Listed(kept, r) ==
    IF \E i \in DOMAIN kept : SheetKey(kept[i]) = SheetKey(r) THEN kept ELSE Append(kept, r)
Unique(rs) == FoldLeft(Listed, <<>>, rs)

(* main(): labels, duplicates, dates and times, in this order.             *)
Export_DedupFirst(files, opt, now) ==
    LET perf  == LoadPerf(files)
        fresh == IF opt.dedup THEN DedupTrn(perf) ELSE perf
        named == IF opt.fix THEN FixLabels(fresh) ELSE fresh
        last  == LastDay(opt, now)
        dated == ByDate(named, opt.from, last)
    IN Unique(ByTime(dated, Bound(opt.from, opt.after), Bound(last, opt.before)))
Export(files, opt, now) ==
    LET perf  == LoadPerf(files)
        named == IF opt.fix THEN FixLabels(perf) ELSE perf
        fresh == IF opt.dedup THEN DedupTrn(named) ELSE named
        last  == LastDay(opt, now)
        dated == ByDate(fresh, opt.from, last)
    IN Unique(ByTime(dated, Bound(opt.from, opt.after), Bound(last, opt.before)))

===============================================================================
