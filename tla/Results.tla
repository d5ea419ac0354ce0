-------------------------------- MODULE Results --------------------------------
(***************************************************************************)
(* Load tests and the report made of what they leave in S3: the sweeps of  *)
(* module LoadTest write beside the files of an earlier run, and the       *)
(* operators of module Report read all of it, in any order of the files.   *)
(***************************************************************************)
EXTENDS LoadTest, Report

CONSTANTS
    Folders,   \* a label and the tag of the run's folder, a family or another
    Archives,  \* files of earlier runs, as sequences of results
    Commands,  \* flags of the report generator
    Worth      \* tokens per dollar of a run at price 1, which every price divides

ASSUME FoldersAssumption == Folders \subseteq Families \X (Families \cup {NoFamily})
ASSUME WorthAssumption == Worth \in Nat /\ \A f \in DOMAIN Price : Worth % Price[f] = 0

(* A result as it is stored.                                               *)
Stored ==
    [kind: {"perf", "quality", "sample"}, model: {"m"}, level: Nat, inst: Families,
     folder: Families \cup {NoFamily}, cost: Nat, perUsd: Nat, started: Nat, launched: Nat]

(* What other runs have left: they began at other times, no two of their   *)
(* rows of one level at the same, and what has a cost has that of its      *)
(* label.                                                                  *)
ASSUME ArchivesAssumption ==
    \A old \in Archives :
        /\ old \in Seq(Stored)
        /\ \A f \in {g \in ToSet(old) : g.kind = "perf"} :
              /\ f.started \notin Launch..LastTick
              /\ \A g \in ToSet(old) :
                    g.kind = "perf" /\ g.level = f.level /\ g.started = f.started => g = f
              /\ f.cost # 0 => /\ f.inst \in DOMAIN Price /\ f.cost = Price[f.inst]
                               /\ f.perUsd = Worth \div Price[f.inst]

Next == Tick \/ \E r \in Runs : Sweep(r)
Spec == InitLoad /\ [][Next]_loadVars

-------------------------------------------------------------------------------
(* The rows of a run as the report reads them: the costs were derived from *)
(* the price of the label when the row was built, or left out.             *)
Result(row, place) ==
    LET priced == place[1] \in DOMAIN Price /\ row.tokens > 0 IN
    [kind |-> "perf", model |-> "m", level |-> row.level, inst |-> place[1], folder |-> place[2],
     cost |-> IF priced THEN Price[place[1]] ELSE 0,
     perUsd |-> IF priced THEN Worth \div Price[place[1]] ELSE 0,
     started |-> row.started, launched |-> Launch]

File(r, place) == IF s3[r] = None THEN <<>> ELSE [i \in DOMAIN s3[r] |-> Result(s3[r][i], place)]

(* What a sync may bring, from a run of a label and a folder and from an   *)
(* earlier one: a directory is listed in no particular order.              *)
Listings ==
    UNION {{earlier \o File(r, place), File(r, place) \o earlier} :
             r \in Runs, place \in Folders, earlier \in Archives}

-------------------------------------------------------------------------------
TypeOK ==
    /\ at \in [Runs -> {"waiting", "next", "bench", "joining", "upload", "exited", "over", "dead"}]
    /\ level \in [Runs -> 0..Levels]
    /\ counter \in [Runs -> Nat] /\ made \in [Runs -> 0..MaxMade]
    /\ restarts \in [Runs -> 0..MaxRestart]
    /\ before \in [Runs -> Nat \cup {None}]
    /\ scraping \in [Runs -> SUBSET Level]
    /\ samples \in [Runs -> [Level -> SUBSET Level]]
    /\ bench \in [Runs -> Nat \cup {None}]
    /\ rows \in [Runs -> Seq(Row)]
    /\ disk \in [Runs -> Seq(Row) \cup {None}]
    /\ torn \in [Runs -> BOOLEAN]
    /\ s3 \in [Runs -> Seq(Row) \cup {None}]
    /\ exit \in [Runs -> {0, 1, 3, None}]
    /\ clock \in Launch..LastTick /\ began \in [Runs -> Launch..LastTick]

(* _append_result_to_disk, _upload_file_to_s3, the last write and upload:  *)
(* whichever writes to the disk, uploads and levels failed in between, an  *)
(* upload replaces the object by one with the levels that are in S3, and   *)
(* with none of them twice.  Only a sweep that could not write its file    *)
(* anew takes levels away: its last ones, and it says so by its exit code. *)
NothingLost ==
    [][\A r \in Runs : s3'[r] # s3[r] =>
          /\ \A i, j \in DOMAIN s3'[r] : i < j => s3'[r][i].level < s3'[r][j].level
          /\ s3[r] # None =>
                \A f \in ToSet(s3[r]) \ ToSet(s3'[r]) :
                   exit[r] = 1 /\ \A g \in ToSet(s3'[r]) : g.level < f.level]_loadVars

(* What load-test.py:911-912 says of the object: "S3 always holds the      *)
(* latest cumulative JSONL (every completed level so far)".  What it has   *)
(* held, it holds.                                                         *)
LevelsStay ==
    [][\A r \in Runs : s3[r] # None => ToSet(s3[r]) \subseteq ToSet(s3'[r])]_loadVars

(* A row reports at least the tokens the client saw and at most those the  *)
(* engine made during its level, through failed scrapes, failed levels and *)
(* restarts of the engine, which set its counter back; and what was read   *)
(* under load was read under its own level, although a sampler thread may  *)
(* outlive its level.                                                      *)
RowIsOfItsLevel ==
    [][\A r \in Runs : Len(rows'[r]) > Len(rows[r]) =>
          LET row == Last(rows'[r]) IN
          /\ bench[r] <= row.tokens /\ row.tokens <= made[r]
          /\ row.tele \subseteq {row.level}]_loadVars

(* What a row is labelled with once labels are fixed; whether all of its   *)
(* instants are in the bounds; whether none is, of a day or of a time, for *)
(* a long sweep may have its day from the folder and its time from the row.*)
TrueInst(f, opt) == IF opt.fix /\ f.folder # NoFamily THEN f.folder ELSE f.inst
Dated(i, opt) == Within(i \div Parts, opt.from, LastDay(opt, clock))
Timed(i, opt) == Within(i, Bound(opt.from, opt.after), Bound(LastDay(opt, clock), opt.before))
AllIn(f, opt) == \A i \in Instants(f) : Dated(i, opt) /\ Timed(i, opt)
NoneIn(f, opt) == (\A i \in Instants(f) : ~Dated(i, opt)) \/ (\A i \in Instants(f) : ~Timed(i, opt))
Unbounded(opt) == opt.from = Open /\ opt.to = Open

Shows(shown, f) ==
    {k \in DOMAIN shown : shown[k].level = f.level /\ shown[k].started = f.started}

(* The sheet, whatever the order of the files: rows within the dates that  *)
(* are not Trainium duplicates are shown once, rows outside are not; of    *)
(* the Trainium rows of one identity the freshest is shown; and costs are  *)
(* those of the instance type a row is shown with.                         *)
ReportIsFaithful ==
    (\A r \in Runs : at[r] \in {"over", "dead"}) =>
        \A files \in Listings : \A opt \in {o \in Commands : Accepts(o, clock)} :
            LET shown == Export(files, opt, clock)
                perf  == {f \in ToSet(files) : f.kind = "perf"}
                mine(f) == {g \in perf : TrueInst(g, opt) = TrueInst(f, opt) /\ g.level = f.level}
            IN  /\ \A f \in perf :
                     /\ NoneIn(f, opt) => Shows(shown, f) = {}
                     /\ (~opt.dedup \/ TrueInst(f, opt) \notin Trainium) /\ AllIn(f, opt)
                          => Cardinality(Shows(shown, f)) = 1
                     /\ opt.dedup /\ TrueInst(f, opt) \in Trainium /\ Unbounded(opt)
                          => Cardinality(Shows(shown, f)) =
                                IF \A g \in mine(f) : g.started <= f.started THEN 1 ELSE 0
                /\ \A k \in DOMAIN shown :
                     shown[k].inst \in DOMAIN Price /\ shown[k].cost # 0 =>
                        /\ shown[k].cost = Price[shown[k].inst]
                        /\ shown[k].perUsd = Worth \div Price[shown[k].inst]

===============================================================================
