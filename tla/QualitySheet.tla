----------------------------- MODULE QualitySheet -----------------------------
(***************************************************************************)
(* Quality counts: the confusion matrix of inference/quality-eval.py, and  *)
(* the per-question records that report-gen/report_generator.py makes of   *)
(* the results and the samples that reached S3.                            *)
(***************************************************************************)
EXTENDS Verdict, FiniteSets

CONSTANTS
    Positive,  \* positive_label
    None,      \* a field that is not there
    NoQid      \* what stands for it in a sheet: "(no QID)"

Buckets == {"tp", "fp", "fn", "tn", "unparseable_neg", "unscored_other"}

-------------------------------------------------------------------------------
(* _binary_metrics: where a verdict counts.                                *)
Bucket(pred, gold) ==
    IF pred = Positive THEN IF gold = Positive THEN "tp" ELSE "fp"
    ELSE IF gold = Positive THEN "fn"
    ELSE IF pred = gold THEN "tn"
    ELSE IF pred = UNKNOWN THEN "unparseable_neg" ELSE "unscored_other"

Counts(rs, places) ==
    [b \in Buckets |-> Cardinality({i \in places : Bucket(rs[i].pred, rs[i].gold) = b})]

(* The five columns of the sheet.                                          *)
Columns(c) ==
    [tp |-> c.tp, fp |-> c.fp, fn |-> c.fn, tn |-> c.tn,
     other |-> c.unparseable_neg + c.unscored_other]
Blank == [tp |-> 0, fp |-> 0, fn |-> 0, tn |-> 0, other |-> 0]
Total(col) == col.tp + col.fp + col.fn + col.tn + col.other

(* _testset_label, of the marks in a version or an evaluation id; folder   *)
(* is the tag the run's path has.                                          *)
Testset(marks, folder) ==
    IF marks \cap {"autoqa_xl", "transcripts-v2"} # {} THEN "Test-XL"
    ELSE IF marks \cap {"autoqa_v1", "transcripts"} # {} THEN "Test-ORG"
    ELSE IF folder = "xl" THEN "Test-XL" ELSE IF folder = "org" THEN "Test-ORG" ELSE "-"

(* A result row carries version, folder, per and n, functions from question*)
(* ids (older rows have an empty per); a sample carries version, folder,   *)
(* qid, pred and gold.  All of one model, hardware and quantisation.       *)
Key(x) == Testset(x.version, x.folder)
QidOf(s) == IF s.qid = None THEN NoQid ELSE s.qid

(* Python rounds a half to the even neighbour.                             *)
Rounded(a, b) ==
    LET q == a \div b  twice == 2 * (a % b) IN
    IF twice > b \/ (twice = b /\ q % 2 = 1) THEN q + 1 ELSE q

(* The counts of the samples, scaled to n rows; none, and they stay blank. *)
FromSamples(samples, key, qid, n) ==
    LET mine == {i \in DOMAIN samples : Key(samples[i]) = key /\ QidOf(samples[i]) = qid}
        size == Cardinality(mine)
        col  == Columns(Counts(samples, mine))
        rows == IF n = 0 THEN size ELSE n
    IN  [key |-> key, qid |-> qid, n |-> rows, blank |-> mine = {},
         col |-> IF mine = {} THEN Blank ELSE [c \in DOMAIN col |-> Rounded(col[c] * rows, size)]]

(* build_per_qid_metrics: the evaluator's own counts where a row has them, *)
(* the first row of a key in the order of the files; samples otherwise.    *)
First(quals, key, qid) ==
    quals[Min({i \in DOMAIN quals : Key(quals[i]) = key /\ qid \in DOMAIN quals[i].n})]

PerQid_SamplesFirst(samples, quals) ==
    LET sampled == {<<Key(s), QidOf(s)>> : s \in ToSet(samples)}
        scored  == UNION {{<<Key(q), qid>> : qid \in DOMAIN q.n} : q \in ToSet(quals)}
    IN  {FromSamples(samples, k[1], k[2],
            IF k \in scored THEN First(quals, k[1], k[2]).n[k[2]] ELSE 0) : k \in scored \cup sampled}
PerQid(samples, quals) ==
    LET sampled == {<<Key(s), QidOf(s)>> : s \in ToSet(samples)}
        scored  == UNION {{<<Key(q), qid>> : qid \in DOMAIN q.n} : q \in ToSet(quals)}
        record(k) ==
            LET first == First(quals, k[1], k[2]) IN
            IF k[2] \in DOMAIN first.per
            THEN [key |-> k[1], qid |-> k[2], n |-> first.n[k[2]], blank |-> FALSE,
                  col |-> Columns(first.per[k[2]])]
            ELSE FromSamples(samples, k[1], k[2], first.n[k[2]])
    IN  {record(k) : k \in scored}
          \cup {FromSamples(samples, k[1], k[2], 0) : k \in sampled \ scored}

===============================================================================
