-------------------------------- MODULE Evaluate --------------------------------
(***************************************************************************)
(* The evaluation of inference/quality-eval.py in its container: a pool of *)
(* threads that ask the model about every row, the constrained retry, the  *)
(* two files and what of them reaches S3.  Module Verdict reads replies,   *)
(* module QualitySheet counts.                                             *)
(***************************************************************************)
EXTENDS QualitySheet, FiniteSetsExt

CONSTANTS
    Raw,           \* the worksheet: a sequence of raw rows
    QidText,       \* the QIDs sheet, a function from question ids
    Stub,          \* a function from the texts of questions: their first 60 characters
    Spelling,      \* spellings of a gold label, as yes for Yes
    MaxSamples,    \* run.max_samples, 0 for all
    Config,        \* modes to consider, fallback (truncation_fallback), concurrency,
                   \* version, eval_id, folder
    MaxDump,       \* --max-dump-samples; 0 without --dump-samples
    Replies,       \* what the model may answer
    BareReplies,   \* what it may answer when a label is all it may generate
    Messages,      \* messages of every shape, for VerdictIsStated
    Archives       \* what else is in S3: sets of earlier result rows and samples

ASSUME SheetAssumption == Len(Raw) \in Nat /\ MaxSamples \in Nat /\ MaxDump \in Nat
ASSUME ConfigAssumption ==
    /\ Config.concurrency \in Nat \ {0}
    /\ Config.modes \subseteq {"guided_choice", "free_parse"}
ASSUME MessagesAssumption == Replies \cup BareReplies \cup Messages \subseteq Message
ASSUME NoneAssumption == None \notin Nat

(* A gold label is not the marker of a missing verdict; what an earlier    *)
(* evaluation left has counts that make up its rows, or, if it is older    *)
(* than they are, none.                                                    *)
ASSUME GoldAssumption ==
    /\ Positive # UNKNOWN
    /\ \A i \in 1..Len(Raw) :
          UNKNOWN # IF Raw[i].gold \in DOMAIN Spelling THEN Spelling[Raw[i].gold] ELSE Raw[i].gold
ASSUME ArchivesAssumption ==
    \A old \in Archives :
        /\ old.samples \in Seq(ToSet(old.samples)) /\ old.quals \in Seq(ToSet(old.quals))
        /\ \A q \in ToSet(old.quals) :
              /\ \A g \in DOMAIN q.n : q.n[g] \in Nat
              /\ \A g \in DOMAIN q.per :
                    g \in DOMAIN q.n /\ Total(Columns(q.per[g])) = q.n[g]

VARIABLES
    at,       \* where the evaluation is
    guided,   \* guided_ok: the server takes guided_choice
    mode,     \* how rows are asked
    taken,    \* how many rows the pool has begun with
    call,     \* call[i]: which attempt row i is at, 0 the first, or None
    done,     \* done[i]: the future of row i, or None
    results,  \* the list the main thread has collected
    files,    \* in the container: the result row and the samples, or None
    s3        \* in S3, likewise

vars == <<at, guided, mode, taken, call, done, results, files, s3>>

-------------------------------------------------------------------------------
(* load_dataset's _row: the QIDs sheet's question is preferred to the      *)
(* row's own; with a transcript the prompt is built, without it the ready  *)
(* one is taken, which may name a question itself.  Questions without an   *)
(* id are grouped by how they begin.                                       *)
LoadRow(d, i) ==
    LET asked  == IF d.qid \in DOMAIN QidText THEN QidText[d.qid] ELSE d.question
        prompt == IF None \in {d.transcript, asked} THEN <<d.ready>> ELSE <<asked, d.transcript>>
        full   == IF asked = None THEN d.names ELSE asked
    IN  [id     |-> IF d.id = None THEN i - 1 ELSE d.id,
         prompt |-> prompt,
         gold   |-> IF d.gold \in DOMAIN Spelling THEN Spelling[d.gold] ELSE d.gold,
         qid    |-> d.qid,
         group  |-> IF d.qid # None THEN d.qid ELSE IF full = None THEN "all" ELSE Stub[full]]

Rows ==
    LET n == IF MaxSamples > 0 /\ MaxSamples < Len(Raw) THEN MaxSamples ELSE Len(Raw)
    IN  [i \in 1..n |-> LoadRow(Raw[i], i)]

N == Len(Rows)
Running == {i \in 1..N : call[i] # None}

(* _forced_label_retry: bare labels if the server can, thinking off, and a *)
(* plain nudge.                                                            *)
Attempts == (IF guided THEN <<"guided">> ELSE <<>>) \o <<"thinking off", "nudge">>

Init ==
    /\ at = "waiting"
    /\ guided = FALSE /\ mode \in Config.modes
    /\ taken = 0
    /\ call = [i \in 1..N |-> None]
    /\ done = [i \in 1..N |-> None]
    /\ results = <<>>
    /\ files = [quality |-> None, samples |-> None]
    /\ s3 = [quality |-> None, samples |-> None]

-------------------------------------------------------------------------------
(* EXIT_MODEL_NOT_READY: nothing is written.                               *)
NotReady ==
    /\ at = "waiting" /\ at' = "exited"
    /\ UNCHANGED <<guided, mode, taken, call, done, results, files, s3>>

(* The server is up; it is asked once whether it takes guided_choice.      *)
Probe ==
    /\ at = "waiting" /\ at' = "scoring"
    /\ guided' \in BOOLEAN
    /\ mode' = IF guided' THEN mode ELSE "free_parse"
    /\ UNCHANGED <<taken, call, done, results, files, s3>>

(* A thread of the pool takes the next row.                                *)
Take_AllAtOnce ==
    /\ at = "scoring" /\ taken < N
    /\ taken' = taken + 1
    /\ call' = [call EXCEPT ![taken + 1] = 0]
    /\ UNCHANGED <<at, guided, mode, done, results, files, s3>>
Take ==
    /\ at = "scoring" /\ taken < N /\ Cardinality(Running) < Config.concurrency
    /\ taken' = taken + 1
    /\ call' = [call EXCEPT ![taken + 1] = 0]
    /\ UNCHANGED <<at, guided, mode, done, results, files, s3>>

(* A row has its verdict, from where, and the prompt it answers.           *)
Settles(i, label, source) ==
    /\ done' = [done EXCEPT ![i] =
                  [row |-> i, pred |-> label, source |-> source, of |-> Rows[i].prompt]]
    /\ call' = [call EXCEPT ![i] = None]
    /\ UNCHANGED <<at, guided, mode, taken, results, files, s3>>

Asks(i, attempt) ==
    /\ call[i] = attempt
    /\ call' = [call EXCEPT ![i] = attempt + 1]
    /\ UNCHANGED <<at, guided, mode, taken, done, results, files, s3>>

(* The first reply.  One that ran out of tokens before a verdict is asked  *)
(* for again.                                                              *)
WantsRetry(m) ==
    /\ Extract(m).label = UNKNOWN /\ m.cut
    /\ mode # "guided_choice" /\ Config.fallback
Answered(i) ==
    /\ call[i] = 0
    /\ \E m \in IF mode = "guided_choice" THEN BareReplies ELSE Replies :
         IF WantsRetry(m) THEN Asks(i, 0) ELSE Settles(i, Extract(m).label, Extract(m).source)

(* No reply: a timeout of 300 s, a dropped connection, an endpoint gone.   *)
Fails(i) == call[i] = 0 /\ Settles(i, UNKNOWN, "error")

(* An attempt brings a verdict, or not, or raises, which is the same.      *)
Retried(i) ==
    /\ call[i] \in DOMAIN Attempts
    /\ \/ \E m \in IF Attempts[call[i]] = "guided" THEN BareReplies ELSE Replies :
            Extract(m).label # UNKNOWN /\ Settles(i, Extract(m).label, "retry")
       \/ IF call[i] < Len(Attempts) THEN Asks(i, call[i]) ELSE Settles(i, UNKNOWN, "none")

(* ThreadPoolExecutor.map yields in the order of the rows.                 *)
Collect_AsCompleted ==
    /\ at = "scoring"
    /\ \E i \in 1..N :
         /\ done[i] # None /\ done[i] \notin ToSet(results)
         /\ results' = Append(results, done[i])
    /\ UNCHANGED <<at, guided, mode, taken, call, done, files, s3>>
Collect ==
    /\ at = "scoring" /\ Len(results) < N
    /\ done[Len(results) + 1] # None
    /\ results' = Append(results, done[Len(results) + 1])
    /\ UNCHANGED <<at, guided, mode, taken, call, done, files, s3>>

(* The result row: of the whole set of rows and of every question.         *)
Judged(rs) == [k \in DOMAIN rs |-> [pred |-> rs[k].pred, gold |-> Rows[rs[k].row].gold]]
Groups == {Rows[i].group : i \in 1..N}
OfGroup(rs, g) == {k \in DOMAIN rs : Rows[rs[k].row].group = g}

ResultRow(rs) ==
    [version |-> Config.version, folder |-> Config.folder,
     total |-> Len(rs),
     unparseable |-> Cardinality({k \in DOMAIN rs : rs[k].pred = UNKNOWN}),
     counts |-> Counts(Judged(rs), DOMAIN rs),
     n   |-> [g \in Groups |-> Cardinality(OfGroup(rs, g))],
     per |-> [g \in Groups |-> Counts(Judged(rs), OfGroup(rs, g))]]

(* The first samples, each zipped with the row at its place.               *)
Samples(rs) ==
    [k \in 1..(IF Len(rs) < MaxDump THEN Len(rs) ELSE MaxDump) |->
       [version |-> Config.eval_id, folder |-> Config.folder,
        id |-> Rows[rs[k].row].id, qid |-> Rows[rs[k].row].qid,
        pred |-> rs[k].pred, gold |-> Rows[rs[k].row].gold,
        input |-> Rows[k].prompt, of |-> rs[k].of]]

Finish ==
    /\ at = "scoring" /\ Len(results) = N /\ Running = {}
    /\ files' = [quality |-> ResultRow(results),
                 samples |-> IF MaxDump = 0 THEN None ELSE Samples(results)]
    /\ at' = "exited"
    /\ UNCHANGED <<guided, mode, taken, call, done, results, s3>>

(* The container uploads what it finds, in no order, best effort.          *)
Upload ==
    /\ at = "exited"
    /\ \E some \in SUBSET DOMAIN files :
          s3' = [f \in DOMAIN files |-> IF f \in some THEN files[f] ELSE None]
    /\ at' = "over"
    /\ UNCHANGED <<guided, mode, taken, call, done, results, files>>

(* The pod goes with all it holds: the Job does not start another.         *)
PodDies ==
    /\ at \in {"waiting", "scoring", "exited"}
    /\ at' = "dead"
    /\ call' = [i \in 1..N |-> None]
    /\ done' = [i \in 1..N |-> None]
    /\ results' = <<>>
    /\ files' = [quality |-> None, samples |-> None]
    /\ UNCHANGED <<guided, mode, taken, s3>>

Next ==
    \/ NotReady \/ Probe \/ Take \/ Collect \/ Finish \/ Upload \/ PodDies
    \/ \E i \in 1..N : Answered(i) \/ Fails(i) \/ Retried(i)

Spec == Init /\ [][Next]_vars

-------------------------------------------------------------------------------
Result ==
    [row : 1..N, pred : Labels \cup {UNKNOWN}, of : {Rows[i].prompt : i \in 1..N},
     source : {"answer", "reasoning", "conclusion", "loose", "retry", "none", "error"}]

(* The pool keeps to its size, a verdict to its kind and its source.       *)
TypeOK ==
    /\ at \in {"waiting", "scoring", "exited", "over", "dead"}
    /\ guided \in BOOLEAN /\ mode \in {"guided_choice", "free_parse"}
    /\ taken \in 0..N /\ Cardinality(Running) <= Config.concurrency
    /\ call \in [1..N -> {None} \cup 0..3]
    /\ done \in [1..N -> {None} \cup Result]
    /\ results \in Seq(Result)
    /\ \A r \in ToSet(results) : r.source \in {"none", "error"} <=> r.pred = UNKNOWN

(* quality-eval.py:617-640: a verdict is one that the reply states.  Cut   *)
(* short, only a label alone on its line or declared counts; an answer     *)
(* that ends with a label is that label whatever the reasoning says; a     *)
(* thought without an end gives none, unless declared; and an instruction  *)
(* restated above a long passage is not an answer.                         *)
Opens(text) == \E i \in DOMAIN text : text[i].how = "open"
InOpenBlock(text, i) ==
    \E o \in 1..i : text[o].how = "open" /\ \A c \in o..Len(text) : text[c].how # "close"
SaysNothing(text, i) ==
    \/ text[i].label = UNKNOWN
    \/ text[i].how = "echo" /\ ~Opens(text) /\ \E k \in i..Len(text) : text[k].how = "long"

SaidByReply(m) ==
    Extract(m).label # UNKNOWN => \E x \in ToSet(m.content \o m.reasoning) :
        /\ x.label = Extract(m).label
        /\ m.cut => x.how \in {"alone", "declared"}
AnswerIsFinal(m) ==
    m.content # <<>> /\ Last(m.content).how = "alone" /\ ~Opens(m.content)
        => Extract(m).label = Last(m.content).label
NothingIsUnknown(m) ==
    \/ Extract(m).label = UNKNOWN
    \/ \E i \in DOMAIN m.reasoning : ~SaysNothing(m.reasoning, i)
    \/ \E i \in DOMAIN m.content :
          /\ ~SaysNothing(m.content, i)
          /\ m.content[i].how = "declared" \/ ~InOpenBlock(m.content, i)
Stated(m) == SaidByReply(m) /\ AnswerIsFinal(m) /\ NothingIsUnknown(m)

VerdictIsStated == at = "waiting" => \A m \in Messages : Stated(m)

(* quality-eval.py:1105: threads answer out of order, yet every sample     *)
(* stands beside the input it answers, and every row of the worksheet is   *)
(* judged by the answer to its own prompt.                                 *)
RowsKeepTheirVerdicts ==
    /\ \A k \in DOMAIN results : results[k].of = Rows[results[k].row].prompt
    /\ files.samples # None => \A k \in DOMAIN files.samples :
          /\ files.samples[k].input = files.samples[k].of
          /\ files.samples[k].id = Rows[k].id

Sum(f) == MapThenSumSet(LAMBDA x : f[x], DOMAIN f)

(* quality-eval.py:743-757 and report_generator.py:763-785: whatever was   *)
(* dumped and uploaded, and whatever failed, the counts of a result row    *)
(* make up its rows, over its questions too; the sheet shows each of its   *)
(* questions with all its rows, of this test set only; and counts scaled   *)
(* from samples are off by no more than the rounding of five columns.      *)
SheetReconciles ==
    at \in {"over", "dead"} => \A old \in Archives :
        LET mine    == IF s3.quality = None THEN <<>> ELSE <<s3.quality>>
            samples == old.samples \o (IF s3.samples = None THEN <<>> ELSE s3.samples)
        IN  \A quals \in {mine \o old.quals, old.quals \o mine} :
            LET shown == PerQid(samples, quals) IN
            /\ \A r \in shown : ~r.blank => Total(r.col) <= r.n + 2 /\ r.n <= Total(r.col) + 2
            /\ \A q \in ToSet(mine) :
                 /\ q.total = N
                 /\ q.unparseable <= q.counts.fn + q.counts.unparseable_neg
                 /\ \A b \in Buckets :
                      q.counts[b] = Sum([g \in Groups |-> q.per[g][b]])
                 /\ Total(Columns(q.counts)) = N
                 /\ Key(q) \notin {Key(o) : o \in ToSet(old.quals)} => \A g \in Groups :
                      \E r \in shown :
                        /\ r.key = Key(q) /\ r.qid = g
                        /\ r.n = Cardinality({i \in 1..N : Rows[i].group = g})
                        /\ Total(r.col) = r.n
                        /\ r.col.tp + r.col.fn =
                             Cardinality({i \in 1..N : Rows[i].group = g /\ Rows[i].gold = Positive})

===============================================================================
