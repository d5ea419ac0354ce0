------------------------------ MODULE MCEvaluate ------------------------------
(* A worksheet, replies and earlier results for the checker.               *)
EXTENDS Evaluate

CONSTANTS Yes, No, NA, yes, q1, text1, text2, own, talk, ready

Line2(how, label) == [how |-> how, label |-> label]
Prose == Line2("prose", UNKNOWN)
Opening == Line2("open", UNKNOWN)
Echo  == Line2("echo", No)

Says(content, reasoning, cut) == [content |-> content, reasoning |-> reasoning, cut |-> cut]

(* Every text of up to so many lines.                                      *)
Texts(n) == UNION {[1..k -> Line] : k \in 0..n}
EveryShape ==
    {Says(c, r, cut) : c \in Texts(3), r \in Texts(1), cut \in BOOLEAN}
      \cup {Says(c, r, cut) : c \in Texts(1), r \in Texts(2), cut \in BOOLEAN}

Usual ==
    {Says(<<Prose, Line2("alone", Yes)>>, <<Line2("inline", No)>>, FALSE),
     Says(<<Line2("declared", No), Prose>>, <<>>, TRUE),
     Says(<<Opening, Line2("inline", Yes)>>, <<>>, TRUE),
     Says(<<Prose>>, <<Echo>>, FALSE),
     Says(<<Prose>>, <<>>, FALSE)}

Bare == {Says(<<Line2("alone", l)>>, <<>>, FALSE) : l \in {Yes, No}}

(* Two rows of one id, two without an id whose questions begin alike, and  *)
(* a label that is none.                                                   *)
Worksheet ==
    << [id |-> None, qid |-> q1, question |-> own, transcript |-> talk, ready |-> None, names |-> None, gold |-> yes],
       [id |-> 7, qid |-> None, question |-> None, transcript |-> None, ready |-> ready, names |-> text2, gold |-> No],
       [id |-> None, qid |-> q1, question |-> None, transcript |-> talk, ready |-> None, names |-> None, gold |-> No],
       [id |-> None, qid |-> None, question |-> None, transcript |-> None, ready |-> ready, names |-> own, gold |-> NA] >>

Questions == [q \in {q1} |-> text1]
Stubs == [t \in {own, text2} |-> own]
Spellings == [l \in {yes} |-> Yes]

Org == [modes |-> {"free_parse", "guided_choice"}, fallback |-> TRUE, concurrency |-> 2,
        version |-> {"autoqa_v1", "transcripts"}, eval_id |-> {"autoqa_v1"}, folder |-> "org"]

Sample(eval, pred, gold) ==
    [version |-> eval, folder |-> "xl", id |-> 0, qid |-> q1, pred |-> pred, gold |-> gold]

(* Nothing; an older row of the other test set, with samples that are      *)
(* scaled; an older row of this one.                                       *)
Older(version, folder, n) ==
    [version |-> version, folder |-> folder, per |-> <<>>, n |-> [q \in {q1} |-> n]]
Before ==
    {[quals |-> <<>>, samples |-> <<>>],
     [quals |-> <<Older({"autoqa_xl"}, "xl", 5)>>,
      samples |-> <<Sample({"autoqa_xl"}, Yes, Yes), Sample({"autoqa_xl"}, Yes, No), Sample({}, No, No)>>],
     [quals |-> <<Older({"autoqa_v1"}, "g6", 4)>>, samples |-> <<>>]}

===============================================================================
