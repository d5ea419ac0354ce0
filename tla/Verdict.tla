-------------------------------- MODULE Verdict --------------------------------
(***************************************************************************)
(* inference/quality-eval.py: from the text of a reply to a label.         *)
(*                                                                         *)
(* A text is a sequence of lines; of a line matters how it bears a label:  *)
(*   alone     nothing but the label, markdown aside                       *)
(*   declared  a decision keyword next to it: "Verdict: Yes"               *)
(*   inline    mentioned                                                   *)
(*   echo      the instruction restated, "one word: Yes or No"             *)
(*   prose     not at all;  long, as prose, but over 300 characters        *)
(*   open, close   the tags of a block of thought                          *)
(* A message has a content, a reasoning channel, and may be cut at the     *)
(* token budget (finish_reason "length").                                  *)
(***************************************************************************)
EXTENDS Naturals, Sequences, SequencesExt, FiniteSetsExt

CONSTANTS Labels, EchoEnds, UNKNOWN   \* EchoEnds: the label an echo names last

ASSUME LabelsAssumption == EchoEnds \in Labels /\ UNKNOWN \notin Labels

Bearing == {"alone", "declared", "inline"}
Line ==
    [how : Bearing, label : Labels]
      \cup [how : {"prose", "long", "open", "close"}, label : {UNKNOWN}]
      \cup [how : {"echo"}, label : {EchoEnds}]
Message == [content : Seq(Line), reasoning : Seq(Line), cut : BOOLEAN]

-------------------------------------------------------------------------------
(* Lines are known by their places in a text.  _split_think: the places    *)
(* outside the blocks of thought; one that is not closed has no end.       *)
Visible(text) ==
    {i \in DOMAIN text :
        \A o \in 1..i : text[o].how = "open" => \E c \in o + 1..i - 1 : text[c].how = "close"}

(* The last label at some places.                                          *)
LastLabel(text, places) ==
    LET bears == {i \in places : text[i].label # UNKNOWN}
    IN  IF bears = {} THEN UNKNOWN ELSE text[Max(bears)].label

(* The closing 300 characters.                                             *)
Closing(text, places) == {i \in places : \A k \in places : text[k].how = "long" => k < i}

(* _parse_label: the final line alone; its last label; the closing region. *)
ParseLabel_NeverExact(text, places, mode) ==
    IF places = {} THEN UNKNOWN
    ELSE LET tail == text[Max(places)] IN
         IF tail.label # UNKNOWN \/ mode # "loose" THEN tail.label
         ELSE LastLabel(text, Closing(text, places))
ParseLabel(text, places, mode) ==
    IF places = {} THEN UNKNOWN
    ELSE LET tail == text[Max(places)] IN
         IF tail.how = "alone" THEN tail.label
         ELSE IF mode = "exact" THEN UNKNOWN
         ELSE IF tail.label # UNKNOWN \/ mode = "tail" THEN tail.label
         ELSE LastLabel(text, Closing(text, places))

(* _conclusion_label: the last declared verdict, wherever it stands.       *)
Conclusion(text) == LastLabel(text, {i \in DOMAIN text : text[i].how = "declared"})

(* _extract_verdict: the first of these that finds a label.                *)
Tries(m) ==
    LET strict == IF m.cut THEN "exact" ELSE "tail"
        parsed(text, mode) == ParseLabel(text, Visible(text), mode)
        loose(text) == IF m.cut THEN UNKNOWN ELSE parsed(text, "loose")
    IN  << [label |-> parsed(m.content, strict), source |-> "answer"],
           [label |-> parsed(m.reasoning, strict), source |-> "reasoning"],
           [label |-> Conclusion(m.content), source |-> "conclusion"],
           [label |-> Conclusion(m.reasoning), source |-> "conclusion"],
           [label |-> loose(m.content), source |-> "loose"],
           [label |-> loose(m.reasoning), source |-> "loose"] >>
Extract(m) ==
    LET hits == {k \in DOMAIN Tries(m) : Tries(m)[k].label # UNKNOWN}
    IN  IF hits = {} THEN [label |-> UNKNOWN, source |-> "none"] ELSE Tries(m)[Min(hits)]

===============================================================================
