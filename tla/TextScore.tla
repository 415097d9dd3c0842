------------------------------ MODULE TextScore ------------------------------
(***************************************************************************)
(* The text metrics of /evaluate (app/eval/text.py).  A text is a sequence *)
(* of code points of which only the class matters to segmentation: a mark, *)
(* a virama (a mark that joins what follows), a joiner, a non-joiner,      *)
(* white space, or anything else, which stands alone.                      *)
(***************************************************************************)
EXTENDS Integers, Sequences, SequencesExt, FiniteSetsExt

IsMark(ch) == ch \in {"mark", "virama"}
IsSpace(ch) == ch \in {"space", "newline"}
joins_following(ch) == ch \in {"zwj", "virama"}

\* User-perceived characters.
graphemes(text) ==
  FoldLeft(LAMBDA cs, ch :
             IF cs # <<>> /\ (\/ joins_following(Last(Last(cs)))
                              \/ ch \in {"zwj", "zwnj"} \/ IsMark(ch))
             THEN Append(Front(cs), Append(Last(cs), ch))
             ELSE Append(cs, <<ch>>),
           <<>>, text)

\* text.split(): maximal runs without white space
words(text) ==
  SelectSeq(FoldLeft(LAMBDA ws, ch : IF IsSpace(ch) THEN Append(ws, <<>>)
                                     ELSE Append(Front(ws), Append(Last(ws), ch)),
                     << <<>> >>, text),
            LAMBDA w : w # <<>>)

\* The row of ref_unit under the row before it.
Row(previous, i, unit, short) ==
  LET current[j \in 0..Len(short)] ==
        IF j = 0 THEN i
        ELSE Min({previous[j] + 1, current[j - 1] + 1,
                  previous[j - 1] + (IF unit # short[j] THEN 1 ELSE 0)})
  IN current

\* Mutant: the sides are not swapped and the row is that of the longer one cut
\* to the shorter.
levenshteinUnswapped(reference, hypothesis) ==
  LET n == Min({Len(reference), Len(hypothesis)})
      rows[i \in 0..Len(reference)] ==
        IF i = 0 THEN [j \in 0..n |-> j]
        ELSE Row(rows[i - 1], i, reference[i], SubSeq(hypothesis, 1, n))
  IN rows[Len(reference)][n]

\* One row is kept, that of the shorter side.
levenshtein(reference, hypothesis) ==
  LET swap == Len(reference) < Len(hypothesis)
      long == IF swap THEN hypothesis ELSE reference
      short == IF swap THEN reference ELSE hypothesis
      rows[i \in 0..Len(long)] ==
        IF i = 0 THEN [j \in 0..Len(short) |-> j]
        ELSE Row(rows[i - 1], i, long[i], short)
  IN IF short = <<>> THEN Len(long) ELSE rows[Len(long)][Len(short)]

Score(ref, hyp) == [errors |-> levenshtein(ref, hyp), length |-> Len(ref)]

cer_score(reference, hypothesis, unit) ==
  IF unit = "grapheme" THEN Score(graphemes(reference), graphemes(hypothesis))
  ELSE Score(reference, hypothesis)

wer_score(reference, hypothesis) == Score(words(reference), words(hypothesis))

-----------------------------------------------------------------------------
(* Reference: the cheapest way to consume both sequences from the front.   *)
RECURSIVE EditDistance(_, _)
EditDistance(s, t) ==
  IF s = <<>> \/ t = <<>> THEN Len(s) + Len(t)
  ELSE IF Head(s) = Head(t) THEN EditDistance(Tail(s), Tail(t))
  ELSE 1 + Min({EditDistance(Tail(s), t), EditDistance(s, Tail(t)),
                EditDistance(Tail(s), Tail(t))})
=============================================================================
