------------------------------ MODULE BoxMatch ------------------------------
(***************************************************************************)
(* The box metrics of /evaluate (app/eval/iou.py), on whole coordinates.   *)
(* An IoU is a fraction, compared by cross-multiplication.                 *)
(***************************************************************************)
EXTENDS Integers, Sequences, FiniteSets, FiniteSetsExt

IsBox(b) == b.w >= 0 /\ b.h >= 0

Overlap(lo1, len1, lo2, len2) ==
  Max({0, Min({lo1 + len1, lo2 + len2}) - Max({lo1, lo2})})

iou(a, b) ==
  LET inter == Overlap(a.x, a.w, b.x, b.w) * Overlap(a.y, a.h, b.y, b.h)
      union == a.w * a.h + b.w * b.h - inter
  IN IF union <= 0 THEN [num |-> 0, den |-> 1] ELSE [num |-> inter, den |-> union]

Less(p, q) == p.num * q.den < q.num * p.den

\* The order candidates are tried in: best IoU, then indices.
Before(c, d) ==
  \/ Less(d.iou, c.iou)
  \/ /\ ~Less(c.iou, d.iou)
     /\ c.i < d.i \/ (c.i = d.i /\ c.j <= d.j)

Candidates(predicted, truth) ==
  {c \in {[i |-> i, j |-> j, iou |-> iou(predicted[i], truth[j])] :
            i \in DOMAIN predicted, j \in DOMAIN truth} : c.iou.num > 0}

\* Mutant: candidates are tried in the order of their indices.
RECURSIVE GreedyByIndex(_)
GreedyByIndex(C) ==
  IF C = {} THEN {}
  ELSE LET best == CHOOSE c \in C : \A d \in C : c.i < d.i \/ (c.i = d.i /\ c.j <= d.j)
       IN {best} \union GreedyByIndex({c \in C : c.i # best.i /\ c.j # best.j})

\* Take the best candidate, drop those that share a box with it, and go on.
RECURSIVE Greedy(_)
Greedy(C) ==
  IF C = {} THEN {}
  ELSE LET best == CHOOSE c \in C : \A d \in C : Before(c, d)
       IN {best} \union Greedy({c \in C : c.i # best.i /\ c.j # best.j})

match_boxes(predicted, truth) == Greedy(Candidates(predicted, truth))

\* At least half of their union shared: the default threshold.
Strong(m) == 2 * m.iou.num >= m.iou.den

\* A match below the threshold is both a wrong box and a missed one.
score_boxes(predicted, truth) ==
  LET matches == match_boxes(predicted, truth)
      tp == Cardinality({m \in matches : Strong(m)})
      weak == Cardinality(matches) - tp
      free(n, taken) == n - Cardinality(taken)
  IN [true_positives  |-> tp,
      false_positives |-> free(Len(predicted), {m.i : m \in matches}) + weak,
      false_negatives |-> free(Len(truth), {m.j : m \in matches}) + weak,
      matched_count   |-> Cardinality(matches),
      truth_count     |-> Cardinality(matches) + free(Len(truth), {m.j : m \in matches})]

-----------------------------------------------------------------------------
(* Reference: the unit squares a box covers.                               *)
Squares(b) == (b.x..(b.x + b.w - 1)) \X (b.y..(b.y + b.h - 1))
=============================================================================
