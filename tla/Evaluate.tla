------------------------------ MODULE Evaluate ------------------------------
(***************************************************************************)
(* One POST /evaluate (app/api/evaluate.py): parse both documents, bound   *)
(* the work of comparing them, then score text, boxes and structure.  A    *)
(* step is a stage of the handler; the structure metric takes one step for *)
(* each pass over a pair of keyroots.                                      *)
(***************************************************************************)
EXTENDS TreeEdit, TextScore, BoxMatch

CONSTANTS Requests,      \* pairs of documents, predicted and truth
          NoType, NoBox, \* a node without a type, or without a bounding box
          NotABox,       \* a bbox that is neither a mapping nor a sequence
          Unit,          \* cer_unit
          MAX_NODES,     \* eval_max_nodes
          MAX_TED_WORK   \* eval_max_ted_work

VARIABLES req, pc, status,   \* the request, the stage, and the HTTP status
          a, b,              \* the parsed trees, predicted and truth
          tables, todo,      \* the tables of the passes, and the passes to come
          distance, text, boxes

vars == <<req, pc, status, a, b, tables, todo, distance, text, boxes>>

\* Pre-order: the texts joined by newlines, and the boxes.
RECURSIVE Preorder(_)
Preorder(node) ==
  <<node>> \o FoldLeft(LAMBDA acc, kid : acc \o Preorder(kid), <<>>, node.children)

Nodes(root) == IF root = NoTree THEN <<>> ELSE Preorder(root)

CollectText(root) ==
  LET parts == SelectSeq(Nodes(root), LAMBDA node : node.text # <<>>)
  IN FoldLeft(LAMBDA acc, node : IF acc = <<>> THEN node.text
                                 ELSE acc \o <<"newline">> \o node.text, <<>>, parts)

CollectBoxes(root) ==
  LET found == SelectSeq(Nodes(root), LAMBDA node : node.box # NoBox)
  IN [i \in DOMAIN found |-> found[i].box]

\* A node without its label is an error, not a default.
Malformed(root) == \E node \in Range(Nodes(root)) : node.type = NoType

Empty == parse_tree(NoTree)

Init ==
  /\ req \in Requests /\ pc = "parse" /\ status = 0
  /\ a = Empty /\ b = Empty /\ tables = NoTables(Empty, Empty) /\ todo = <<>>
  /\ distance = 0 /\ text = <<>> /\ boxes = <<>>

Reject(code) ==
  /\ pc' = "done" /\ status' = code
  /\ UNCHANGED <<req, tables, todo, distance, text, boxes>>

\* _parse of one side: 422 for a malformed tree, 413 for one that is too big
Refusal(root) ==
  IF Malformed(root) THEN 422
  ELSE IF Size(parse_tree(root)) > MAX_NODES THEN 413 ELSE 0

\* The predicted side is parsed first, so its refusal is the one returned.
Parse ==
  /\ pc = "parse"
  /\ LET first == Refusal(req.predicted)
         code == IF first # 0 THEN first ELSE Refusal(req.truth)
     IN \/ /\ code # 0 /\ Reject(code) /\ UNCHANGED <<a, b>>
        \/ /\ code = 0 /\ pc' = "gate"
           /\ a' = parse_tree(req.predicted) /\ b' = parse_tree(req.truth)
           /\ UNCHANGED <<req, status, tables, todo, distance, text, boxes>>

Work == KeyrootWeight(a) * KeyrootWeight(b)

\* Mutant: the work is bounded by the sizes of the trees.
GateOnSize ==
  /\ pc = "gate"
  /\ \/ /\ Size(a) * Size(b) > MAX_TED_WORK /\ Reject(413) /\ UNCHANGED <<a, b>>
     \/ /\ Size(a) * Size(b) <= MAX_TED_WORK /\ pc' = "text"
        /\ UNCHANGED <<req, status, a, b, tables, todo, distance, text, boxes>>

\* Refuse what would cost too much, before any of it is spent.
Gate ==
  /\ pc = "gate"
  /\ \/ /\ Work > MAX_TED_WORK /\ Reject(413) /\ UNCHANGED <<a, b>>
     \/ /\ Work <= MAX_TED_WORK /\ pc' = "text"
        /\ UNCHANGED <<req, status, a, b, tables, todo, distance, text, boxes>>

ScoreText ==
  /\ pc = "text" /\ pc' = "boxes"
  /\ LET truth == CollectText(req.truth)
         predicted == CollectText(req.predicted)
     IN text' = [cer |-> cer_score(truth, predicted, Unit),
                 wer |-> wer_score(truth, predicted)]
  /\ UNCHANGED <<req, status, a, b, tables, todo, distance, boxes>>

\* The first pass is for the first keyroot of each, the last for both roots.
Passes ==
  [k \in 1..(Len(a.keyroots) * Len(b.keyroots)) |->
     <<a.keyroots[((k - 1) \div Len(b.keyroots)) + 1],
       b.keyroots[((k - 1) % Len(b.keyroots)) + 1]>>]

\* The first bad box decides: a ValueError becomes 422, a TypeError escapes.
ScoreBoxes ==
  /\ pc = "boxes"
  /\ LET predicted == CollectBoxes(req.predicted)
         truth == CollectBoxes(req.truth)
         bad == SelectSeq(predicted \o truth, LAMBDA x : x = NotABox \/ ~IsBox(x))
     IN \/ /\ bad # <<>> /\ UNCHANGED <<a, b>>
           /\ Reject(IF Head(bad) = NotABox THEN 500 ELSE 422)
        \/ /\ bad = <<>>
           /\ pc' = "ted" /\ boxes' = score_boxes(predicted, truth)
           /\ tables' = NoTables(a, b) /\ todo' = Passes
           /\ UNCHANGED <<req, status, a, b, distance, text>>

TedPass ==
  /\ pc = "ted" /\ todo # <<>>
  /\ tables' = Pass(tables, a, b, Head(todo)[1], Head(todo)[2])
  /\ todo' = Tail(todo)
  /\ UNCHANGED <<req, pc, status, a, b, distance, text, boxes>>

\* An empty side costs the nodes of the other.
Respond ==
  /\ pc = "ted" /\ todo = <<>>
  /\ distance' = IF Size(a) = 0 THEN Size(b)
                 ELSE IF Size(b) = 0 THEN Size(a) ELSE tables.tree[<<Size(a), Size(b)>>]
  /\ pc' = "done" /\ status' = 200
  /\ UNCHANGED <<req, a, b, tables, todo, text, boxes>>

Next == Parse \/ Gate \/ ScoreText \/ ScoreBoxes \/ TedPass \/ Respond

Spec == Init /\ [][Next]_vars

-----------------------------------------------------------------------------
\* The keyroot whose pass computes a node: the one with the same leftmost leaf.
KeyrootOf(t, i) == CHOOSE k \in Range(t.keyroots) : t.nodes[k].left = t.nodes[i].left

Settled ==
  {c \in DOMAIN tables.tree : <<KeyrootOf(a, c[1]), KeyrootOf(b, c[2])>> \notin Range(todo)}

\* Whatever earlier passes left in the shared forest table, every subtree
\* distance a pass has stored is the edit distance of the two subtrees ("no pass
\* can observe another's leftovers"), and so is the distance returned.
StructureExact ==
  /\ pc = "ted" => \A c \in Settled :
       tables.tree[c] = ForestDistance(<<Subtrees(AsForest(req.predicted))[c[1]]>>,
                                       <<Subtrees(AsForest(req.truth))[c[2]]>>)
  /\ status = 200 =>
       distance = ForestDistance(AsForest(req.predicted), AsForest(req.truth))

\* The bound checked before the passes is the work they do: an accepted request
\* never computes more cells than eval_max_ted_work, and exactly W(T1) x W(T2).
WorkIsBounded ==
  /\ tables.cells <= MAX_TED_WORK
  /\ status = 200 => tables.cells = Work

\* The error counts are edit distances, whichever side is longer or empty, and a
\* perfect character score means the same text, node boundaries included: the
\* order and the separation of blocks is part of what is scored.
TextExact ==
  pc \in {"boxes", "ted"} =>
    LET t == CollectText(req.truth)
        p == CollectText(req.predicted)
        parts(root) == SelectSeq([i \in DOMAIN Nodes(root) |-> Nodes(root)[i].text],
                                 LAMBDA x : x # <<>>)
    IN /\ text.wer.errors = EditDistance(words(t), words(p))
       /\ text.cer.errors = IF Unit = "grapheme"
                            THEN EditDistance(graphemes(t), graphemes(p))
                            ELSE EditDistance(t, p)
       /\ text.cer.errors = 0 <=> parts(req.truth) = parts(req.predicted)

\* The boxes are scored as the squares they cover say: iou is shared area over
\* covered area for every pair, touching, nested, disjoint or degenerate; the
\* matching is one to one and leaves no overlapping pair out unless one of the
\* two has a match at least as good; and precision and recall agree about how
\* many boxes exist (iou, match_boxes, score_boxes).
BoxesScored ==
  pc = "ted" =>
    LET p == CollectBoxes(req.predicted)
        t == CollectBoxes(req.truth)
        M == match_boxes(p, t)
        covered(x, y) == Cardinality(Squares(x) \union Squares(y))
        shared(x, y) == Cardinality(Squares(x) \intersect Squares(y))
    IN /\ \A x \in Range(p), y \in Range(t) :
            iou(x, y).num * covered(x, y) = iou(x, y).den * shared(x, y)
       /\ \A m, n \in M : m.i = n.i \/ m.j = n.j => m = n
       /\ \A c \in Candidates(p, t) :
            \E m \in M : (m.i = c.i \/ m.j = c.j) /\ ~Less(m.iou, c.iou)
       /\ boxes.true_positives + boxes.false_positives = Len(p)
       /\ boxes.true_positives + boxes.false_negatives = Len(t)
       /\ boxes.truth_count = Len(t)
=============================================================================
