------------------------------ MODULE TreeEdit ------------------------------
(***************************************************************************)
(* The structure metric of /evaluate (app/eval/ted.py): a document tree    *)
(* flattened into postorder arrays, and the passes of Zhang and Shasha     *)
(* over pairs of keyroots.  All passes share one forest table, whose cells *)
(* keep what earlier passes left in them.                                  *)
(*                                                                         *)
(* A node is a record with at least a type and its children; NoTree is the *)
(* empty document.                                                         *)
(***************************************************************************)
EXTENDS Integers, Sequences, SequencesExt, FiniteSetsExt

CONSTANT NoTree

Min3(a, b, c) == Min({a, b, c})

\* Postorder, each node with the index of its leftmost leaf: the next index
\* to be given out when the node is first met.
RECURSIVE Postorder(_, _)
Postorder(node, start) ==
  LET under == FoldLeft(LAMBDA acc, kid : acc \o Postorder(kid, start + Len(acc)),
                        <<>>, node.children)
  IN Append(under, [label |-> node.type, left |-> start])

RECURSIVE Depth(_)
Depth(node) == 1 + Max({0} \union {Depth(node.children[i]) : i \in DOMAIN node.children})

\* Ascending; k is a keyroot unless a later node has the same leftmost leaf.
Keyroots(nodes) ==
  SelectSeq([i \in DOMAIN nodes |-> i],
            LAMBDA k : \A later \in (k + 1)..Len(nodes) : nodes[later].left # nodes[k].left)

parse_tree(root) ==
  LET nodes == IF root = NoTree THEN <<>> ELSE Postorder(root, 1)
  IN [nodes |-> nodes, keyroots |-> Keyroots(nodes),
      depth |-> IF root = NoTree THEN 0 ELSE Depth(root)]

Size(t) == Len(t.nodes)

\* keyroot_weight: the nodes of the subtrees of all keyroots
KeyrootWeight(t) ==
  FoldLeft(LAMBDA acc, k : acc + k - t.nodes[k].left + 1, 0, t.keyroots)

\* Both tables, and the number of cells computed so far.
NoTables(a, b) ==
  [forest |-> [c \in (0..Size(a)) \X (0..Size(b)) |-> 0],
   tree   |-> [c \in (1..Size(a)) \X (1..Size(b)) |-> 0],
   cells  |-> 0]

\* Mutant: the last cell of each border is left to an earlier pass.
BaseCasesOnce(t, rows, cols) ==
  [t EXCEPT !.forest = [c \in DOMAIN @ |->
     IF @[c] # 0 THEN @[c]
     ELSE IF c[2] = 0 /\ c[1] < rows THEN c[1]
     ELSE IF c[1] = 0 /\ c[2] < cols THEN c[2] ELSE @[c]]]

\* Emptying one forest into the other.
BaseCases(t, rows, cols) ==
  [t EXCEPT !.forest = [c \in DOMAIN @ |->
     IF c[2] = 0 /\ c[1] <= rows THEN c[1]
     ELSE IF c[1] = 0 /\ c[2] <= cols THEN c[2] ELSE @[c]]]

\* One cell: whole trees on both sides are compared node by node, anything
\* else by matching the two rightmost subtrees whole.
Cell(t, a, b, ra, rb, i, j) ==
  LET spineA == a.nodes[ra].left
      spineB == b.nodes[rb].left
      x == a.nodes[i + spineA - 1]
      y == b.nodes[j + spineB - 1]
      here == <<i + spineA - 1, j + spineB - 1>>
      whole == x.left = spineA /\ y.left = spineB
      delete == t.forest[<<i - 1, j>>] + 1
      insert == t.forest[<<i, j - 1>>] + 1
      relabel == t.forest[<<i - 1, j - 1>>] + (IF x.label = y.label THEN 0 ELSE 1)
      detached == t.forest[<<x.left - spineA, y.left - spineB>>] + t.tree[here]
      value == Min3(delete, insert, IF whole THEN relabel ELSE detached)
  IN [forest |-> [t.forest EXCEPT ![<<i, j>>] = value],
      tree   |-> IF whole THEN [t.tree EXCEPT ![here] = value] ELSE t.tree,
      cells  |-> t.cells + 1]

\* The pass for one pair of keyroots, row by row.
Pass(t, a, b, ra, rb) ==
  LET rows == ra - a.nodes[ra].left + 1
      cols == rb - b.nodes[rb].left + 1
  IN FoldLeft(LAMBDA acc, k : Cell(acc, a, b, ra, rb, (k \div cols) + 1, (k % cols) + 1),
              BaseCases(t, rows, cols),
              [k \in 1..(rows * cols) |-> k - 1])

-----------------------------------------------------------------------------
(* Reference: the edit distance of two forests by their rightmost roots.   *)

RECURSIVE Count(_)
Count(f) == FoldLeft(LAMBDA acc, node : acc + 1 + Count(node.children), 0, f)

RECURSIVE ForestDistance(_, _)
ForestDistance(f, g) ==
  IF f = <<>> \/ g = <<>> THEN Count(f) + Count(g)
  ELSE LET v == Last(f)
           w == Last(g)
       IN Min3(ForestDistance(Front(f) \o v.children, g) + 1,
               ForestDistance(f, Front(g) \o w.children) + 1,
               ForestDistance(v.children, w.children) + ForestDistance(Front(f), Front(g))
                 + (IF v.type = w.type THEN 0 ELSE 1))

AsForest(root) == IF root = NoTree THEN <<>> ELSE <<root>>

\* The subtrees of a document, in postorder.
RECURSIVE Subtrees(_)
Subtrees(f) == FoldLeft(LAMBDA acc, node : Append(acc \o Subtrees(node.children), node), <<>>, f)
=============================================================================
