----------------------------- MODULE MCEvaluate -----------------------------
(* Model-checking instance of Evaluate: three families of documents, one   *)
(* for each metric, and the inputs the handler refuses.                    *)
EXTENDS Evaluate

CONSTANTS MaxTreeNodes

Node(type, txt, box, kids) == [type |-> type, text |-> txt, box |-> box, children |-> kids]

\* All trees of n nodes over two labels.
RECURSIVE ForestsOf(_)
ForestsOf(n) ==
  IF n = 0 THEN {<<>>}
  ELSE UNION {{<<Node(l, <<>>, NoBox, kids)>> \o rest :
                 l \in {"p", "q"}, kids \in ForestsOf(k - 1), rest \in ForestsOf(n - k)} :
              k \in 1..n}

Trees == {NoTree} \union {f[1] : f \in {g \in UNION {ForestsOf(n) : n \in 1..MaxTreeNodes} : Len(g) = 1}}

\* Pages of text: a heading and up to two blocks.
Pieces == {<<"x">>, <<"x", "virama">>, <<"mark">>, <<"x", "mark">>, <<"x", "space">>, <<"zwj", "x">>}

Texts ==
  {Node("p", head, NoBox, [i \in DOMAIN blocks |-> Node("q", blocks[i], NoBox, <<>>)]) :
     head \in {<<>>, <<"x">>}, blocks \in SeqOf(Pieces, 2)}

\* Pages of boxes: disjoint, touching, nested, equal, empty, inverted and misshapen ones.
Rects ==
  {[x |-> 0, y |-> 0, w |-> 2, h |-> 2], [x |-> 1, y |-> 0, w |-> 2, h |-> 2],
   [x |-> 1, y |-> 1, w |-> 1, h |-> 1], [x |-> 0, y |-> 1, w |-> 3, h |-> 1],
   [x |-> 3, y |-> 3, w |-> 1, h |-> 2], [x |-> 1, y |-> 1, w |-> 0, h |-> 2],
   [x |-> 2, y |-> 2, w |-> -1, h |-> 1], NotABox}

Pages ==
  {Node("p", <<>>, NoBox, [i \in DOMAIN bs |-> Node("q", <<>>, bs[i], <<>>)]) :
     bs \in SeqOf(Rects, 2)}

Chain5 == CHOOSE t \in {f[1] : f \in ForestsOf(5)} : Len(Preorder(t)) = 5

Odd == {Node(NoType, <<>>, NoBox, <<>>), Chain5}

Pair(S, T) == {[predicted |-> s, truth |-> t] : s \in S, t \in T}

MCRequests ==
  Pair(Trees, Trees) \union Pair(Texts, Texts) \union Pair(Pages, Pages)
  \union Pair(Odd, Trees) \union Pair(Trees, Odd)
=============================================================================
