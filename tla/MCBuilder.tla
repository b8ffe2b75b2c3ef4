------------------------------- MODULE MCBuilder -------------------------------
(***************************************************************************)
(* Texts for Builder: every form of node on two lines; block collections   *)
(* of scalars on four; mappings with repeated keys; streams; and a         *)
(* sequence with more blank lines than a node can record.                  *)
(***************************************************************************)
EXTENDS Builder

CONSTANTS anchor, k1, k2 \* an anchor name and the texts of two keys

MCTexts ==
  {[forms |-> AllForms, anchors |-> {anchor}, keys |-> {k1},
    lines |-> 2, nodes |-> 4, depth |-> 2, comments |-> 1, docs |-> 2],
   [forms |-> {"plain", "quoted", "block"}, anchors |-> {}, keys |-> {k1, k2},
    lines |-> 4, nodes |-> 4, depth |-> 2, comments |-> 2, docs |-> 1],
   [forms |-> {"plain", "quoted", "duplicate"}, anchors |-> {}, keys |-> {k1, k2},
    lines |-> 4, nodes |-> 4, depth |-> 1, comments |-> 3, docs |-> 1],
   [forms |-> {"plain", "quoted", "block"}, anchors |-> {}, keys |-> {k1},
    lines |-> 4, nodes |-> 4, depth |-> 1, comments |-> 3, docs |-> 2],
   [forms |-> {"plain"}, anchors |-> {}, keys |-> {},
    lines |-> 6, nodes |-> 3, depth |-> 1, comments |-> 1, docs |-> 1]}

\* A document and a comment below it.
MCTail ==
  {[forms |-> {"plain"}, anchors |-> {}, keys |-> {k1, k2},
    lines |-> 4, nodes |-> 2, depth |-> 2, comments |-> 1, docs |-> 1]}
================================================================================
