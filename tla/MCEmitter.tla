------------------------------- MODULE MCEmitter -------------------------------
(***************************************************************************)
(* Documents for Emitter.                                                  *)
(***************************************************************************)
EXTENDS Emitter

Setting(forms, nodes, width, docs, step, names) ==
  [forms |-> forms, nodes |-> nodes, width |-> width, docs |-> docs, step |-> step,
   names |-> names]

Shapes == {"mapping", "sequence"}

MCSettings ==
  {Setting(Shapes, 6, 2, 1, 2, {}),
   Setting(Shapes \cup {"flow"}, 4, 2, 1, 2, {}),
   Setting(Shapes \cup {"comment", "flow"}, 3, 2, 1, 2, {}),
   Setting(Shapes \cup {"node key", "flow"}, 4, 2, 1, 2, {}),
   Setting(Shapes \cup {"block", "null", "flow", "node key", "long key", "block key", "comment"},
           2, 1, 1, 2, {}),
   Setting({"mapping", "node key", "flow"}, 3, 2, 1, 2, {"x"}),
   Setting(Shapes \cup {"flow", "block"}, 3, 2, 1, 2, {"x"}),
   Setting({"mapping"}, 4, 3, 1, 2, {"x"}),
   Setting(Shapes, 3, 2, 1, 2, {"x", "y"}),
   Setting({"sequence", "comment", "block", "null", "marks"}, 2, 1, 2, 2, {"x"})}

\* The same with four columns a level.
MCWide == {Setting(Shapes, 4, 2, 1, 4, {})}

\* Collections with anchors as keys.
MCKeys == {Setting({"mapping", "sequence", "node key", "anchored key"}, 4, 2, 1, 2, {"x"})}
================================================================================
