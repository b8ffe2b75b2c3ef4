------------------------------ MODULE EventStream ------------------------------
(***************************************************************************)
(* What the event layer of yarutsk promises to its consumer.               *)
(*                                                                         *)
(* The parser (src/core/parser.rs) hands the builder one event per call of *)
(* next_token.  This module says which sequences of events a consumer may  *)
(* see: one StreamStart, then documents, each with exactly one root node,  *)
(* containers closed in the order they were opened, a mapping holding      *)
(* whole key/value pairs, then StreamEnd for ever.                         *)
(*                                                                         *)
(* `nest' is the path of open constructs: "root" (a document whose root    *)
(* node is not complete), "done" (a document whose root is complete),      *)
(* "seq" (an open sequence), "key" and "val" (an open mapping whose next   *)
(* node is a key, a value).                                                *)
(***************************************************************************)
EXTENDS Naturals, Sequences

VARIABLES
  phase,   \* "start", "open", "ended", or "failed" once a call returned Err
  nest,    \* the open constructs, outermost first
  event    \* the event the last call returned

esVars == <<phase, nest, event>>

Top == nest[Len(nest)]

Outer == SubSeq(nest, 1, Len(nest) - 1)

\* The path p after the node that was awaited at its end is complete.
Completed(p) ==
  LET top == p[Len(p)]
  IN  [p EXCEPT ![Len(p)] = CASE top = "root" -> "done"
                              [] top = "seq"  -> "seq"
                              [] top = "key"  -> "val"
                              [] top = "val"  -> "key"]

AwaitsNode == phase = "open" /\ nest # <<>> /\ Top \in {"root", "seq", "key", "val"}

StreamStart ==
  /\ phase = "start"
  /\ phase' = "open" /\ event' = "StreamStart"
  /\ UNCHANGED nest

DocumentStart ==
  /\ phase = "open" /\ nest = <<>>
  /\ nest' = <<"root">> /\ event' = "DocumentStart"
  /\ UNCHANGED phase

\* A scalar or an alias: a node that is complete at once.
Leaf ==
  /\ AwaitsNode
  /\ nest' = Completed(nest)
  /\ event' \in {"Scalar", "Alias"}
  /\ UNCHANGED phase

SequenceStart ==
  /\ AwaitsNode
  /\ nest' = Append(nest, "seq") /\ event' = "SequenceStart"
  /\ UNCHANGED phase

MappingStart ==
  /\ AwaitsNode
  /\ nest' = Append(nest, "key") /\ event' = "MappingStart"
  /\ UNCHANGED phase

SequenceEnd ==
  /\ AwaitsNode /\ Top = "seq"
  /\ nest' = Completed(Outer) /\ event' = "SequenceEnd"
  /\ UNCHANGED phase

\* A mapping closes only between two entries.
MappingEnd ==
  /\ AwaitsNode /\ Top = "key"
  /\ nest' = Completed(Outer) /\ event' = "MappingEnd"
  /\ UNCHANGED phase

DocumentEnd ==
  /\ phase = "open" /\ nest = <<"done">>
  /\ nest' = <<>> /\ event' = "DocumentEnd"
  /\ UNCHANGED phase

StreamEnd ==
  /\ phase \in {"open", "ended"} /\ nest = <<>>
  /\ phase' = "ended" /\ event' = "StreamEnd"
  /\ UNCHANGED nest

\* The call returned Err; what a later call returns is not promised.
Fail ==
  /\ phase # "failed"
  /\ phase' = "failed" /\ nest' = <<>> /\ event' = "Error"

ESInit == phase = "start" /\ nest = <<>> /\ event = "Nothing"

ESNext ==
  \/ StreamStart \/ DocumentStart \/ Leaf \/ SequenceStart \/ MappingStart
  \/ SequenceEnd \/ MappingEnd \/ DocumentEnd \/ StreamEnd \/ Fail

ESSpec == ESInit /\ [][ESNext]_esVars
================================================================================
