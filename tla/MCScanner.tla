------------------------------- MODULE MCScanner -------------------------------
(***************************************************************************)
(* Texts for Scanner: all words in short texts, and longer texts of the    *)
(* words that belong together.                                             *)
(***************************************************************************)
EXTENDS Scanner

Text(words, size, lines, cols) ==
  [words |-> words, size |-> size, lines |-> lines, cols |-> cols]

MCTexts ==
  {Text(Words, 2, 3, {0, 1, 2}),
   Text(FlowWords \cup {":", "plain"}, 5, 1, {0}),
   Text({"[", "]", ",", ":", "plain"}, 6, 1, {0}),
   Text({"[", "]", ",", ":", "plain", "quoted", "glued"}, 4, 2, {0}),
   Text({"-", "?", ":", "plain"}, 5, 3, {0, 1}),
   Text({"[", "]", "?", ":", "plain", "quoted", "block", "-"}, 4, 2, {0, 1}),
   Text({"---", "...", "%", "plain", ":", "-"}, 4, 3, {0}),
   Text({"anchor", "tag", "alias", "plain", ":", "-"}, 4, 2, {0, 1})}

\* A pair in a flow sequence whose value is a flow sequence.
MCPairs == {Text({"[", "]", ":", "plain"}, 7, 1, {0})}
================================================================================
