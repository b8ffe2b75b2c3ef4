-------------------------------- MODULE Emitter --------------------------------
(***************************************************************************)
(* Writing documents (src/core/emitter.rs): emit_docs_to lowers them into  *)
(* arenas and ArenaEmitter::run writes each with a stack of operations;    *)
(* one action is one arm of its loop.                                      *)
(*                                                                         *)
(* The text is a sequence of lines, a line a sequence of pieces with their *)
(* widths.  A scalar, a name or a tag is one piece; tags are written with  *)
(* anchors and left out, as are blank lines and the choice of quotes.      *)
(***************************************************************************)
EXTENDS Arena

VARIABLES
  writing, \* the number of the document being written, 0 while documents are lowered
  ops,     \* the locals of run: the operations still to be done
  out      \* the text

vars == <<avars, writing, ops, out>>

(***************************************************************************)
(* Pieces of text.  of says which node or key a piece belongs to: for the  *)
(* indicator or the key that begins an entry, the collection it is in.     *)
(***************************************************************************)
Piece(t, width, of) == [t |-> t, width |-> width, of |-> of]

Put(text, piece) == [text EXCEPT ![Len(text)] = Append(@, piece)]

Write(text, t, width) == Put(text, Piece(t, width, 0))

NewLine(text) == Append(text, <<>>)

Indent(text, n) == IF n = 0 THEN text ELSE Write(text, "indent", n)

\* push_inline_comment
InlineComment(text, node) ==
  IF node.inline THEN Put(text, Piece("inline", 1, node.from)) ELSE text

\* finish_inline_line
FinishLine(text, node) == NewLine(InlineComment(text, node))

\* emit_comment_before
CommentBefore(text, node, indent) ==
  IF node.before THEN NewLine(Put(Indent(text, indent), Piece("before", 1, node.from))) ELSE text

Anchor(text, name) == IF name = None THEN text ELSE Put(text, Piece("&", 3, name))

Alias(text, name, from) == Put(Put(text, Piece("*", 2, name)), Piece("alias", 0, from))

(***************************************************************************)
(* The arena.                                                              *)
(***************************************************************************)
Arena == arenas[writing]

At(id) == Arena.nodes[id]

IsCollection(node) == node.kind \in {"mapping", "sequence"}

IsBlock(node) == IsCollection(node) /\ ~node.flow

HasNodeKey(node) ==
  node.kind = "mapping" /\ \E i \in DOMAIN node.parts : node.parts[i].form = "node"

\* emit_block_scalar: its header, and a line of content; a header without a node belongs
\* to a key.
BlockText(text, anchor, from, inline, indent) ==
  LET header == Put(Anchor(text, anchor), Piece("header", 1, from))
      line == NewLine(IF inline THEN Put(header, Piece("inline", 1, from)) ELSE header)
  IN  NewLine(Put(Indent(line, indent), Piece("text", 1, from)))

\* emit_scalar; at the margin the content of a block scalar is indented.
Scalar(text, node, indent, inline) ==
  IF node.kind = "block"
  THEN BlockText(text, node.anchor, node.from, inline,
                 IF indent = 0 THEN setting.step ELSE indent)
  ELSE Put(Anchor(text, node.anchor), Piece(node.kind, IF node.kind = "null" THEN 0 ELSE 1, node.from))

Op(op, id, index, indent) == [op |-> op, id |-> id, index |-> index, indent |-> indent]

\* ArenaOp::Write, of a bracket that closes or of the colon behind a key.
Close(bracket) == Op(bracket, 0, 0, 0)

\* What emit_inline_to_temp writes ends without its last line break.
Strip == Op("strip", 0, 0, 0)

Colon(indent) == Op("colon", 0, 0, indent)

(***************************************************************************)
(* Keys.                                                                   *)
(***************************************************************************)
\* emit_key: the key of the entry of a block mapping, with its colon.
Key(text, key, of, indent) ==
  LET Entry(t) == Put(text, Piece(t, 2, of))
      Name(s) == Put(Anchor(s, key.anchor), Piece("key", 1, key.from))
      OnNextLine(s) == Write(Indent(s, indent), ":", 1)
  IN  IF key.alias # None THEN OnNextLine(NewLine(Alias(Entry("?"), key.alias, key.from)))
      ELSE CASE key.form = "node" -> Entry("?")
             [] key.form = "block" ->
                  OnNextLine(BlockText(Entry("?"), key.anchor, key.from, FALSE,
                                       indent + setting.step))
             [] key.form = "long" -> OnNextLine(NewLine(Name(Entry("?"))))
             [] key.form = "plain" -> Write(Name(Put(text, Piece("entry", 0, of))), ":", 1)

\* The key of the entry of a flow mapping.
FlowKey(text, key) ==
  IF key.alias # None THEN Alias(text, key.alias, key.from)
  ELSE Put(Anchor(IF key.form = "long" THEN Write(text, "?", 2) ELSE text, key.anchor),
           Piece("key", 1, key.from))

(***************************************************************************)
(* The arms of the loop of run.                                            *)
(***************************************************************************)
Now == Last(ops)

Doing(op) == ops # <<>> /\ Now.op = op

\* The operation is done: the text is now that, and these are done next, in this order.
Then(text, next) ==
  /\ out' = text /\ ops' = Front(ops) \o Reverse(next)
  /\ UNCHANGED <<avars, writing>>

DoWrite == \E b \in {"]", "}"} : Doing(b) /\ Then(Write(out, b, 1), <<>>)

DoFinishLine == Doing("FinishLine") /\ Then(FinishLine(out, At(Now.id)), <<>>)

DoStrip ==
  /\ Doing("strip")
  /\ Then(IF Last(out) = <<>> THEN Front(out) ELSE out, <<>>)

\* The line break and the colon behind a key that was a node.
DoColon ==
  /\ Doing("colon")
  /\ Then(Write(Indent(NewLine(out), Now.indent), ":", 1), <<>>)

DoFlowColon == Doing("flow colon") /\ Then(Write(out, ":", 2), <<>>)

DoNode ==
  /\ Doing("Node")
  /\ LET node == At(Now.id)
     IN  CASE node.kind = "mapping" -> Then(out, <<Op("Mapping", Now.id, 0, Now.indent)>>)
           [] node.kind = "sequence" -> Then(out, <<Op("Sequence", Now.id, 0, Now.indent)>>)
           [] node.kind = "alias" -> Then(Alias(out, node.name, node.from), <<>>)
           [] OTHER -> Then(Scalar(out, node, Now.indent, FALSE), <<>>)

DoNodeInline ==
  /\ Doing("NodeInline")
  /\ LET node == At(Now.id)
         whole == Op("Node", Now.id, 0, Now.indent)
     IN  IF node.kind = "block" \/ IsBlock(node) THEN Then(out, <<whole, Strip>>)
         ELSE Then(out, <<whole>>)

\* Mapping and Sequence: a whole collection, whose anchor has been written unless it is
\* the root.
Collection(kind, empty, flow, first) ==
  /\ Doing(kind)
  /\ LET node == At(Now.id)
         anchored == IF Now.indent = 0 /\ node.anchor # None THEN NewLine(Anchor(out, node.anchor))
                     ELSE out
     IN  IF node.flow THEN Then(out, <<Op(flow, Now.id, 1, 0)>>)
         ELSE IF node.parts = <<>>
         THEN Then(NewLine(Put(anchored, Piece(empty, 2, node.from))), <<>>)
         ELSE Then(anchored, <<Op(first, Now.id, 1, Now.indent)>>)

DoMapping == Collection("Mapping", "{}", "MappingFlow", "MappingEntry")
DoSequence == Collection("Sequence", "[]", "SequenceFlow", "SequenceItem")

\* An empty collection as a value or an item.
Empty(text, node) ==
  Put(Anchor(text, node.anchor), Piece(IF node.kind = "mapping" THEN "{}" ELSE "[]", 2, node.from))

Whole(node, id, indent) == Op(IF node.kind = "mapping" THEN "Mapping" ELSE "Sequence", id, 0, indent)

InFlow(node, id) ==
  Op(IF node.kind = "mapping" THEN "MappingFlow" ELSE "SequenceFlow", id, 1, 0)

MoreEntries == Now.index \in DOMAIN At(Now.id).parts

DoneWith(op) == Doing(op) /\ ~MoreEntries /\ Then(out, <<>>)

Again == [Now EXCEPT !.index = @ + 1]

ValueOp == [Now EXCEPT !.op = "MappingValue"]

\* The key may be a node: that is written whole before the colon.
DoMappingEntry ==
  \/ DoneWith("MappingEntry")
  \/ /\ Doing("MappingEntry") /\ MoreEntries
     /\ LET key == At(Now.id).parts[Now.index]
            start == Indent(CommentBefore(out, At(key.value), Now.indent), Now.indent)
            from == At(Now.id).from
        IN  IF key.form = "node"
            THEN Then(IF IsBlock(At(key.node)) THEN NewLine(Put(start, Piece("?", 2, from)))
                      ELSE Put(start, Piece("?", 2, from)),
                      <<Op("Node", key.node, 0, Now.indent + setting.step), Strip,
                        Colon(Now.indent), ValueOp, Again>>)
            ELSE Then(Key(start, key, from, Now.indent), <<ValueOp, Again>>)

DoMappingValue ==
  /\ Doing("MappingValue")
  /\ LET id == At(Now.id).parts[Now.index].value
         node == At(id)
         deeper == Now.indent + setting.step
         spaced == Write(out, " ", 1)
     IN  CASE IsCollection(node) /\ node.parts = <<>> ->
                Then(FinishLine(Empty(spaced, node), node), <<>>)
           [] IsCollection(node) /\ node.flow /\ node.parts # <<>> ->
                Then(spaced, <<InFlow(node, id), Op("FinishLine", id, 0, 0)>>)
           [] IsBlock(node) /\ node.parts # <<>> ->
                Then(FinishLine(Anchor(out, node.anchor), node), <<Whole(node, id, deeper)>>)
           [] node.kind = "block" -> Then(Scalar(spaced, node, deeper, node.inline), <<>>)
           [] node.kind \in {"scalar", "null"} ->
                Then(FinishLine(Scalar(spaced, node, deeper, FALSE), node), <<>>)
           [] node.kind = "alias" ->
                Then(spaced, <<Op("NodeInline", id, 0, deeper), Op("FinishLine", id, 0, 0)>>)

\* MappingFlow and SequenceFlow
FlowStart(kind, open, close, first) ==
  /\ Doing(kind)
  /\ LET node == At(Now.id)
     IN  Then(Put(Anchor(out, node.anchor), Piece(open, 1, node.from)),
              <<Op(first, Now.id, 1, 0), Close(close)>>)

DoMappingFlow == FlowStart("MappingFlow", "{", "}", "MappingFlowEntry")
DoSequenceFlow == FlowStart("SequenceFlow", "[", "]", "SequenceFlowItem")

Comma == IF Now.index > 1 THEN Write(out, ",", 2) ELSE out

DoMappingFlowEntry ==
  \/ DoneWith("MappingFlowEntry")
  \/ /\ Doing("MappingFlowEntry") /\ MoreEntries
     /\ LET key == At(Now.id).parts[Now.index]
            value == Op("NodeInline", key.value, 0, 0)
        IN  IF key.form = "node"
            THEN Then(Comma, <<Op("Node", key.node, 0, 0), Strip, Close("flow colon"), value, Again>>)
            ELSE Then(Write(FlowKey(Comma, key), ":", 2), <<value, Again>>)

\* Fault for the checks: items in block style are written as they are.
DoSequenceFlowItemAsIs ==
  \/ DoneWith("SequenceFlowItem")
  \/ /\ Doing("SequenceFlowItem") /\ MoreEntries
     /\ LET id == At(Now.id).parts[Now.index]
        IN  Then(Comma, <<Op("NodeInline", id, 0, 0), Again>>)

DoSequenceFlowItem ==
  \/ DoneWith("SequenceFlowItem")
  \/ /\ Doing("SequenceFlowItem") /\ MoreEntries
     /\ LET id == At(Now.id).parts[Now.index]
        IN  Then(Comma, <<IF IsBlock(At(id)) THEN InFlow(At(id), id) ELSE Op("NodeInline", id, 0, 0),
                          Again>>)

\* Behind the dash: a collection begins on the same line if nothing has to be said of it
\* there and no key of it is a node.
ItemBody(text, id, indent) ==
  LET node == At(id)
      deeper == indent + setting.step
      said == node.anchor # None \/ node.inline \/ HasNodeKey(node)
      first == IF node.kind = "mapping" THEN "MappingInlineFirst" ELSE "SequenceInlineFirst"
  IN  CASE IsCollection(node) /\ node.parts = <<>> ->
             Then(FinishLine(Empty(text, node), node), <<Again>>)
        [] IsCollection(node) /\ node.flow /\ node.parts # <<>> ->
             Then(text, <<InFlow(node, id), Op("FinishLine", id, 0, 0), Again>>)
        [] IsBlock(node) /\ node.parts # <<>> /\ said ->
             Then(FinishLine(Anchor(text, node.anchor), node), <<Whole(node, id, deeper), Again>>)
        [] IsBlock(node) /\ node.parts # <<>> /\ ~said ->
             Then(text, <<Op(first, id, 1, deeper), Again>>)
        [] node.kind = "block" -> Then(Scalar(text, node, deeper, node.inline), <<Again>>)
        [] node.kind \in {"scalar", "null"} ->
             Then(FinishLine(Scalar(text, node, deeper, FALSE), node), <<Again>>)
        [] node.kind = "alias" ->
             Then(text, <<Op("NodeInline", id, 0, deeper), Op("FinishLine", id, 0, 0), Again>>)

Dash(text) == Put(text, Piece("-", 2, At(Now.id).from))

DoSequenceItem ==
  \/ DoneWith("SequenceItem")
  \/ /\ Doing("SequenceItem") /\ MoreEntries
     /\ LET id == At(Now.id).parts[Now.index]
        IN  ItemBody(Dash(Indent(CommentBefore(out, At(id), Now.indent), Now.indent)), id, Now.indent)

\* Fault for the checks: a comment follows the dash.
InlineStartOnLine(node) ==
  IF node.before THEN Indent(CommentBefore(out, node, Now.indent), Now.indent)
  ELSE IF Now.index > 1 THEN Indent(out, Now.indent) ELSE out

\* Fault for the checks: the key follows its comment at the margin.
InlineStartUnindented(node) ==
  IF node.before
  THEN CommentBefore(IF Now.index = 1 THEN NewLine(out) ELSE out, node, Now.indent)
  ELSE IF Now.index > 1 THEN Indent(out, Now.indent) ELSE out

\* The start of an entry of a collection that began behind a dash: the first stands
\* there, unless a comment comes before it.
InlineStart(node) ==
  IF node.before
  THEN Indent(CommentBefore(IF Now.index = 1 THEN NewLine(out) ELSE out, node, Now.indent), Now.indent)
  ELSE IF Now.index > 1 THEN Indent(out, Now.indent) ELSE out

DoMappingInlineFirst ==
  \/ DoneWith("MappingInlineFirst")
  \/ /\ Doing("MappingInlineFirst") /\ MoreEntries
     /\ LET key == At(Now.id).parts[Now.index]
        IN  Then(Key(InlineStart(At(key.value)), key, At(Now.id).from, Now.indent), <<ValueOp, Again>>)

DoSequenceInlineFirst ==
  \/ DoneWith("SequenceInlineFirst")
  \/ /\ Doing("SequenceInlineFirst") /\ MoreEntries
     /\ LET id == At(Now.id).parts[Now.index]
        IN  ItemBody(Dash(InlineStart(At(id))), id, Now.indent)

(***************************************************************************)
(* emit_arena_docs_to                                                      *)
(***************************************************************************)
\* Between documents, and at the root.
Lowest == lower.tasks = <<>> /\ lower.completed = <<>> /\ ops = <<>>

StartMarker(doc) == doc.start \/ Len(arenas) > 1

Marker(text, t) == NewLine(Write(text, t, 3))

\* The document that has been written ends with its line and its marker.
Ended(doc) ==
  LET line == IF Last(out) = <<>> THEN out ELSE NewLine(out)
  IN  IF doc.end THEN Marker(line, "...") ELSE line

\* The next document begins: a scalar is written at once.
DoDocument ==
  /\ Lowest /\ writing < Len(arenas)
  /\ writing' = writing + 1
  /\ LET doc == arenas[writing + 1]
         root == doc.nodes[doc.root]
         ended == IF writing = 0 THEN out ELSE Ended(arenas[writing])
         start == CommentBefore(IF StartMarker(doc) THEN Marker(ended, "---") ELSE ended, root, 0)
         bare == root.kind = "null" /\ root.anchor = None
     IN  CASE IsCollection(root) -> out' = start /\ ops' = <<Op("Node", doc.root, 0, 0)>>
           [] root.kind = "block" -> out' = Scalar(start, root, 0, root.inline) /\ ops' = <<>>
           [] root.kind \in {"scalar", "null"} /\ ~bare ->
                out' = InlineComment(Scalar(start, root, 0, FALSE), root) /\ ops' = <<>>
           [] bare ->
                LET null == Put(start, Piece("null", 0, root.from))
                IN  /\ out' = IF root.inline THEN FinishLine(null, root) ELSE null
                    /\ ops' = <<>>
  /\ UNCHANGED avars

DoEnd ==
  /\ Lowest /\ writing = Len(arenas) /\ arenas # <<>>
  /\ writing' = writing + 1 /\ out' = Ended(arenas[writing])
  /\ UNCHANGED <<avars, ops>>

Init == ArenaInit /\ writing = 0 /\ ops = <<>> /\ out = <<<<>>>>

Next ==
  \/ Lower /\ UNCHANGED <<writing, ops, out>>
  \/ DoDocument \/ DoEnd
  \/ DoWrite \/ DoFinishLine \/ DoStrip \/ DoColon \/ DoFlowColon
  \/ DoNode \/ DoNodeInline
  \/ DoMapping \/ DoMappingEntry \/ DoMappingValue \/ DoMappingInlineFirst
  \/ DoMappingFlow \/ DoMappingFlowEntry
  \/ DoSequence \/ DoSequenceItem \/ DoSequenceInlineFirst
  \/ DoSequenceFlow \/ DoSequenceFlowItem

Spec == Init /\ [][Next]_vars

(***************************************************************************)
(* Properties.                                                             *)
(***************************************************************************)
Pieces == FlattenSeq(out)

\* The operations that work on a mapping, and on a sequence.
MappingOps == {"Mapping", "MappingEntry", "MappingValue", "MappingInlineFirst",
               "MappingFlow", "MappingFlowEntry"}

SequenceOps == {"Sequence", "SequenceItem", "SequenceInlineFirst",
                "SequenceFlow", "SequenceFlowItem"}

\* What an operation works on is in the arena and of the operation's kind: the arms of run
\* that are marked as unreachable are not reached.
FindsItsNode(x) ==
  /\ x.op \in MappingOps \cup SequenceOps \cup {"Node", "NodeInline", "FinishLine"} =>
       writing \in DOMAIN arenas /\ x.id \in DOMAIN Arena.nodes
  /\ x.op \in MappingOps => At(x.id).kind = "mapping"
  /\ x.op = "MappingValue" => x.index \in DOMAIN At(x.id).parts
  /\ x.op \in SequenceOps => At(x.id).kind = "sequence"

\* The types; every operation of run finds what it works on.
TypeOK ==
  /\ setting \in Settings /\ left \in Nat /\ count \in Nat
  /\ writing \in 0 .. Len(arenas) + 1
  /\ \A i \in DOMAIN out : \A j \in DOMAIN out[i] : out[i][j].width \in Nat
  /\ \A x \in ToSet(ops) : x.indent \in Nat /\ x.index \in Nat /\ FindsItsNode(x)
  /\ lower.completed \in Seq(DOMAIN lower.nodes)

\* The arena of a document is one tree, and nothing is left on from_yaml's stacks: each
\* Finish task finds on them what its own children have left there.
LoweredWhole ==
  /\ lower.tasks = <<>> /\ lower.completed # <<>> =>
       Len(lower.completed) = 1 /\ lower.keys = <<>>
  /\ \A i \in DOMAIN arenas : IsTree(arenas[i].nodes, arenas[i].root)

Written == writing > Len(arenas) /\ arenas # <<>>

\* The collection a node stands in and its entry, if it is the value of one.
Parent(nodes, i) == CHOOSE p \in Parents(nodes, i) : TRUE

\* The last number in the part of the tree below a node.
LastBelow(nodes) ==
  LET last[i \in DOMAIN nodes] ==
        Max({nodes[i].from} \cup {last[c] : c \in ToSet(Children(nodes[i]))})
  IN  last

\* Is a collection written between brackets?  So is an item of a sequence that is.
Bracketed(nodes) ==
  LET bracketed[i \in DOMAIN nodes] ==
        \/ nodes[i].flow
        \/ /\ i # Len(nodes)
           /\ LET p == Parent(nodes, i) IN nodes[p].kind = "sequence" /\ bracketed[p]
  IN  bracketed

\* Is the node written as part of block collections only?
OutsideFlow(nodes) ==
  LET outside[i \in DOMAIN nodes] ==
        i = Len(nodes) \/ LET p == Parent(nodes, i) IN ~nodes[p].flow /\ outside[p]
  IN  outside

\* Is the node only there through its entries?  So is a block collection that has some.
IsOpenBlock(nodes, i) == IsBlock(nodes[i]) /\ nodes[i].parts # <<>> /\ ~Bracketed(nodes)[i]

\* The nodes W can be written between brackets, with all below them: there is no block
\* scalar, and no block collection as a value or a key.
Enclosed(nodes, W) ==
  \A i \in W :
    /\ nodes[i].kind # "block"
    /\ IsCollection(nodes[i]) =>
         \A c \in ToSet(Children(nodes[i])) : c \in W /\ (nodes[i].kind = "mapping" => ~IsBlock(nodes[c]))

\* No flow collection holds what run writes in block style wherever it stands: a block
\* collection in a mapping, or a block scalar.  DoSequenceFlowItem gives an item its
\* brackets, DoMappingFlowEntry writes whatever it finds.
FlowFits ==
  \A d \in DOMAIN arenas : LET nodes == arenas[d].nodes IN
    \E W \in SUBSET DOMAIN nodes : Enclosed(nodes, W) /\ \A i \in DOMAIN nodes : nodes[i].flow => i \in W

Contents == {"scalar", "null", "header", "key", "alias", "{", "[", "{}", "[]"}

ContentOf(pieces) ==
  LET content == SelectSeq(pieces, LAMBDA p : p.t \in Contents)
  IN  [i \in DOMAIN content |-> content[i].of]

ScalarKeys(node) == {i \in DOMAIN node.parts : node.kind = "mapping" /\ node.parts[i].form # "node"}

Expected ==
  UNION {LET nodes == arenas[d].nodes
         IN  {nodes[i].from : i \in {j \in DOMAIN nodes : ~IsOpenBlock(nodes, j)}}
               \cup UNION {{n.parts[i].from : i \in ScalarKeys(n)} : n \in ToSet(nodes)} :
           d \in DOMAIN arenas}

\* What the tree holds is written in the order of the tree, and all of it once: through
\* two stacks, the arena and the texts of keys written aside, no scalar, key or empty
\* collection is lost, doubled or moved.
WrittenOnceInOrder ==
  LET content == ContentOf(Pieces)
  IN  /\ \A i \in 1 .. Len(content) - 1 : content[i] < content[i + 1]
      /\ Written => ToSet(content) = Expected

IsNodeKey(nodes, i) ==
  \E p \in Parents(nodes, i) :
    nodes[p].kind = "mapping" /\ \E e \in ToSet(nodes[p].parts) : e.node = i

\* The number of the first thing in a node's entry.
Lead(nodes, i) ==
  IF i = Len(nodes) THEN nodes[i].from
  ELSE LET p == nodes[Parent(nodes, i)]
       IN  IF p.kind = "mapping" THEN (CHOOSE e \in ToSet(p.parts) : e.value = i).from
           ELSE nodes[i].from

\* A comment of the kind t stands once in the text, and what is written before and after
\* it is what comes up to the number and beyond in the tree.
StandsAfter(t, of, number) ==
  LET places == {j \in DOMAIN Pieces : Pieces[j].t = t /\ Pieces[j].of = of}
  IN  /\ Cardinality(places) = 1
      /\ \A j \in places :
           /\ \A x \in ToSet(ContentOf(SubSeq(Pieces, 1, j))) : x <= number
           /\ \A x \in ToSet(ContentOf(SubSeq(Pieces, j, Len(Pieces)))) : x > number

CommentsEndLines ==
  \A l \in DOMAIN out : \A j \in DOMAIN out[l] :
    /\ out[l][j].t \in {"before", "inline", "---", "..."} => j = Len(out[l])
    /\ out[l][j].t \in {"before", "---", "..."} =>
         \A k \in 1 .. j - 1 : out[l][k].t = "indent"

\* A comment before an entry is written before its key and after all that comes before;
\* an inline comment after its scalar, its flow collection or the line that starts its
\* block collection; and nothing is written behind either on its line.  Comments inside
\* flow collections or on nodes that are keys are not written at all, nor is the inline
\* comment of a root collection.  If a flow collection holds block style (see FlowFits), what
\* comes after a comment may stand on its line, as a bracket that closes.
CommentsInPlace == FlowFits =>
  /\ CommentsEndLines
  /\ Written =>
    \A d \in DOMAIN arenas : LET nodes == arenas[d].nodes IN
      \A i \in DOMAIN nodes :
        OutsideFlow(nodes)[i] /\ ~IsNodeKey(nodes, i) =>
          /\ nodes[i].before => StandsAfter("before", nodes[i].from, Lead(nodes, i) - 1)
          /\ nodes[i].inline /\ (i = Len(nodes) => ~IsCollection(nodes[i])) =>
                StandsAfter("inline", nodes[i].from,
                            IF IsOpenBlock(nodes, i) THEN nodes[i].from ELSE LastBelow(nodes)[i])

\* Every alias in the text refers to an anchor that stands before it in its document,
\* whatever entries have been deleted.
AliasesFollowAnchors ==
  \A j \in DOMAIN Pieces : Pieces[j].t = "*" =>
    \E i \in 1 .. j : /\ Pieces[i].t = "&" /\ Pieces[i].of = Pieces[j].of
                      /\ \A k \in i .. j : Pieces[k].t # "---"

Column(line, j) == MapThenFoldSet(+, 0, LAMBDA k : line[k].width, LAMBDA s : CHOOSE k \in s : TRUE, 1 .. j - 1)

IsEntry(piece) == piece.t \in {"-", "?", "entry"} /\ piece.of # 0

\* The columns at which the entries of the collections begin.
Columns(from) ==
  UNION {{Column(out[l], j) : j \in {k \in DOMAIN out[l] : IsEntry(out[l][k]) /\ out[l][k].of = from}} :
           l \in DOMAIN out}

\* The columns of the content of a block scalar.
TextColumns(from) ==
  UNION {{Column(out[l], j) : j \in {k \in DOMAIN out[l] : out[l][k].t = "text" /\ out[l][k].of = from}} :
           l \in DOMAIN out}

\* The text is read back by its columns: the entries of a block collection begin at one
\* column, deeper than the entries of the collection around it, and on a line on which
\* nothing but other entries begins before them; the lines of a block scalar lie deeper
\* than the entry it belongs to.  Block style in a flow collection begins wherever the
\* bracket stands and goes on at the margin.
EntriesAligned ==
  FlowFits /\ Written =>
    /\ \A d \in DOMAIN arenas : LET nodes == arenas[d].nodes IN
         \A i \in DOMAIN nodes : \A x, y \in Columns(nodes[i].from) :
           /\ x = y
           /\ \A c \in ToSet(Children(nodes[i])) :
                \A z \in Columns(nodes[c].from) \cup TextColumns(nodes[c].from) : z > x
    /\ \A l \in DOMAIN out : \A j \in DOMAIN out[l] : IsEntry(out[l][j]) =>
         \A k \in 1 .. j - 1 : out[l][k].t = "indent" \/ IsEntry(out[l][k])

Count(line, kinds, n) == Cardinality({k \in 1 .. n : line[k].t \in kinds})

\* A flow collection is written on one line, and nothing in it in block style, not even a
\* block collection that is an item of a flow sequence.
FlowHoldsNoBlock == FlowFits =>
  \A l \in DOMAIN out : LET line == out[l] IN
    /\ \A j \in DOMAIN line : IsEntry(line[j]) \/ line[j].t = "header" =>
         Count(line, {"{", "["}, j) = Count(line, {"}", "]"}, j)
    /\ Written => Count(line, {"{", "["}, Len(line)) = Count(line, {"}", "]"}, Len(line))
================================================================================
