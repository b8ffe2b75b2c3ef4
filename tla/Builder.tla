--------------------------------- MODULE Builder --------------------------------
(***************************************************************************)
(* The builder (src/core/builder.rs): it turns the parser's events into    *)
(* documents and decides which node every comment and every run of blank   *)
(* lines belongs to.  One action is one turn of the loop of parse_iter:    *)
(* next_token returns an event, the comments the scanner met on the way    *)
(* are absorbed, the event is processed.                                   *)
(*                                                                         *)
(* The events obey EventStream, which Parser is shown to implement.  The   *)
(* source text is what the marks of events and comments say of it: on which*)
(* lines content and comments lie.  A comment is named by its line, for a  *)
(* line holds at most one; values, styles and tags are left out.           *)
(***************************************************************************)
EXTENDS Integers, Sequences, FiniteSetsExt

CONSTANTS
  Texts, \* the kinds of source text: the forms they use, among AllForms, their anchor names
         \* and the texts of their scalar keys, and bounds on lines, nodes of all documents,
         \* nesting of collections, comments and documents
  BlankLimit, \* the most blank lines a node records, 255 in the code
  None   \* no anchor, no key

\* Plain, single-line quoted, multi-line quoted, block and empty scalars, flow
\* collections, repeated keys, and indicators that stand apart from the node they
\* introduce (a dash or a colon on a line of its own, `? key').
AllForms == {"plain", "quoted", "wrapped", "block", "empty", "flow", "duplicate", "apart"}

NoLine == 0

NoKey == None

ComplexKey == "complex"

ASSUME BuilderConstants ==
  /\ None # ComplexKey
  /\ BlankLimit \in Nat
  /\ \A t \in Texts :
       /\ t.forms \subseteq AllForms
       /\ t.lines \in Nat \ {0}
       /\ {t.nodes, t.depth, t.comments, t.docs} \subseteq Nat
       /\ None \notin t.anchors \cup t.keys

VARIABLES
  phase, nest, event, \* the event grammar, see EventStream
  text,     \* the kind of the text
  src,      \* how far the source has been read, and what its lines hold
  anchors,  \* the names the parser has registered (Parser.anchors)
  builder   \* struct Builder

vars == <<phase, nest, event, text, src, anchors, builder>>

ES == INSTANCE EventStream

(***************************************************************************)
(* The builder's own operations, as functions of the record `b'.           *)
(***************************************************************************)
TopOf(b) == b.stack[Len(b.stack)]

SetTop(b, f) == [b EXCEPT !.stack[Len(b.stack)] = f]

\* Fault for the checks: a complex key is not a pending key.
HasScalarKey(b) ==
  b.stack # <<>> /\ TopOf(b).kind = "map" /\ TopOf(b).key \notin {NoKey, ComplexKey}

HasKey(b) == b.stack # <<>> /\ TopOf(b).kind = "map" /\ TopOf(b).key # NoKey

InSequence(b) == b.stack # <<>> /\ TopOf(b).kind = "seq"

\* PendingKey of a mapping, current_comment_before and current_blank_lines of a
\* sequence; `from' is the last line read before the entry's key.
Frame(kind, flow, node, anchor) ==
  [kind |-> kind, flow |-> flow, node |-> node, anchor |-> anchor, entries |-> <<>>,
   key |-> NoKey, before |-> {}, inline |-> NoLine, blanks |-> 0, from |-> NoLine]

\* A node's metadata.  first .. last are the lines between which the source of
\* the node lies, its key and the indicator before it included.
Node(from, last) ==
  [first |-> from, last |-> last, before |-> {}, inline |-> NoLine, blanks |-> 0, trailing |-> 0]

SetInline(b, n, c) == [b EXCEPT !.meta[n].inline = IF @ = NoLine THEN c ELSE @]

\* attach_inline: a comment on the line of the last content goes to the pending
\* key, else to the last entry or item, else it waits for the next scalar.
AttachInline(b, c) ==
  CASE HasKey(b) -> [b EXCEPT !.stack[Len(b.stack)].inline = c]
    [] b.stack # <<>> /\ ~HasKey(b) /\ TopOf(b).entries # <<>> ->
         SetInline(b, TopOf(b).entries[Len(TopOf(b).entries)].node, c)
    [] b.stack = <<>> /\ b.hasRoot -> SetInline(b, b.docs[Len(b.docs)], c)
    [] OTHER -> [b EXCEPT !.inline = c]

\* absorb_comments; a line holds one comment, so at most one is inline.
Absorb(b, cs) ==
  LET own == {c \in cs : ~b.blockEnd /\ c = b.lastLine}
      b1  == IF own = {} THEN b ELSE AttachInline(b, b.lastLine)
  IN  [b1 EXCEPT !.before = @ \cup (cs \ own), !.blockEnd = FALSE]

Above(b, line) == {c \in b.before : c < line}

\* Fault for the checks: the difference may be negative.
CountUnclamped(b, line) ==
  IF b.lastLine = NoLine THEN 0
  ELSE Min({BlankLimit, line - b.lastLine - 1 - Cardinality(Above(b, line))})

\* Fault for the checks: the difference may be greater than a node can record.
CountUnlimited(b, line) ==
  LET between == line - b.lastLine - 1
      comments == Cardinality(Above(b, line))
  IN  IF b.lastLine = NoLine \/ line <= b.lastLine + 1 \/ between <= comments
      THEN 0
      ELSE between - comments

\* Fault for the checks: one blank line is no blank line.
CountFromTwo(b, line) ==
  LET between == line - b.lastLine - 1
      comments == Cardinality(Above(b, line))
  IN  IF b.lastLine = NoLine \/ line <= b.lastLine + 2 \/ between <= comments
      THEN 0
      ELSE Min({BlankLimit, between - comments})

\* count_blank_lines
CountBlankLines(b, line) ==
  LET between == line - b.lastLine - 1
      comments == Cardinality(Above(b, line))
  IN  IF b.lastLine = NoLine \/ line <= b.lastLine + 1 \/ between <= comments
      THEN 0
      ELSE Min({BlankLimit, between - comments})

\* attach_metadata
Attached(node, f) ==
  [node EXCEPT !.before = IF f.before # {} THEN f.before ELSE @,
               !.inline = IF f.inline # NoLine THEN f.inline ELSE @,
               !.blanks = IF f.blanks > 0 THEN f.blanks ELSE @]

\* IndexMap::insert: an entry with the same key is replaced where it stands.
Insert(entries, key, n) ==
  IF key # ComplexKey /\ \E i \in DOMAIN entries : entries[i].key = key
  THEN [i \in DOMAIN entries |->
          IF entries[i].key = key THEN [key |-> key, node |-> n] ELSE entries[i]]
  ELSE Append(entries, [key |-> key, node |-> n])

\* Fault for the checks: a root is pushed without its metadata.
PushUncommitted(b, n) ==
  IF b.stack = <<>>
  THEN [b EXCEPT !.docs = Append(@, n), !.nextMeta = 0, !.hasRoot = TRUE]
  ELSE LET f == TopOf(b)
           emptied == [f EXCEPT !.key = NoKey, !.before = {}, !.inline = NoLine, !.blanks = 0]
       IN  IF f.kind = "map" /\ f.key = NoKey
           THEN SetTop(b, [f EXCEPT !.key = ComplexKey, !.from = b.meta[n].first])
           ELSE [SetTop(b, [emptied EXCEPT !.entries = Insert(@, f.key, n)])
                   EXCEPT !.meta[n] = Attached(@, f)]

\* push_node for the complete node n: a root, a value, a complex key or an item.
PushNode(b, n) ==
  IF b.stack = <<>>
  THEN [b EXCEPT !.docs = Append(@, n),
                 !.docsMeta = Append(@, [start |-> b.nextMeta, end |-> 0, explicit_end |-> FALSE]),
                 !.nextMeta = 0, !.hasRoot = TRUE]
  ELSE LET f == TopOf(b)
           emptied == [f EXCEPT !.key = NoKey, !.before = {}, !.inline = NoLine, !.blanks = 0]
       IN  IF f.kind = "map" /\ f.key = NoKey
           THEN SetTop(b, [f EXCEPT !.key = ComplexKey, !.from = b.meta[n].first])
           ELSE [SetTop(b, [emptied EXCEPT !.entries = Insert(@, f.key, n)])
                   EXCEPT !.meta[n] = Attached(@, f)]

\* The first line of an entry or item that comes after line `from': the first one of
\* a collection may stand on the line of the collection's own dash, key or ---.
Outset(b, from) ==
  CASE HasKey(b) -> TopOf(b).from
    [] b.stack # <<>> /\ ~HasKey(b) /\ TopOf(b).entries = <<>> -> b.meta[TopOf(b).node].first
    [] OTHER -> from

NewNode(b, from, last) == [b EXCEPT !.meta = Append(@, Node(Outset(b, from), last))]

Registered(b, anchor) == [b EXCEPT !.table = @ \cup ({anchor} \ {None})]

\* MappingStart and SequenceStart.  take_before and the spacing belong to an item
\* of a sequence; a pending key claims the comment on the container's own line.
StartContainer(b, kind, flow, mark, anchor, props, from) ==
  LET b1 == IF b.stack = <<>> /\ props THEN [b EXCEPT !.lastLine = mark] ELSE b
      b2 == IF ~InSequence(b1) THEN b1
            ELSE [SetTop(b1, [TopOf(b1) EXCEPT !.before = Above(b1, mark),
                                               !.blanks = CountBlankLines(b1, mark)])
                    EXCEPT !.before = @ \ Above(b1, mark), !.lastLine = mark]
      own == {c \in b2.before : HasKey(b2) /\ c = mark}
      b3 == NewNode(b2, from, mark)
      n  == Len(b3.meta)
  IN  [b3 EXCEPT !.before = @ \ own,
                 !.meta[n].inline = IF own = {} THEN NoLine ELSE mark,
                 !.stack = Append(@, Frame(kind, flow, n, anchor))]

\* A flow collection lasts until its bracket, a block collection until its last entry.
LastLineOf(b, mark) ==
  LET f == TopOf(b)
  IN  IF f.flow \/ f.entries = <<>> THEN mark
      ELSE Max({b.meta[f.entries[i].node].last : i \in DOMAIN f.entries})

\* Fault for the checks: the anchor of a collection is not registered.
EndUnregistered(b, mark) ==
  LET f  == TopOf(b)
      b1 == [b EXCEPT !.stack = SubSeq(@, 1, Len(@) - 1),
                      !.meta[f.node].trailing = CountBlankLines(b, mark),
                      !.meta[f.node].last = LastLineOf(b, mark),
                      !.lastLine = mark,
                      !.blockEnd = ~f.flow]
  IN  PushNode(b1, f.node)

\* Fault for the checks: a block collection ends where a comment may still be inline.
EndLikeFlow(b, mark) ==
  LET f  == TopOf(b)
      b1 == [b EXCEPT !.stack = SubSeq(@, 1, Len(@) - 1),
                      !.meta[f.node].trailing = CountBlankLines(b, mark),
                      !.meta[f.node].last = LastLineOf(b, mark),
                      !.lastLine = mark]
  IN  PushNode(Registered(b1, f.anchor), f.node)

\* Fault for the checks: the blank lines below a collection are counted again above the
\* node after it.
EndInPlace(b, mark) ==
  LET f  == TopOf(b)
      b1 == [b EXCEPT !.stack = SubSeq(@, 1, Len(@) - 1),
                      !.meta[f.node].trailing = CountBlankLines(b, mark),
                      !.meta[f.node].last = LastLineOf(b, mark),
                      !.blockEnd = ~f.flow]
  IN  PushNode(Registered(b1, f.anchor), f.node)

\* Fault for the checks: the comments above a collection are taken at its end.
EndTakesComments(b, mark) ==
  LET f  == TopOf(b)
      b1 == [b EXCEPT !.stack = SubSeq(@, 1, Len(@) - 1),
                      !.meta[f.node].before = Above(b, mark),
                      !.before = @ \ Above(b, mark),
                      !.meta[f.node].trailing = CountBlankLines(b, mark),
                      !.meta[f.node].last = LastLineOf(b, mark),
                      !.lastLine = mark,
                      !.blockEnd = ~f.flow]
  IN  PushNode(Registered(b1, f.anchor), f.node)

\* MappingEnd and SequenceEnd
EndContainer(b, mark) ==
  LET f  == TopOf(b)
      b1 == [b EXCEPT !.stack = SubSeq(@, 1, Len(@) - 1),
                      !.meta[f.node].trailing = CountBlankLines(b, mark),
                      !.meta[f.node].last = LastLineOf(b, mark),
                      !.lastLine = mark,
                      !.blockEnd = ~f.flow]
  IN  PushNode(Registered(b1, f.anchor), f.node)

\* A scalar at `line' whose end the scanner gave as `end'; it really ends at `last'.
PlaceScalar(b, form, line, end, last, key, anchor, from) ==
  LET context == ~HasKey(b)
      blanks == IF context /\ form # "empty" THEN CountBlankLines(b, line) ELSE 0
      above  == IF context THEN Above(b, line) ELSE {}
      inlineLine == IF form = "block" THEN line ELSE end
      own == {c \in b.before \ above : c = inlineLine}
      deferred == IF b.inline # NoLine THEN b.inline
                  ELSE IF own # {} THEN inlineLine ELSE NoLine
      b1 == Registered([b EXCEPT !.before = @ \ (above \cup own), !.inline = NoLine,
                                 !.lastLine = IF form = "block" THEN Max({end - 1, line})
                                                                ELSE end],
                       anchor)
      b2 == NewNode(b1, from, last)
      n  == Len(b2.meta)
      item == [b2 EXCEPT !.meta[n].before = above, !.meta[n].inline = deferred]
  IN  CASE b.stack = <<>> -> PushNode(item, n)
        [] InSequence(b)  ->
             SetTop([item EXCEPT !.meta[n].blanks = blanks],
                    [TopOf(b) EXCEPT !.entries = Append(@, [key |-> NoKey, node |-> n])])
        [] HasKey(b) ->
             LET b3 == PushNode(b2, n)
                 entries == TopOf(b3).entries
             IN  IF deferred = NoLine THEN b3
                 ELSE SetInline(b3, entries[Len(entries)].node, deferred)
        [] OTHER ->
             SetTop(b1, [TopOf(b) EXCEPT !.key = key, !.before = above, !.inline = deferred,
                                         !.blanks = blanks, !.from = Outset(b, from)])

PlaceAlias(b, line, key, from) ==
  LET b1 == [b EXCEPT !.lastLine = line]
      b2 == NewNode(b1, from, line)
  IN  IF b.stack # <<>> /\ ~InSequence(b) /\ ~HasKey(b)
      THEN SetTop(b1, [TopOf(b) EXCEPT !.key = key, !.from = Outset(b, from)])
      ELSE PushNode(b2, Len(b2.meta))

(***************************************************************************)
(* The source.  A call of next_token ends on a token that starts at line   *)
(* l and ends at line r; cs are the comments before that token and trail   *)
(* the one after it, when the scanner queues it before the token (quoted   *)
(* and block scalars, flow collections, dashes and commas).                *)
(***************************************************************************)
Lines == 1 .. text.lines

Later(c) == \A d \in src.comments : d < c

Readable(l, r, cs, trail) ==
  /\ src.ahead <= l /\ l <= r /\ r <= text.lines
  /\ \A c \in cs : src.at <= c /\ c < l /\ Later(c)
  /\ trail \subseteq {r}
  /\ Cardinality(src.comments \cup cs \cup trail) <= text.comments
  \* the token was peeked together with its comment, or no comment hides it
  /\ IF src.peeked = NoLine THEN Later(l) ELSE l = src.at /\ r = src.peeked /\ trail = {}

\* at and ahead: where the next comment and the next token may lie.  A token the parser
\* has peeked and not consumed is held: it starts at `at', and if its end is known, too,
\* that is peeked.
Advance(at, ahead, cs, lines, held, peeked) ==
  src' = [at |-> at, ahead |-> ahead, comments |-> src.comments \cup cs,
          content |-> src.content \cup lines, held |-> held, peeked |-> peeked]

ReadTo(l, r, cs, trail, mark, held) ==
  /\ Readable(l, r, cs, trail)
  /\ Advance(r, r, cs \cup trail, (l .. r) \cup {mark}, held, NoLine)

AtKey == ~InSequence(builder) /\ builder.stack # <<>> /\ ~HasKey(builder)

InFlow == builder.stack # <<>> /\ TopOf(builder).flow

\* Where the next node may begin: a held token is the node's own, or the dash, key or
\* colon before it.
Begins == IF src.held /\ "apart" \notin text.forms THEN {src.at} ELSE Lines

Ends == IF src.held THEN {src.at} ELSE Lines

\* The marks a container whose first token is at l may carry: that token's, that of
\* the anchor or tag of a block collection, of the dash before it, or of the colon
\* before it, which stands on the key's line.
Marks(l, flow, props) ==
  CASE ~InFlow /\ "apart" \in text.forms /\ builder.stack # <<>> /\ ~AtKey -> src.at .. l
    [] HasKey(builder) /\ ~InFlow /\ "apart" \notin text.forms -> {src.at}
    [] OTHER -> IF props /\ ~flow /\ ~InSequence(builder) THEN src.at .. l ELSE {l}

\* The comments of a call.
Comments(l) == {cs \in SUBSET Lines : \A c \in cs : src.at <= c /\ c < l}

Trails(r) == {{}, {r}}

KeyTexts ==
  IF AtKey
  THEN {k \in text.keys : "duplicate" \in text.forms
                       \/ \A i \in DOMAIN TopOf(builder).entries : TopOf(builder).entries[i].key # k}
  ELSE {NoKey}

Declare(a) == anchors' = anchors \cup ({a} \ {None})

Room == Len(builder.meta) < text.nodes

(***************************************************************************)
(* One action per event.                                                   *)
(***************************************************************************)
StreamStart ==
  /\ ES!StreamStart
  /\ builder' = Absorb(builder, {})
  /\ UNCHANGED <<src, anchors>>

\* An implicit document is announced when its first token has been peeked; the
\* comment behind a quoted root or a flow indicator has been read by then.  An explicit one
\* begins at the `---' that has shown the end of the document before it, if that is held.
DocumentStart ==
  /\ ES!DocumentStart
  /\ builder.docEnds < text.docs /\ Room
  /\ \E explicit \in BOOLEAN, l \in Lines, r \in Lines :
     \E cs \in Comments(l), trail \in Trails(r) :
       /\ Readable(l, r, cs, trail)
       /\ l \notin src.content /\ (src.held => l = src.at)
       /\ ~explicit /\ builder.docEnds > 0 => builder.docsMeta[builder.docEnds].explicit_end
       /\ IF trail = {}
          THEN r = l /\ Advance(l, l, cs, {l}, ~explicit, NoLine)
          ELSE /\ ~explicit /\ {"quoted", "flow", "wrapped"} \cap text.forms # {}
               /\ r = l \/ "wrapped" \in text.forms
               /\ Advance(l, l, cs \cup trail, l .. r, TRUE, r)
       /\ LET b == Absorb(builder, cs \cup trail)
              own == b.before \cap {l}
          IN  builder' = [b EXCEPT !.hasRoot = FALSE, !.nextMeta = b.docEnds + 1,
                                   !.lastLine = l, !.before = @ \ own,
                                   !.inline = IF own = {} THEN @ ELSE l]
  /\ UNCHANGED anchors

\* DocumentEnd writes into the last entry of docs_meta: it must be its document's.
DocumentEnd ==
  /\ ES!DocumentEnd
  /\ \E explicit \in BOOLEAN, l \in Ends : \E cs \in Comments(l) :
       /\ Readable(l, l, cs, {})
       /\ explicit => l \notin src.content
       /\ Advance(l, l, cs, IF explicit THEN {l} ELSE {}, ~explicit, NoLine)
       /\ LET b == Absorb(builder, cs)
              n == Len(b.docsMeta)
              own == [start |-> IF n = 0 THEN 0 ELSE b.docsMeta[n].start,
                      end |-> b.docEnds + 1, explicit_end |-> explicit]
          IN  builder' = [b EXCEPT !.docEnds = @ + 1, !.hasRoot = FALSE,
                                   !.docsMeta = IF n = 0 THEN <<own>> ELSE [@ EXCEPT ![n] = own]]
  /\ UNCHANGED anchors

StreamEnd ==
  /\ phase = "open" /\ ES!StreamEnd
  /\ \E l \in Ends : \E cs \in Comments(l) :
       ReadTo(l, l, cs, {}, l, FALSE) /\ builder' = Absorb(builder, cs)
  /\ UNCHANGED anchors

ScalarEvent == ES!Leaf /\ event' = "Scalar" /\ Room /\ src.peeked = NoLine

Plain ==
  /\ ScalarEvent /\ "plain" \in text.forms
  /\ \E l \in Begins, r \in Lines, a \in text.anchors \cup {None}, k \in KeyTexts :
     \E cs \in Comments(l) :
       /\ ReadTo(l, r, cs, {}, l, FALSE) /\ Declare(a)
       /\ builder' = PlaceScalar(Absorb(builder, cs), "plain", l, r, r, k, a, src.at)

\* The scanner gives no end line for a quoted scalar; the builder takes its mark's.
Quoted ==
  /\ ES!Leaf /\ event' = "Scalar" /\ Room
  /\ \E l \in Begins, r \in Lines, a \in text.anchors \cup {None}, k \in KeyTexts :
     \E cs \in Comments(l), trail \in Trails(r) :
       /\ (IF l = r THEN "quoted" ELSE "wrapped") \in text.forms
       /\ ReadTo(l, r, cs, trail, l, FALSE) /\ Declare(a)
       /\ builder' = PlaceScalar(Absorb(builder, cs \cup trail), "quoted", l, l, r, k, a, src.at)

\* The content of a block scalar lies below its header; end is the line after it.  As
\* a key it needs the indicator `?'.
Block ==
  /\ ScalarEvent /\ "block" \in text.forms /\ ~InFlow
  /\ AtKey => "apart" \in text.forms
  /\ \E l \in Begins, end \in Lines, a \in text.anchors \cup {None}, k \in KeyTexts :
     \E cs \in Comments(l), trail \in Trails(l) :
       /\ l < end
       /\ Readable(l, l, cs, trail) /\ Declare(a)
       /\ Advance(end, end, cs \cup trail, l .. end - 1, FALSE, NoLine)
       /\ builder' = PlaceScalar(Absorb(builder, cs \cup trail), "block", l, end, end - 1,
                                 k, a, src.at)

\* An empty node: its mark is that of an indicator or of the token peeked after it.
Empty ==
  /\ ScalarEvent /\ "empty" \in text.forms
  /\ \E l \in Lines, a \in text.anchors \cup {None}, k \in KeyTexts :
     \E cs \in Comments(l), trail \in Trails(l), mark \in src.at .. l :
       /\ trail # {} => InSequence(builder) \/ InFlow
       /\ ReadTo(l, l, cs, trail, mark, ~InFlow) /\ Declare(a)
       /\ builder' = PlaceScalar(Absorb(builder, cs \cup trail), "empty", mark, mark, mark,
                                 k, a, src.at)

Alias ==
  /\ ES!Leaf /\ event' = "Alias" /\ Room /\ src.peeked = NoLine
  /\ anchors # {}
  /\ \E l \in Begins, k \in KeyTexts : \E cs \in Comments(l) :
       /\ ReadTo(l, l, cs, {}, l, FALSE)
       /\ builder' = PlaceAlias(Absorb(builder, cs), l, k, src.at)
  /\ UNCHANGED anchors

\* A flow indicator and a dash that starts an indentless sequence bring the comment
\* behind them; a container in a key's place is a `? key' or a flow key.
Start(kind) ==
  /\ IF kind = "map" THEN ES!MappingStart ELSE ES!SequenceStart
  /\ Room /\ Len(builder.stack) < text.depth
  /\ AtKey => {"apart", "flow"} \cap text.forms # {}
  /\ \E flow \in BOOLEAN, props \in BOOLEAN, l \in Begins, a \in text.anchors \cup {None} :
     \E cs \in Comments(l), trail \in Trails(l), mark \in Marks(l, flow, props) :
       /\ flow => "flow" \in text.forms
       /\ src.peeked # NoLine => flow
       /\ a # None => props
       /\ trail # {} => flow \/ (kind = "seq" /\ builder.stack # <<>> /\ ~InSequence(builder))
       /\ ReadTo(l, l, cs, trail, mark, ~flow) /\ Declare(a)
       /\ builder' = StartContainer(Absorb(builder, cs \cup trail), kind, flow, mark,
                                    a, props, src.at)

MappingStart == Start("map")

SequenceStart == Start("seq")

\* A block collection has an entry and ends at the token after it, a flow collection at its bracket.
\* The pair [? k : v] ends without a token, at the scanner's own position.
End(kind) ==
  /\ IF kind = "map" THEN ES!MappingEnd ELSE ES!SequenceEnd
  /\ TopOf(builder).flow \/ TopOf(builder).entries # <<>>
  /\ \E l \in Ends, pair \in BOOLEAN :
     \E cs \in Comments(l) :
       /\ Readable(l, l, cs, {})
       /\ IF pair
          THEN /\ kind = "map" /\ TopOf(builder).flow /\ cs = {}
               /\ Len(builder.stack) > 1
               /\ LET outer == builder.stack[Len(builder.stack) - 1]
                  IN  outer.kind = "seq" /\ outer.flow
               /\ Advance(src.at, l, {}, {}, FALSE, NoLine)
          ELSE Advance(l, l, cs, IF InFlow THEN {l} ELSE {}, ~InFlow, NoLine)
       /\ builder' = EndContainer(Absorb(builder, cs), l)
  /\ UNCHANGED anchors

MappingEnd == End("map")

SequenceEnd == End("seq")

Init ==
  /\ ES!ESInit
  /\ text \in Texts
  /\ src = [at |-> 1, ahead |-> 1, comments |-> {}, content |-> {}, held |-> FALSE,
            peeked |-> NoLine]
  /\ anchors = {}
  /\ builder = [stack |-> <<>>, meta |-> <<>>, docs |-> <<>>, docsMeta |-> <<>>,
                nextMeta |-> 0, docEnds |-> 0, hasRoot |-> FALSE, lastLine |-> NoLine,
                before |-> {}, inline |-> NoLine, blockEnd |-> FALSE, table |-> {}]

Next ==
  /\ \/ StreamStart \/ DocumentStart \/ DocumentEnd \/ StreamEnd
     \/ Plain \/ Quoted \/ Block \/ Empty \/ Alias
     \/ MappingStart \/ SequenceStart \/ MappingEnd \/ SequenceEnd
  /\ UNCHANGED text

Spec == Init /\ [][Next]_vars

(***************************************************************************)
(* Properties.                                                             *)
(***************************************************************************)
LineOrNone == Lines \cup {NoLine}

Nodes == DOMAIN builder.meta

BlankLines == 0 .. BlankLimit

TypeOK ==
  /\ src \in [at : Lines, ahead : Lines, comments : SUBSET Lines, content : SUBSET Lines,
              held : BOOLEAN, peeked : LineOrNone]
  /\ anchors \subseteq text.anchors /\ builder.table \subseteq text.anchors
  /\ builder.before \subseteq Lines /\ builder.inline \in LineOrNone
  /\ builder.lastLine \in LineOrNone
  /\ builder.hasRoot \in BOOLEAN /\ builder.blockEnd \in BOOLEAN
  /\ builder.docs \in Seq(Nodes)
  /\ \A n \in Nodes :
       builder.meta[n] \in [first : LineOrNone, last : Lines, before : SUBSET Lines,
                            inline : LineOrNone, blanks : BlankLines, trailing : BlankLines]
  /\ \A i \in DOMAIN builder.stack :
       LET f == builder.stack[i]
       IN  /\ f.kind \in {"map", "seq"} /\ f.node \in Nodes
           /\ f.key \in text.keys \cup {NoKey, ComplexKey}
           /\ \A j \in DOMAIN f.entries : f.entries[j].node \in Nodes

\* The builder keeps its own account of what is open and whether a mapping awaits a
\* key or a value (PendingKey::has_key) and never compares it with the parser's; the
\* two agree after every event, complex and alias keys included.
StackFollowsEvents ==
  /\ builder.hasRoot <=> nest = <<"done">>
  /\ Len(builder.stack) = IF nest = <<>> THEN 0 ELSE Len(nest) - 1
  /\ \A i \in DOMAIN builder.stack :
       nest[i + 1] = CASE builder.stack[i].kind = "seq" -> "seq"
                       [] builder.stack[i].kind = "map" ->
                            IF builder.stack[i].key = NoKey THEN "key" ELSE "val"

\* docs and docs_meta stay aligned, and each DocumentEnd has marked the entry of
\* its own document: the streaming iterator pops them in pairs.
DocsAligned ==
  /\ Len(builder.docs) = Len(builder.docsMeta)
  /\ nest = <<>> => builder.docEnds = Len(builder.docs)
  /\ \A i \in DOMAIN builder.docsMeta :
       /\ builder.docsMeta[i].start = i
       /\ builder.docsMeta[i].end = IF i <= builder.docEnds THEN i ELSE 0

\* The parser accepts an alias as soon as the anchor has been read, the builder
\* knows the anchor only when its node is complete: the fallback to null is reached
\* by an alias inside its own anchored collection and by no other.
AliasesResolve ==
  anchors \subseteq builder.table \cup {builder.stack[i].anchor : i \in DOMAIN builder.stack}

\* The places a comment is in: the metadata of a node, or waiting in the builder.
Places(c) ==
  {<<"before", n>> : n \in {m \in Nodes : c \in builder.meta[m].before}}
    \cup {<<"inline", n>> : n \in {m \in Nodes : c = builder.meta[m].inline}}
    \cup {<<"frame", i>> : i \in {j \in DOMAIN builder.stack :
                                    c \in builder.stack[j].before}}
    \cup {<<"key", i>> : i \in {j \in DOMAIN builder.stack : c = builder.stack[j].inline}}
    \cup (IF c \in builder.before THEN {<<"pending", "before">>} ELSE {})
    \cup (IF c = builder.inline THEN {<<"pending", "inline">>} ELSE {})

\* A comment travels through up to four staging slots before it reaches a node, and a
\* node may be moved into its parent much later: it never ends up in two places.  The
\* comments above a node come before those above any node that starts after it, so that
\* writing the nodes out in order writes the comments in order.
CommentsOnceInOrder ==
  /\ \A c \in src.comments : Cardinality(Places(c)) <= 1
  /\ \A n, m \in Nodes : n < m =>
       \A c \in builder.meta[n].before, d \in builder.meta[m].before : c < d

\* Block collections of scalars on the lines that their marks give.  The end of a quoted
\* scalar of several lines is not known to the builder, nor is a line that only holds the
\* indicator of a flow collection or of an entry: they count as blank.  An alias takes
\* neither comments nor blank lines.
Plainly == text.forms \subseteq {"plain", "quoted", "block"} /\ text.anchors = {}

\* The lines on which a node lies: between the last line read before the node (where its
\* dash or its --- may be) and the node's last line.
OnLines(node, line) == node.first <= line /\ line <= node.last

\* Node n is the value of the last entry of the innermost mapping of builder b, a key before
\* it has been repeated, and the value which that key has now lies on the line.
IsPassedOver(b, n, line) ==
  /\ b.stack # <<>> /\ TopOf(b).kind = "map" /\ TopOf(b).entries # <<>>
  /\ LET entries == TopOf(b).entries
     IN  /\ n = entries[Len(entries)].node
         /\ \E i \in DOMAIN entries :
              entries[i].node > n /\ OnLines(b.meta[entries[i].node], line)

\* A comment that becomes the inline comment of a node stands on a line of that node.  There
\* are two exceptions, in the forms of Plainly and with repeated keys: behind the value of a
\* repeated key it goes to the last entry of the same mapping, and behind a `...', where no
\* node is, to the first scalar of the next document.
InlineOnOwnLines ==
  [][text.forms \subseteq {"plain", "quoted", "block", "duplicate"} /\ text.anchors = {} =>
       \A n \in DOMAIN builder'.meta :
         LET node == builder'.meta[n]
         IN  node.inline # NoLine /\ (n \in Nodes => builder.meta[n].inline = NoLine) =>
               \/ OnLines(node, node.inline)
               \/ IsPassedOver(builder, n, node.inline) \/ IsPassedOver(builder', n, node.inline)
               \/ /\ node.inline \in src.content /\ builder.docEnds > 0
                  /\ \A m \in Nodes : ~OnLines(builder.meta[m], node.inline)]_vars

\* The blank lines recorded in the tree, each by its place: those above and below node n.
Recorded ==
  UNION {({<<"above", n>>} \X (1 .. builder.meta[n].blanks))
           \cup ({<<"below", n>>} \X (1 .. builder.meta[n].trailing)) : n \in Nodes}

\* The blank lines recorded in the tree are blank lines of the source: none is
\* counted for two nodes and none is invented.
BlankLinesAreReal ==
  Plainly => Cardinality(Recorded) <= Cardinality((1 .. src.at) \ (src.comments \cup src.content))

\* Blank lines above a scalar item of a sequence, behind another scalar item, are recorded
\* on it, up to the limit (docs/roundtrip.md promises to preserve them, docs/limitations.md
\* names the limit).
ItemsKeepBlankLines ==
  [][LET fresh == src'.content \ src.content
         gap == IF fresh = {} THEN 0 ELSE Min(fresh) - Max(src.content) - 1
         n == Len(builder.meta')
     IN  /\ event = "Scalar" /\ event' = "Scalar" /\ InSequence(builder)
         /\ src'.comments = src.comments /\ builder.before = {} /\ Plainly
         => builder.meta'[n].blanks = Min({BlankLimit, gap})]_vars

\* When a stream that has documents has ended, every comment on a line of its own has
\* reached a node.
NoCommentLeftOver ==
  phase = "ended" /\ builder.docs # <<>> => builder.before \subseteq src.content

================================================================================
