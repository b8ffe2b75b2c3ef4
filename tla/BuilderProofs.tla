----------------------------- MODULE BuilderProofs ----------------------------
(***************************************************************************)
(* What TLAPS proves about the builder (Builder.tla), for every text and   *)
(* every course of events that EventStream allows.                         *)
(*                                                                         *)
(* The operations of the builder are functions of its state b, so the      *)
(* proof is about states.  Each of them does one of three things to what   *)
(* the builder thinks is open: it leaves it alone (Alike and Rest: comments*)
(* are absorbed, lines counted), it completes a node (Completes: push_node,*)
(* a scalar, an alias), or it opens a collection (Opens); the end of a     *)
(* collection pops a frame (Pops) and completes the node it stood for.     *)
(* The parts of the invariant speak of what is open only, so each is shown *)
(* to survive these three and not every operation.                         *)
(*                                                                         *)
(* Two more invariants follow, about what the builder reads.  Neat says of *)
(* comments that each is in one place (Tidy) and that those of a node come *)
(* before those of a later node and before those that wait (Settled).      *)
(* Level says of blank lines that those recorded so far are among the blank*)
(* lines behind the builder: its lines rise with the source (InStep), every*)
(* node lies behind them (Behind), and the free lines pay for the blanks of*)
(* nodes and frames (Funded, by Pays).                                     *)
(***************************************************************************)
EXTENDS Builder, SequenceFacts, FiniteSetTheorems, TLAPS

(***************************************************************************)
(* The types, for a text t and n nodes.                                    *)
(***************************************************************************)
Line(t) == 1 .. t.lines

LineOr(t) == Line(t) \cup {NoLine}

Key(t) == t.keys \cup {NoKey, ComplexKey}

EntryType(t, n) == [key : Key(t), node : 1 .. n]

FrameType(t, n) ==
  [kind : {"map", "seq"}, flow : BOOLEAN, node : 1 .. n, anchor : t.anchors \cup {None},
   entries : Seq(EntryType(t, n)), key : Key(t), before : SUBSET Line(t), inline : LineOr(t),
   blanks : BlankLines, from : LineOr(t)]

NodeType(t) ==
  [first : LineOr(t), last : Line(t), before : SUBSET Line(t), inline : LineOr(t),
   blanks : BlankLines, trailing : BlankLines]

DocType == [start : Nat, end : Nat, explicit_end : BOOLEAN]

BuilderType(t, n) ==
  [stack : Seq(FrameType(t, n)), meta : Seq(NodeType(t)), docs : Seq(1 .. n),
   docsMeta : Seq(DocType), nextMeta : Nat, docEnds : Nat, hasRoot : BOOLEAN,
   lastLine : LineOr(t), before : SUBSET Line(t), inline : LineOr(t), blockEnd : BOOLEAN,
   table : SUBSET t.anchors]

\* What the proofs use of a text.
Text(t) == t.lines \in Nat \ {0} /\ None \notin t.keys

\* The state of the builder has its types, and n is the number of its nodes.
Sound(b, t, n) ==
  /\ n \in Nat /\ b \in BuilderType(t, n) /\ Len(b.meta) = n
  /\ b.hasRoot => b.docs # <<>>

\* What the builder thinks is open is the same in b and c.
Alike(b, c) ==
  /\ Len(c.stack) = Len(b.stack)
  /\ \A i \in 1 .. Len(b.stack) :
       /\ c.stack[i].kind = b.stack[i].kind /\ c.stack[i].key = b.stack[i].key
       /\ c.stack[i].anchor = b.stack[i].anchor

\* So are the documents.
Rest(b, c) ==
  /\ c.docs = b.docs /\ c.docsMeta = b.docsMeta
  /\ c.nextMeta = b.nextMeta /\ c.docEnds = b.docEnds /\ c.hasRoot = b.hasRoot

\* The top of the stack is a frame.
LEMMA TopIs ==
  ASSUME NEW t, NEW n, NEW b, Sound(b, t, n), b.stack # <<>>
  PROVE  /\ Len(b.stack) \in 1 .. Len(b.stack) /\ TopOf(b) \in FrameType(t, n)
         /\ TopOf(b) = b.stack[Len(b.stack)]
<1>1. b.stack \in Seq(FrameType(t, n))
  BY DEF Sound, BuilderType
<1>2. QED
  BY <1>1 DEF TopOf

\* The fields of a builder whose stack or metadata has been replaced.
LEMMA NewStack ==
  ASSUME NEW t, NEW n, NEW b, Sound(b, t, n), NEW s \in Seq(FrameType(t, n))
  PROVE  LET c == [b EXCEPT !.stack = s]
         IN  /\ Sound(c, t, n) /\ c.stack = s /\ Rest(b, c)
             /\ c.meta = b.meta /\ c.lastLine = b.lastLine /\ c.before = b.before
             /\ c.inline = b.inline /\ c.blockEnd = b.blockEnd /\ c.table = b.table
<1> DEFINE c == [b EXCEPT !.stack = s]
<1>1. c \in BuilderType(t, n)
  BY DEF Sound, BuilderType
<1>2. /\ c.stack = s /\ Rest(b, c)
      /\ c.meta = b.meta /\ c.lastLine = b.lastLine /\ c.before = b.before
      /\ c.inline = b.inline /\ c.blockEnd = b.blockEnd /\ c.table = b.table
  BY DEF Sound, BuilderType, Rest
<1> HIDE DEF c
<1>3. Sound(c, t, n)
  BY <1>1, <1>2 DEF Sound, Rest
<1>4. QED
  BY <1>2, <1>3 DEF c

LEMMA NewMeta ==
  ASSUME NEW t, NEW n, NEW b, Sound(b, t, n), NEW k \in 1 .. n, NEW m \in NodeType(t)
  PROVE  LET c == [b EXCEPT !.meta[k] = m]
         IN  /\ Sound(c, t, n) /\ c.stack = b.stack /\ Rest(b, c)
             /\ c.lastLine = b.lastLine /\ c.before = b.before
             /\ c.inline = b.inline /\ c.blockEnd = b.blockEnd /\ c.table = b.table
             /\ c.meta[k] = m /\ \A i \in 1 .. n : i # k => c.meta[i] = b.meta[i]
<1> DEFINE s == [b.meta EXCEPT ![k] = m]
           c == [b EXCEPT !.meta = s]
<1>0. b.meta \in Seq(NodeType(t)) /\ Len(b.meta) = n /\ n \in Nat
  BY DEF Sound, BuilderType
<1>1. /\ s \in Seq(NodeType(t)) /\ Len(s) = n
      /\ s[k] = m /\ \A i \in 1 .. n : i # k => s[i] = b.meta[i]
  BY <1>0, ExceptSeq
<1>2. c = [b EXCEPT !.meta[k] = m]
  BY DEF Sound, BuilderType
<1> HIDE DEF s
<1>3. c \in BuilderType(t, n)
  BY <1>1 DEF Sound, BuilderType
<1>4. /\ c.stack = b.stack /\ Rest(b, c) /\ c.meta = s
      /\ c.lastLine = b.lastLine /\ c.before = b.before
      /\ c.inline = b.inline /\ c.blockEnd = b.blockEnd /\ c.table = b.table
  BY DEF Sound, BuilderType, Rest
<1> HIDE DEF c
<1>5. Sound(c, t, n)
  BY <1>1, <1>3, <1>4 DEF Sound, Rest
<1>6. QED
  BY <1>1, <1>2, <1>4, <1>5

\* A builder with another frame on top.
LEMMA NewTop ==
  ASSUME NEW t, NEW n, NEW b, Sound(b, t, n), b.stack # <<>>, NEW f \in FrameType(t, n)
  PROVE  LET c == SetTop(b, f)
         IN  /\ Sound(c, t, n) /\ Rest(b, c)
             /\ c.meta = b.meta /\ c.lastLine = b.lastLine /\ c.before = b.before
             /\ c.inline = b.inline /\ c.blockEnd = b.blockEnd /\ c.table = b.table
             /\ Len(c.stack) = Len(b.stack) /\ c.stack[Len(b.stack)] = f /\ TopOf(c) = f
             /\ \A i \in 1 .. Len(b.stack) : i # Len(b.stack) => c.stack[i] = b.stack[i]
<1> DEFINE k == Len(b.stack)
           s == [b.stack EXCEPT ![k] = f]
           c == [b EXCEPT !.stack = s]
<1>0. b.stack \in Seq(FrameType(t, n)) /\ k \in 1 .. k
  BY TopIs DEF Sound, BuilderType
<1>1. /\ s \in Seq(FrameType(t, n)) /\ Len(s) = k
      /\ s[k] = f /\ \A i \in 1 .. k : i # k => s[i] = b.stack[i]
  BY <1>0, ExceptSeq
<1>2. c = SetTop(b, f)
  BY DEF Sound, BuilderType, SetTop
<1> HIDE DEF s
<1>3. /\ Sound(c, t, n) /\ c.stack = s /\ Rest(b, c)
      /\ c.meta = b.meta /\ c.lastLine = b.lastLine /\ c.before = b.before
      /\ c.inline = b.inline /\ c.blockEnd = b.blockEnd /\ c.table = b.table
  BY <1>1, NewStack
<1> HIDE DEF c, k
<1>4. TopOf(c) = f
  BY <1>1, <1>3 DEF TopOf
<1>5. QED
  BY <1>1, <1>2, <1>3, <1>4 DEF k

\* More nodes.
LEMMA TypesGrow ==
  ASSUME NEW t, NEW n \in Nat
  PROVE  /\ FrameType(t, n) \subseteq FrameType(t, n + 1)
         /\ Seq(FrameType(t, n)) \subseteq Seq(FrameType(t, n + 1))
         /\ Seq(1 .. n) \subseteq Seq(1 .. n + 1)
<1>1. 1 .. n \subseteq 1 .. n + 1
  OBVIOUS
<1>2. EntryType(t, n) \subseteq EntryType(t, n + 1)
  BY <1>1 DEF EntryType
<1>3. Seq(EntryType(t, n)) \subseteq Seq(EntryType(t, n + 1))
  BY <1>2, SeqMonotonic
<1>4. FrameType(t, n) \subseteq FrameType(t, n + 1)
  BY <1>1, <1>3 DEF FrameType
<1>5. QED
  BY <1>1, <1>4, SeqMonotonic

\* A node more.
LEMMA MoreNodes ==
  ASSUME NEW t, NEW n, NEW b, Sound(b, t, n), NEW m \in NodeType(t)
  PROVE  LET c == [b EXCEPT !.meta = Append(@, m)]
         IN  /\ Sound(c, t, n + 1) /\ c.stack = b.stack /\ Rest(b, c)
             /\ c.lastLine = b.lastLine /\ c.before = b.before
             /\ c.inline = b.inline /\ c.blockEnd = b.blockEnd /\ c.table = b.table
             /\ c.meta[n + 1] = m /\ \A i \in 1 .. n : c.meta[i] = b.meta[i]
<1> DEFINE s == Append(b.meta, m)
           c == [b EXCEPT !.meta = s]
<1>0. b.meta \in Seq(NodeType(t)) /\ Len(b.meta) = n /\ n \in Nat
  BY DEF Sound, BuilderType
<1>1. /\ s \in Seq(NodeType(t)) /\ Len(s) = n + 1
      /\ s[n + 1] = m /\ \A i \in 1 .. n : s[i] = b.meta[i]
  BY <1>0, AppendProperties
<1>2. c = [b EXCEPT !.meta = Append(@, m)]
  BY DEF Sound, BuilderType
<1> HIDE DEF s
<1>3. c \in BuilderType(t, n + 1)
  <2>1. b.stack \in Seq(FrameType(t, n + 1)) /\ b.docs \in Seq(1 .. n + 1)
    BY <1>0, TypesGrow DEF Sound, BuilderType
  <2>2. QED
    BY <1>1, <2>1 DEF Sound, BuilderType
<1>4. /\ c.stack = b.stack /\ Rest(b, c) /\ c.meta = s
      /\ c.lastLine = b.lastLine /\ c.before = b.before
      /\ c.inline = b.inline /\ c.blockEnd = b.blockEnd /\ c.table = b.table
  BY DEF Sound, BuilderType, Rest
<1> HIDE DEF c
<1>5. Sound(c, t, n + 1)
  BY <1>0, <1>1, <1>3, <1>4 DEF Sound, Rest
<1>6. QED
  BY <1>1, <1>2, <1>4, <1>5

\* b with other comments waiting, another position and other names.
With(b, w, l, p, e, a) ==
  [b EXCEPT !.before = w, !.inline = l, !.lastLine = p, !.blockEnd = e, !.table = a]

\* A builder with other comments waiting, another position and other names.
LEMMA NewFields ==
  ASSUME NEW t, NEW n, NEW b, Sound(b, t, n), NEW w \in SUBSET Line(t), NEW l \in LineOr(t),
         NEW p \in LineOr(t), NEW e \in BOOLEAN, NEW a \in SUBSET t.anchors
  PROVE  LET c == With(b, w, l, p, e, a)
         IN  /\ Sound(c, t, n) /\ c.stack = b.stack /\ c.meta = b.meta /\ Rest(b, c)
             /\ c.before = w /\ c.inline = l /\ c.lastLine = p /\ c.blockEnd = e /\ c.table = a
<1> DEFINE c == [b EXCEPT !.before = w, !.inline = l, !.lastLine = p, !.blockEnd = e, !.table = a]
<1>1. c \in BuilderType(t, n)
  BY DEF Sound, BuilderType
<1>2. /\ c.stack = b.stack /\ c.meta = b.meta /\ Rest(b, c)
      /\ c.before = w /\ c.inline = l /\ c.lastLine = p /\ c.blockEnd = e /\ c.table = a
  BY DEF Sound, BuilderType, Rest
<1> HIDE DEF c
<1>3. Sound(c, t, n)
  BY <1>1, <1>2 DEF Sound, Rest
<1>4. QED
  BY <1>2, <1>3 DEF c, With

\* The types of the fields.
LEMMA FieldTypes ==
  ASSUME NEW t, NEW n, NEW b, Sound(b, t, n)
  PROVE  /\ b.before \in SUBSET Line(t) /\ b.inline \in LineOr(t) /\ b.lastLine \in LineOr(t)
         /\ b.blockEnd \in BOOLEAN /\ b.table \in SUBSET t.anchors
         /\ b.stack \in Seq(FrameType(t, n)) /\ b.meta \in Seq(NodeType(t)) /\ Len(b.meta) = n
         /\ b.docs \in Seq(1 .. n) /\ n \in Nat
         /\ \A i \in 1 .. n : b.meta[i] \in NodeType(t)
<1>1. /\ b.before \in SUBSET Line(t) /\ b.inline \in LineOr(t) /\ b.lastLine \in LineOr(t)
      /\ b.blockEnd \in BOOLEAN /\ b.table \in SUBSET t.anchors
      /\ b.stack \in Seq(FrameType(t, n)) /\ b.meta \in Seq(NodeType(t)) /\ Len(b.meta) = n
      /\ b.docs \in Seq(1 .. n) /\ n \in Nat
  BY DEF Sound, BuilderType
<1>2. QED
  BY <1>1

\* No line and no key are among the values of their fields.
LEMMA NoneIsNoLine ==
  ASSUME NEW t
  PROVE  NoLine \in LineOr(t) /\ Line(t) \subseteq LineOr(t) /\ NoKey \in Key(t) /\ ComplexKey \in Key(t)
BY DEF LineOr, Key

\* The frame on top may change in what Alike does not speak of.
LEMMA AlikeTop ==
  ASSUME NEW t, NEW n, NEW b, Sound(b, t, n), b.stack # <<>>, NEW f \in FrameType(t, n),
         f.kind = TopOf(b).kind, f.key = TopOf(b).key, f.anchor = TopOf(b).anchor
  PROVE  Alike(b, SetTop(b, f))
<1> DEFINE c == SetTop(b, f)
<1>1. /\ Len(c.stack) = Len(b.stack) /\ c.stack[Len(b.stack)] = f
      /\ \A i \in 1 .. Len(b.stack) : i # Len(b.stack) => c.stack[i] = b.stack[i]
  BY NewTop
<1> HIDE DEF c
<1>2. \A i \in 1 .. Len(b.stack) :
        /\ c.stack[i].kind = b.stack[i].kind /\ c.stack[i].key = b.stack[i].key
        /\ c.stack[i].anchor = b.stack[i].anchor
  BY <1>1 DEF TopOf
<1>3. QED
  BY <1>1, <1>2 DEF Alike, c

\* Alike is reflexive and transitive.
LEMMA AlikeSame ==
  ASSUME NEW b, NEW c, c.stack = b.stack
  PROVE  Alike(b, c)
BY DEF Alike

LEMMA AlikeTransitive ==
  ASSUME NEW b, NEW c, NEW d, Alike(b, c), Alike(c, d)
  PROVE  Alike(b, d)
BY DEF Alike

(***************************************************************************)
(* attach_inline and absorb_comments.                                      *)
(***************************************************************************)
\* A node takes a comment.
LEMMA SetInlineKeeps ==
  ASSUME NEW t, NEW n, NEW b, Sound(b, t, n), NEW k \in 1 .. n, NEW l \in LineOr(t)
  PROVE  LET c == SetInline(b, k, l)
         IN  /\ Sound(c, t, n) /\ c.stack = b.stack /\ Rest(b, c) /\ c.table = b.table
             /\ c.before = b.before /\ c.lastLine = b.lastLine /\ c.inline = b.inline
             /\ c.blockEnd = b.blockEnd
<1> DEFINE m == [b.meta[k] EXCEPT !.inline = IF b.meta[k].inline = NoLine THEN l ELSE b.meta[k].inline]
<1>1. b.meta[k] \in NodeType(t)
  BY FieldTypes
<1>2. m \in NodeType(t)
  BY <1>1 DEF NodeType
<1>3. SetInline(b, k, l) = [b EXCEPT !.meta[k] = m]
  BY DEF SetInline
<1> HIDE DEF m
<1>4. QED
  BY <1>2, <1>3, NewMeta

\* attach_inline changes no frame's kind, key or anchor, wherever the comment goes.
LEMMA AttachInlineKeeps ==
  ASSUME NEW t, NEW n, NEW b, Sound(b, t, n), NEW l \in LineOr(t)
  PROVE  LET c == AttachInline(b, l)
         IN  /\ Sound(c, t, n) /\ Alike(b, c) /\ Rest(b, c) /\ c.table = b.table
             /\ c.before = b.before /\ c.lastLine = b.lastLine
<1>1. CASE HasKey(b)
  <2> DEFINE f == [TopOf(b) EXCEPT !.inline = l]
  <2>1. b.stack # <<>> /\ TopOf(b) \in FrameType(t, n)
    BY <1>1, TopIs DEF HasKey
  <2>2. f \in FrameType(t, n) /\ f.kind = TopOf(b).kind /\ f.key = TopOf(b).key /\ f.anchor = TopOf(b).anchor
    BY <2>1 DEF FrameType
  <2>3. AttachInline(b, l) = SetTop(b, f)
    <3>1. HasKey(b) /\ b.stack # <<>>
      BY <1>1, <2>1
    <3>2. AttachInline(b, l) = [b EXCEPT !.stack[Len(b.stack)].inline = l]
      BY <3>1 DEF AttachInline
    <3>3. QED
      BY <3>2 DEF SetTop, TopOf
  <2> HIDE DEF f
  <2>4. QED
    BY <2>1, <2>2, <2>3, NewTop, AlikeTop
<1>2. CASE b.stack # <<>> /\ ~HasKey(b) /\ TopOf(b).entries # <<>>
  <2> DEFINE es == TopOf(b).entries
             k == es[Len(es)].node
  <2>1. es \in Seq(EntryType(t, n))
    BY <1>2, TopIs DEF FrameType
  <2>2. k \in 1 .. n
    <3>1. Len(es) \in 1 .. Len(es)
      BY <1>2, <2>1
    <3>2. es[Len(es)] \in EntryType(t, n)
      BY <2>1, <3>1
    <3>3. QED
      BY <3>2 DEF EntryType
  <2>3. AttachInline(b, l) = SetInline(b, k, l)
    BY <1>2 DEF AttachInline
  <2> HIDE DEF es, k
  <2>4. QED
    BY <2>2, <2>3, SetInlineKeeps, AlikeSame
<1>3. CASE b.stack = <<>> /\ b.hasRoot
  <2>1. b.docs[Len(b.docs)] \in 1 .. n
    <3>1. b.docs \in Seq(1 .. n) /\ b.docs # <<>>
      BY <1>3 DEF Sound, BuilderType
    <3>2. Len(b.docs) \in 1 .. Len(b.docs)
      BY <3>1
    <3>3. QED
      BY <3>1, <3>2, ElementOfSeq
  <2>2. AttachInline(b, l) = SetInline(b, b.docs[Len(b.docs)], l)
    BY <1>3 DEF AttachInline, HasKey
  <2>3. QED
    BY <2>1, <2>2, SetInlineKeeps, AlikeSame
<1>4. CASE ~HasKey(b) /\ ~(b.stack # <<>> /\ ~HasKey(b) /\ TopOf(b).entries # <<>>)
           /\ ~(b.stack = <<>> /\ b.hasRoot)
  <2>1. AttachInline(b, l) = [b EXCEPT !.inline = l]
    BY <1>4 DEF AttachInline
  <2> DEFINE c == With(b, b.before, l, b.lastLine, b.blockEnd, b.table)
  <2>2. [b EXCEPT !.inline = l] = c
    BY DEF Sound, BuilderType, With
  <2>3. /\ Sound(c, t, n) /\ c.stack = b.stack /\ Rest(b, c)
        /\ c.before = b.before /\ c.lastLine = b.lastLine /\ c.table = b.table
    <3>1. /\ b.before \in SUBSET Line(t) /\ b.lastLine \in LineOr(t)
          /\ b.blockEnd \in BOOLEAN /\ b.table \in SUBSET t.anchors
      BY FieldTypes
    <3>2. QED
      BY <3>1, NewFields
  <2>4. AttachInline(b, l) = c
    BY <2>1, <2>2
  <2> HIDE DEF c
  <2>5. QED
    BY <2>3, <2>4, AlikeSame
<1>5. QED
  BY <1>1, <1>2, <1>3, <1>4

\* Neither does absorb_comments.
LEMMA AbsorbKeeps ==
  ASSUME NEW t, NEW n, NEW b, Sound(b, t, n), NEW cs \in SUBSET Line(t)
  PROVE  LET c == Absorb(b, cs)
         IN  Sound(c, t, n) /\ Alike(b, c) /\ Rest(b, c) /\ c.table = b.table
             /\ c.lastLine = b.lastLine
<1> DEFINE own == {c \in cs : ~b.blockEnd /\ c = b.lastLine}
           d == IF own = {} THEN b ELSE AttachInline(b, b.lastLine)
           w == d.before \cup (cs \ own)
<1>1. /\ Sound(d, t, n) /\ Alike(b, d) /\ Rest(b, d) /\ d.table = b.table
      /\ d.lastLine = b.lastLine
  <2>1. CASE own = {}
    BY <2>1, AlikeSame DEF Rest
  <2>2. CASE own # {}
    <3>1. b.lastLine \in LineOr(t) /\ d = AttachInline(b, b.lastLine)
      BY <2>2, FieldTypes
    <3> HIDE DEF d
    <3>2. QED
      BY <3>1, AttachInlineKeeps
  <2>3. QED
    BY <2>1, <2>2
<1>2. Absorb(b, cs) = [d EXCEPT !.before = w, !.blockEnd = FALSE]
  BY DEF Absorb
<1>3. w \in SUBSET Line(t) /\ FALSE \in BOOLEAN
  <2>1. own \subseteq cs
    OBVIOUS
  <2> HIDE DEF d, own
  <2>2. QED
    BY <1>1, <2>1, FieldTypes
<1> HIDE DEF d, w
<1>4. [d EXCEPT !.before = w, !.blockEnd = FALSE]
        = With(d, w, d.inline, d.lastLine, FALSE, d.table)
  BY <1>1 DEF Sound, BuilderType, With
<1> DEFINE c == Absorb(b, cs)
<1>5. Sound(c, t, n) /\ c.stack = d.stack /\ Rest(d, c) /\ c.table = d.table /\ c.lastLine = d.lastLine
  <2>1. /\ d.inline \in LineOr(t) /\ d.lastLine \in LineOr(t) /\ d.table \in SUBSET t.anchors
    BY <1>1, FieldTypes
  <2>0. PICK e \in BOOLEAN : e = FALSE
    OBVIOUS
  <2>2. c = With(d, w, d.inline, d.lastLine, e, d.table)
    BY <1>2, <1>4, <2>0
  <2> HIDE DEF c
  <2>3. QED
    BY <1>1, <1>3, <2>1, <2>2, NewFields
<1> HIDE DEF c
<1>6. Alike(b, c)
  BY <1>1, <1>5, AlikeSame, AlikeTransitive
<1>7. QED
  BY <1>1, <1>5, <1>6 DEF Rest, c

(***************************************************************************)
(* Counting blank lines; the greatest line.                                *)
(***************************************************************************)
\* The counts of blank lines are numbers, and none is a count.
LEMMA BlanksAre == BlankLimit \in Nat /\ BlankLines \subseteq Nat /\ 0 \in BlankLines
BY BuilderConstants DEF BlankLines

\* The smaller of two numbers.
LEMMA MinOfTwo ==
  ASSUME NEW i \in Nat, NEW j \in Nat
  PROVE  Min({i, j}) = IF i <= j THEN i ELSE j
<1>1. CASE i <= j
  <2>1. i \in {i, j} /\ \A x, y \in {i, j} : x <= y /\ y <= x => x = y
    OBVIOUS
  <2>2. \A y \in {i, j} : i <= y
    BY <1>1
  <2>3. Min({i, j}) = i
    BY <2>1, <2>2 DEF Min
  <2>4. QED
    BY <1>1, <2>3
<1>2. CASE ~(i <= j)
  <2>1. j \in {i, j} /\ \A x, y \in {i, j} : x <= y /\ y <= x => x = y
    OBVIOUS
  <2>2. \A y \in {i, j} : j <= y
    BY <1>2
  <2>3. Min({i, j}) = j
    BY <2>1, <2>2 DEF Min
  <2>4. QED
    BY <1>2, <2>3
<1>3. QED
  BY <1>1, <1>2

\* The limit keeps a count within the limit.
LEMMA Clamped ==
  ASSUME NEW k \in Nat
  PROVE  Min({BlankLimit, k}) \in BlankLines /\ Min({BlankLimit, k}) <= k
<1>1. BlankLimit \in Nat
  BY BlanksAre
<1>2. Min({BlankLimit, k}) = IF BlankLimit <= k THEN BlankLimit ELSE k
  BY <1>1, MinOfTwo
<1> DEFINE m == Min({BlankLimit, k})
<1> HIDE DEF m
<1>3. m \in 0 .. BlankLimit /\ m <= k
  BY <1>1, <1>2 DEF m
<1>4. QED
  BY <1>3 DEF m, BlankLines

\* The count of blank lines is a number a node can record.
LEMMA CountType ==
  ASSUME NEW t, Text(t), NEW n, NEW b, Sound(b, t, n), NEW line \in Line(t)
  PROVE  CountBlankLines(b, line) \in BlankLines /\ CountBlankLines(b, line) \in Nat
<1>1. t.lines \in Nat /\ b.before \in SUBSET Line(t) /\ b.lastLine \in Int /\ line \in Int
  <2>1. b.before \in SUBSET Line(t) /\ b.lastLine \in LineOr(t)
    BY FieldTypes
  <2>2. t.lines \in Nat /\ line \in Int
    BY DEF Text, Line
  <2>3. QED
    BY <2>1, <2>2 DEF Line, LineOr, NoLine
<1>2. Cardinality(Above(b, line)) \in Nat
  <2>1. IsFiniteSet(1 .. t.lines)
    BY <1>1, FS_Interval
  <2>2. Above(b, line) \in SUBSET (1 .. t.lines)
    BY <1>1 DEF Above, Line
  <2>3. QED
    BY <2>1, <2>2, FS_Subset, FS_CardinalityType
<1>3. QED
  <2> DEFINE k == Cardinality(Above(b, line))
             between == line - b.lastLine - 1
  <2>1. k \in Nat /\ between \in Int
    BY <1>1, <1>2
  <2>2. CountBlankLines(b, line)
          = IF b.lastLine = NoLine \/ line <= b.lastLine + 1 \/ between <= k
            THEN 0 ELSE Min({BlankLimit, between - k})
    BY DEF CountBlankLines
  <2> HIDE DEF k, between
  <2>3. ~(between <= k) => between - k \in Nat
    BY <2>1
  <2>4. ~(between <= k) => Min({BlankLimit, between - k}) \in BlankLines
    BY <2>3, Clamped
  <2>5. CountBlankLines(b, line) \in BlankLines
    BY <2>2, <2>4, BlanksAre
  <2>6. QED
    BY <2>5, BlanksAre

\* The greatest of some numbers is one of them.
LEMMA MaxIs ==
  ASSUME NEW n \in Nat, NEW S \in SUBSET (0 .. n), S # {}
  PROVE  Max(S) \in S /\ \A k \in S : k <= Max(S)
<1> DEFINE T == {n - k : k \in S}
<1>1. T \in SUBSET Nat /\ T # {}
  <2>1. \A k \in S : n - k \in Nat
    OBVIOUS
  <2>2. QED
    BY <2>1
<1>2. Min(T) \in T /\ \A j \in T : Min(T) <= j
  BY <1>1, MinIs
<1> DEFINE j == Min(T)
<1> HIDE DEF j
<1>3. PICK m \in S : j = n - m
  BY <1>2 DEF j
<1>4. ASSUME NEW k \in S PROVE m >= k
  <2>1. n - k \in T
    OBVIOUS
  <2>2. n - m <= n - k
    BY <1>2, <1>3, <2>1 DEF j
  <2>3. m \in Int /\ k \in Int
    OBVIOUS
  <2>4. QED
    BY <2>2, <2>3
<1>5. \E x \in S : \A y \in S : x >= y
  BY <1>4
<1>6. Max(S) \in S /\ \A y \in S : Max(S) >= y
  BY <1>5 DEF Max
<1>7. QED
  BY <1>6

(***************************************************************************)
(* push_node.                                                              *)
(***************************************************************************)

\* c is b after the completion of a node: a root, a value, a complex key or an item.
Completes(b, c) ==
  IF b.stack = <<>>
  THEN /\ c.stack = <<>> /\ c.hasRoot = TRUE
       /\ Len(c.docs) = Len(b.docs) + 1 /\ c.nextMeta = 0 /\ c.docEnds = b.docEnds
       /\ c.docsMeta = Append(b.docsMeta, [start |-> b.nextMeta, end |-> 0, explicit_end |-> FALSE])
  ELSE /\ Rest(b, c)
       /\ Len(c.stack) = Len(b.stack)
       /\ \A i \in 1 .. Len(b.stack) :
            /\ c.stack[i].kind = b.stack[i].kind /\ c.stack[i].anchor = b.stack[i].anchor
            /\ i # Len(b.stack) => c.stack[i].key = b.stack[i].key
       /\ TopOf(b).kind = "map" => (TopOf(c).key = NoKey <=> TopOf(b).key # NoKey)

\* attach_metadata gives a node metadata.
LEMMA AttachedType ==
  ASSUME NEW t, NEW n, NEW m \in NodeType(t), NEW f \in FrameType(t, n)
  PROVE  Attached(m, f) \in NodeType(t)
<1>1. /\ f.before \in SUBSET Line(t) /\ f.inline \in LineOr(t) /\ f.blanks \in BlankLines
  BY DEF FrameType
<1>2. /\ m.before \in SUBSET Line(t) /\ m.inline \in LineOr(t) /\ m.blanks \in BlankLines
  BY DEF NodeType
<1> DEFINE w == IF f.before # {} THEN f.before ELSE m.before
           l == IF f.inline # NoLine THEN f.inline ELSE m.inline
           k == IF f.blanks > 0 THEN f.blanks ELSE m.blanks
<1>3. w \in SUBSET Line(t) /\ l \in LineOr(t) /\ k \in BlankLines
  BY <1>1, <1>2
<1>4. Attached(m, f) = [m EXCEPT !.before = w, !.inline = l, !.blanks = k]
  BY DEF Attached, NodeType
<1> HIDE DEF w, l, k
<1>5. QED
  BY <1>3, <1>4 DEF NodeType

\* An inserted entry is an entry, and there is one.
LEMMA InsertType ==
  ASSUME NEW t, NEW n, NEW s \in Seq(EntryType(t, n)), NEW key \in Key(t), NEW k \in 1 .. n
  PROVE  Insert(s, key, k) \in Seq(EntryType(t, n)) /\ Insert(s, key, k) # <<>>
<1> DEFINE e == [key |-> key, node |-> k]
<1>1. e \in EntryType(t, n)
  BY DEF EntryType
<1>2. CASE key # ComplexKey /\ \E i \in DOMAIN s : s[i].key = key
  <2> DEFINE r == [i \in DOMAIN s |-> IF s[i].key = key THEN e ELSE s[i]]
  <2>1. Insert(s, key, k) = r
    BY <1>2 DEF Insert
  <2> HIDE DEF e
  <2>2. DOMAIN s = 1 .. Len(s) /\ Len(s) \in Nat /\ \A i \in 1 .. Len(s) : s[i] \in EntryType(t, n)
    OBVIOUS
  <2>3. r \in [1 .. Len(s) -> EntryType(t, n)]
    BY <1>1, <2>2
  <2>4. Len(s) # 0
    BY <1>2, <2>2
  <2> HIDE DEF r
  <2>5. r \in Seq(EntryType(t, n))
    BY <2>2, <2>3, IsASeq
  <2>6. DOMAIN r = 1 .. Len(s)
    BY <2>3
  <2>7. r # <<>>
    <3>1. 1 \in DOMAIN r
      BY <2>2, <2>4, <2>6
    <3>2. QED
      BY <3>1
  <2>8. QED
    BY <2>1, <2>5, <2>7
<1>3. CASE ~(key # ComplexKey /\ \E i \in DOMAIN s : s[i].key = key)
  <2>1. Insert(s, key, k) = Append(s, e)
    BY <1>3 DEF Insert
  <2> HIDE DEF e
  <2>2. Append(s, e) \in Seq(EntryType(t, n)) /\ Len(Append(s, e)) = Len(s) + 1
    BY <1>1, AppendProperties
  <2>3. QED
    BY <2>1, <2>2
<1>4. QED
  BY <1>2, <1>3

\* The frame whose pending entry has been made.
Emptied(f, s) ==
  [[f EXCEPT !.key = NoKey, !.before = {}, !.inline = NoLine, !.blanks = 0] EXCEPT !.entries = s]

\* It is a frame.
LEMMA EmptiedType ==
  ASSUME NEW t, NEW n, NEW f \in FrameType(t, n), NEW s \in Seq(EntryType(t, n))
  PROVE  LET g == Emptied(f, s)
         IN  /\ g \in FrameType(t, n) /\ g.kind = f.kind /\ g.anchor = f.anchor
             /\ g.key = NoKey /\ g.entries = s
<1> DEFINE g1 == [f EXCEPT !.key = NoKey, !.before = {}, !.inline = NoLine, !.blanks = 0]
           g == [g1 EXCEPT !.entries = s]
<1>0. NoKey \in Key(t) /\ NoLine \in LineOr(t) /\ {} \in SUBSET Line(t) /\ 0 \in BlankLines
  BY NoneIsNoLine, BlanksAre
<1>1. g1 \in FrameType(t, n) /\ g1.kind = f.kind /\ g1.anchor = f.anchor /\ g1.key = NoKey
  BY <1>0 DEF FrameType
<1> HIDE DEF g1
<1>2. g \in FrameType(t, n)
  BY <1>1 DEF FrameType
<1>3. g.kind = g1.kind /\ g.anchor = g1.anchor /\ g.key = g1.key /\ g.entries = s
  BY <1>1 DEF FrameType
<1>4. QED
  BY <1>1, <1>2, <1>3 DEF g1, Emptied

\* push_node completes the node.
LEMMA PushNodeKeeps ==
  ASSUME NEW t, NEW n, NEW b, Sound(b, t, n), NEW k \in 1 .. n
  PROVE  LET c == PushNode(b, k)
         IN  /\ Sound(c, t, n) /\ Completes(b, c) /\ c.table = b.table
             /\ HasKey(b) => TopOf(c).entries # <<>>
<1>1. CASE b.stack = <<>>
  <2> DEFINE own == [start |-> b.nextMeta, end |-> 0, explicit_end |-> FALSE]
             ds == Append(b.docs, k)
             dm == Append(b.docsMeta, own)
             c == [b EXCEPT !.docs = ds, !.docsMeta = dm, !.nextMeta = 0, !.hasRoot = TRUE]
  <2>1. PushNode(b, k) = c
    BY <1>1 DEF PushNode
  <2>2. b.docs \in Seq(1 .. n) /\ b.docsMeta \in Seq(DocType) /\ b.nextMeta \in Nat /\ n \in Nat
    BY DEF Sound, BuilderType
  <2>3. own \in DocType
    BY <2>2 DEF DocType
  <2>4. dm \in Seq(DocType)
    <3> HIDE DEF own
    <3>1. QED
      BY <2>2, <2>3, AppendProperties
  <2>5. ds \in Seq(1 .. n) /\ Len(ds) = Len(b.docs) + 1
    BY <2>2, AppendProperties
  <2> HIDE DEF own, ds, dm
  <2>6. c \in BuilderType(t, n)
    BY <2>4, <2>5 DEF Sound, BuilderType
  <2>7. /\ c.stack = b.stack /\ c.docs = ds /\ c.docsMeta = dm /\ c.nextMeta = 0 /\ c.hasRoot = TRUE
        /\ c.meta = b.meta /\ c.docEnds = b.docEnds /\ c.table = b.table
    BY DEF Sound, BuilderType
  <2> HIDE DEF c
  <2>8. ds # <<>>
    BY <2>2, <2>5
  <2>9. Sound(c, t, n)
    BY <2>6, <2>7, <2>8 DEF Sound
  <2>10. Completes(b, c)
    BY <1>1, <2>5, <2>7 DEF Completes, dm, own
  <2>11. ~HasKey(b)
    BY <1>1 DEF HasKey
  <2>12. QED
    BY <2>1, <2>7, <2>9, <2>10, <2>11
<1>2. CASE b.stack # <<>> /\ TopOf(b).kind = "map" /\ TopOf(b).key = NoKey
  <2> DEFINE f == TopOf(b)
             l == b.meta[k].first
             g == [f EXCEPT !.key = ComplexKey, !.from = l]
             c == SetTop(b, g)
  <2>1. PushNode(b, k) = c
    BY <1>2 DEF PushNode
  <2>2. f \in FrameType(t, n) /\ l \in LineOr(t) /\ ComplexKey \in Key(t)
    <3>1. f \in FrameType(t, n) /\ b.meta[k] \in NodeType(t) /\ ComplexKey \in Key(t)
      BY <1>2, TopIs, FieldTypes, NoneIsNoLine
    <3>2. QED
      BY <3>1 DEF NodeType
  <2> HIDE DEF f, l
  <2>3. g \in FrameType(t, n) /\ g.kind = f.kind /\ g.anchor = f.anchor /\ g.key = ComplexKey
    BY <2>2 DEF FrameType
  <2> HIDE DEF g
  <2>4. /\ Sound(c, t, n) /\ Rest(b, c) /\ c.table = b.table
        /\ Len(c.stack) = Len(b.stack) /\ c.stack[Len(b.stack)] = g /\ TopOf(c) = g
        /\ \A i \in 1 .. Len(b.stack) : i # Len(b.stack) => c.stack[i] = b.stack[i]
    BY <1>2, <2>3, NewTop
  <2> HIDE DEF c
  <2>5. \A i \in 1 .. Len(b.stack) :
          /\ c.stack[i].kind = b.stack[i].kind /\ c.stack[i].anchor = b.stack[i].anchor
          /\ i # Len(b.stack) => c.stack[i].key = b.stack[i].key
    BY <2>3, <2>4 DEF f, TopOf
  <2>6. TopOf(c).key # NoKey
    BY <2>3, <2>4, BuilderConstants DEF NoKey
  <2>7. Completes(b, c)
    BY <1>2, <2>4, <2>5, <2>6 DEF Completes
  <2>8. ~HasKey(b)
    BY <1>2 DEF HasKey
  <2>9. QED
    BY <2>1, <2>4, <2>7, <2>8
<1>3. CASE b.stack # <<>> /\ ~(TopOf(b).kind = "map" /\ TopOf(b).key = NoKey)
  <2> DEFINE f == TopOf(b)
             s == Insert(f.entries, f.key, k)
             g == Emptied(f, s)
             d == SetTop(b, g)
             m == Attached(d.meta[k], f)
             c == [d EXCEPT !.meta[k] = m]
  <2>1. f \in FrameType(t, n)
    BY <1>3, TopIs
  <2>2. f.entries \in Seq(EntryType(t, n)) /\ f.key \in Key(t)
    BY <2>1 DEF FrameType
  <2>3. [[f EXCEPT !.key = NoKey, !.before = {}, !.inline = NoLine, !.blanks = 0]
           EXCEPT !.entries = Insert(@, f.key, k)] = g
    BY <2>1 DEF FrameType, Emptied
  <2>4. PushNode(b, k) = c
    BY <1>3, <2>3 DEF PushNode
  <2>5. s \in Seq(EntryType(t, n)) /\ s # <<>>
    BY <2>2, InsertType
  <2> HIDE DEF f, s
  <2>6. /\ g \in FrameType(t, n) /\ g.kind = f.kind /\ g.anchor = f.anchor
        /\ g.key = NoKey /\ g.entries = s
    BY <2>1, <2>5, EmptiedType
  <2> HIDE DEF g
  <2>7. /\ Sound(d, t, n) /\ Rest(b, d) /\ d.table = b.table
        /\ Len(d.stack) = Len(b.stack) /\ d.stack[Len(b.stack)] = g
        /\ \A i \in 1 .. Len(b.stack) : i # Len(b.stack) => d.stack[i] = b.stack[i]
    BY <1>3, <2>6, NewTop
  <2> HIDE DEF d
  <2>8. m \in NodeType(t)
    BY <2>1, <2>7, FieldTypes, AttachedType
  <2> HIDE DEF m
  <2>9. Sound(c, t, n) /\ c.stack = d.stack /\ Rest(d, c) /\ c.table = d.table
    BY <2>7, <2>8, NewMeta
  <2> HIDE DEF c
  <2>10. /\ Rest(b, c) /\ Len(c.stack) = Len(b.stack) /\ TopOf(c) = g
         /\ \A i \in 1 .. Len(b.stack) : i # Len(b.stack) => c.stack[i] = b.stack[i]
    BY <2>7, <2>9 DEF TopOf, Rest
  <2>11. \A i \in 1 .. Len(b.stack) :
          /\ c.stack[i].kind = b.stack[i].kind /\ c.stack[i].anchor = b.stack[i].anchor
          /\ i # Len(b.stack) => c.stack[i].key = b.stack[i].key
    BY <2>6, <2>7, <2>9, <2>10 DEF f, TopOf
  <2>12. Completes(b, c)
    BY <1>3, <2>6, <2>10, <2>11 DEF Completes
  <2>13. QED
    BY <2>4, <2>5, <2>6, <2>7, <2>9, <2>10, <2>12
<1>4. QED
  BY <1>1, <1>2, <1>3

\* A change that leaves the stack and the documents alone may go before.
LEMMA CompletesFrom ==
  ASSUME NEW b, NEW c, NEW d, d.stack = b.stack, Rest(b, d), Completes(d, c)
  PROVE  Completes(b, c)
BY DEF Completes, Rest, TopOf

LEMMA RestTransitive ==
  ASSUME NEW b, NEW c, NEW d, Rest(b, d), Rest(d, c)
  PROVE  Rest(b, c)
BY DEF Rest

\* Where an entry begins is a line, or none is known.
LEMMA OutsetType ==
  ASSUME NEW t, NEW n, NEW b, Sound(b, t, n), NEW from \in LineOr(t)
  PROVE  Outset(b, from) \in LineOr(t)
<1>1. CASE HasKey(b)
  <2>1. b.stack # <<>>
    BY <1>1 DEF HasKey
  <2>2. TopOf(b).from \in LineOr(t)
    BY <2>1, TopIs DEF FrameType
  <2>3. QED
    BY <1>1, <2>2 DEF Outset
<1>2. CASE b.stack # <<>> /\ ~HasKey(b) /\ TopOf(b).entries = <<>>
  <2>1. TopOf(b).node \in 1 .. n
    BY <1>2, TopIs DEF FrameType
  <2>2. b.meta[TopOf(b).node].first \in LineOr(t)
    BY <2>1, FieldTypes DEF NodeType
  <2>3. QED
    BY <1>2, <2>2 DEF Outset
<1>3. CASE ~HasKey(b) /\ ~(b.stack # <<>> /\ ~HasKey(b) /\ TopOf(b).entries = <<>>)
  BY <1>3 DEF Outset
<1>4. QED
  BY <1>1, <1>2, <1>3

\* A new node changes nothing else.
LEMMA NewNodeKeeps ==
  ASSUME NEW t, NEW n, NEW b, Sound(b, t, n), NEW from \in LineOr(t), NEW last \in Line(t)
  PROVE  LET c == NewNode(b, from, last)
         IN  /\ Sound(c, t, n + 1) /\ c.stack = b.stack /\ Rest(b, c) /\ Len(c.meta) = n + 1
             /\ c.lastLine = b.lastLine /\ c.before = b.before
             /\ c.inline = b.inline /\ c.blockEnd = b.blockEnd /\ c.table = b.table
<1> DEFINE o == Outset(b, from)
           m == Node(o, last)
           c == [b EXCEPT !.meta = Append(@, m)]
<1>1. o \in LineOr(t)
  BY OutsetType
<1>2. NewNode(b, from, last) = c
  BY DEF NewNode
<1> HIDE DEF o
<1>3. m \in NodeType(t)
  BY <1>1, NoneIsNoLine, BlanksAre DEF Node, NodeType
<1> HIDE DEF m
<1>4. /\ Sound(c, t, n + 1) /\ c.stack = b.stack /\ Rest(b, c)
      /\ c.lastLine = b.lastLine /\ c.before = b.before
      /\ c.inline = b.inline /\ c.blockEnd = b.blockEnd /\ c.table = b.table
  BY <1>3, MoreNodes
<1> HIDE DEF c
<1>5. Len(c.meta) = n + 1
  BY <1>4 DEF Sound
<1>6. QED
  BY <1>2, <1>4, <1>5

\* The names that an anchor adds.
Named(anchor) == {anchor} \ {None}

(***************************************************************************)
(* Scalars and aliases.                                                    *)
(***************************************************************************)

\* What a scalar leaves behind before it is placed: the comments it has not claimed,
\* its last line, its anchor.
Read(b, claimed, p, anchor) == With(b, b.before \ claimed, NoLine, p, b.blockEnd, b.table \cup Named(anchor))

\* Reading a scalar keeps the stack and the documents.
LEMMA ReadKeeps ==
  ASSUME NEW t, NEW n, NEW b, Sound(b, t, n), NEW claimed, NEW p \in LineOr(t),
         NEW anchor \in t.anchors \cup {None}
  PROVE  LET c == Read(b, claimed, p, anchor)
         IN  /\ Sound(c, t, n) /\ c.stack = b.stack /\ Rest(b, c)
             /\ c.table = b.table \cup Named(anchor)
<1> DEFINE w == b.before \ claimed
           a == b.table \cup Named(anchor)
           c == With(b, w, NoLine, p, b.blockEnd, a)
<1>1. w \in SUBSET Line(t) /\ NoLine \in LineOr(t) /\ b.blockEnd \in BOOLEAN /\ a \in SUBSET t.anchors
  BY FieldTypes, NoneIsNoLine DEF Named
<1> HIDE DEF w
<1>2. a = b.table \cup Named(anchor)
  OBVIOUS
<1> HIDE DEF a
<1>3. /\ Sound(c, t, n) /\ c.stack = b.stack /\ Rest(b, c) /\ c.table = a
  BY <1>1, NewFields
<1> HIDE DEF c
<1>4. QED
  BY <1>2, <1>3 DEF Read, c, w, a

\* A node with other comments or blank lines is a node.
LEMMA DescribedType ==
  ASSUME NEW t, NEW m \in NodeType(t), NEW w \in SUBSET Line(t), NEW l \in LineOr(t)
  PROVE  /\ [m EXCEPT !.before = w, !.inline = l] \in NodeType(t)
         /\ [m EXCEPT !.inline = l] \in NodeType(t)
BY DEF NodeType

LEMMA SpacedType ==
  ASSUME NEW t, NEW m \in NodeType(t), NEW k \in BlankLines
  PROVE  [m EXCEPT !.blanks = k] \in NodeType(t)
BY DEF NodeType

\* A node with its comments, and with its blank lines.
Described(b, k, w, l) == [b EXCEPT !.meta[k].before = w, !.meta[k].inline = l]

Spaced(b, k, j) == [b EXCEPT !.meta[k].blanks = j]

\* A node that takes comments changes nothing else, nor does one that takes blank lines.
LEMMA ItemKeeps ==
  ASSUME NEW t, NEW n, NEW b, Sound(b, t, n), NEW k \in 1 .. n,
         NEW w \in SUBSET Line(t), NEW l \in LineOr(t)
  PROVE  LET c == Described(b, k, w, l)
         IN  /\ Sound(c, t, n) /\ c.stack = b.stack /\ Rest(b, c) /\ c.table = b.table
<1> DEFINE m == [b.meta[k] EXCEPT !.before = w, !.inline = l]
           c == [b EXCEPT !.meta[k] = m]
<1>1. b.meta \in Seq(NodeType(t)) /\ Len(b.meta) = n /\ b.meta[k] \in NodeType(t)
  BY FieldTypes
<1>2. m \in NodeType(t)
  BY <1>1, DescribedType
<1>3. Described(b, k, w, l) = c
  <2>1. k \in DOMAIN b.meta
    BY <1>1
  <2>2. QED
    BY <1>1, <2>1 DEF Sound, BuilderType, Described
<1> HIDE DEF m
<1>4. Sound(c, t, n) /\ c.stack = b.stack /\ Rest(b, c) /\ c.table = b.table
  BY <1>2, NewMeta
<1>5. QED
  BY <1>3, <1>4

LEMMA BlanksKeep ==
  ASSUME NEW t, NEW n, NEW b, Sound(b, t, n), NEW k \in 1 .. n, NEW j \in BlankLines
  PROVE  LET c == Spaced(b, k, j)
         IN  /\ Sound(c, t, n) /\ c.stack = b.stack /\ Rest(b, c) /\ c.table = b.table
<1> DEFINE m == [b.meta[k] EXCEPT !.blanks = j]
           c == [b EXCEPT !.meta[k] = m]
<1>1. b.meta[k] \in NodeType(t)
  BY FieldTypes
<1>2. m \in NodeType(t)
  BY <1>1, SpacedType
<1> HIDE DEF m
<1>4. Sound(c, t, n) /\ c.stack = b.stack /\ Rest(b, c) /\ c.table = b.table
  BY <1>2, NewMeta
<1>5. QED
  BY <1>4 DEF m, Spaced

\* Where a scalar that is not a block ends, and where a block does.
LastLineRead(form, line, end) == IF form = "block" THEN Max({end - 1, line}) ELSE end

\* It is a line.
LEMMA LastLineReadType ==
  ASSUME NEW t, Text(t), NEW form, NEW line \in Line(t), NEW end \in Line(t)
  PROVE  LastLineRead(form, line, end) \in LineOr(t)
<1>1. t.lines \in Nat /\ line \in 1 .. t.lines /\ end \in 1 .. t.lines
  BY DEF Text, Line
<1> DEFINE S == {end - 1, line}
<1>2. S \in SUBSET (0 .. t.lines) /\ S # {}
  BY <1>1
<1> HIDE DEF S
<1>3. Max(S) \in S
  BY <1>1, <1>2, MaxIs
<1>4. Max(S) \in 0 .. t.lines
  BY <1>2, <1>3
<1>5. 0 .. t.lines \subseteq LineOr(t)
  BY <1>1 DEF LineOr, Line, NoLine
<1>6. QED
  BY <1>4, <1>5, NoneIsNoLine DEF LastLineRead, S

\* The parts of PlaceScalar.
Claimed(b, line) == IF ~HasKey(b) THEN Above(b, line) ELSE {}

OwnLine(b, form, line, end) ==
  LET l == IF form = "block" THEN line ELSE end
  IN  {c \in b.before \ Claimed(b, line) : c = l}

Deferred(b, form, line, end) ==
  IF b.inline # NoLine THEN b.inline
  ELSE IF OwnLine(b, form, line, end) # {} THEN IF form = "block" THEN line ELSE end ELSE NoLine

Blanks(b, form, line) == IF ~HasKey(b) /\ form # "empty" THEN CountBlankLines(b, line) ELSE 0

\* The parts have the types of the fields they go to.
LEMMA PartTypes ==
  ASSUME NEW t, Text(t), NEW n, NEW b, Sound(b, t, n), NEW form, NEW line \in Line(t), NEW end \in Line(t)
  PROVE  /\ Claimed(b, line) \in SUBSET Line(t)
         /\ Deferred(b, form, line, end) \in LineOr(t)
         /\ Blanks(b, form, line) \in BlankLines /\ Blanks(b, form, line) \in Nat
<1>1. b.before \in SUBSET Line(t) /\ b.inline \in LineOr(t)
  BY FieldTypes
<1>2. Above(b, line) \in SUBSET Line(t)
  BY <1>1 DEF Above
<1>3. CountBlankLines(b, line) \in BlankLines /\ CountBlankLines(b, line) \in Nat
  BY CountType
<1>4. Claimed(b, line) \in SUBSET Line(t)
  BY <1>2 DEF Claimed
<1>5. Deferred(b, form, line, end) \in LineOr(t)
  BY <1>1, NoneIsNoLine DEF Deferred
<1>6. Blanks(b, form, line) \in BlankLines /\ Blanks(b, form, line) \in Nat
  BY <1>3, BlanksAre DEF Blanks
<1>7. QED
  BY <1>4, <1>5, <1>6

\* A mapping with a pending key, and a sequence with an item more.
Keyed(f, key, w, l, j, o) ==
  [f EXCEPT !.key = key, !.before = w, !.inline = l, !.blanks = j, !.from = o]

Itemed(f, e) == [f EXCEPT !.entries = Append(@, e)]

\* PlaceScalar, written with its parts: b1 is the builder that has read the scalar.
Placed(b, b1, form, line, end, last, key, from) ==
  LET b2 == NewNode(b1, from, last)
      k == Len(b2.meta)
      deferred == Deferred(b, form, line, end)
      item == Described(b2, k, Claimed(b, line), deferred)
  IN  CASE b.stack = <<>> -> PushNode(item, k)
        [] InSequence(b)  ->
             SetTop(Spaced(item, k, Blanks(b, form, line)),
                    Itemed(TopOf(b), [key |-> NoKey, node |-> k]))
        [] HasKey(b) ->
             LET b3 == PushNode(b2, k)
                 entries == TopOf(b3).entries
             IN  IF deferred = NoLine THEN b3
                 ELSE SetInline(b3, entries[Len(entries)].node, deferred)
        [] OTHER ->
             SetTop(b1, Keyed(TopOf(b), key, Claimed(b, line), deferred, Blanks(b, form, line),
                              Outset(b, from)))

\* PlaceScalar is made of its parts.
LEMMA PlaceScalarIs ==
  ASSUME NEW t, NEW n, NEW b, Sound(b, t, n),
         NEW form, NEW line, NEW end, NEW last, NEW key, NEW anchor, NEW from
  PROVE  LET claimed == Claimed(b, line) \cup OwnLine(b, form, line, end)
             b1 == Read(b, claimed, LastLineRead(form, line, end), anchor)
         IN  PlaceScalar(b, form, line, end, last, key, anchor, from)
               = Placed(b, b1, form, line, end, last, key, from)
<1> DEFINE p == LastLineRead(form, line, end)
           claimed == Claimed(b, line) \cup OwnLine(b, form, line, end)
           w == b.before \ claimed
           b1 == Registered([b EXCEPT !.before = @ \ claimed, !.inline = NoLine, !.lastLine = p], anchor)
<1>1. Registered([b EXCEPT !.before = w, !.inline = NoLine, !.lastLine = p], anchor)
        = With(b, w, NoLine, p, b.blockEnd, b.table \cup Named(anchor))
  <2> HIDE DEF w, p
  <2>1. QED
    BY DEF Registered, With, Named, Sound, BuilderType
<1>2. b1 = Registered([b EXCEPT !.before = w, !.inline = NoLine, !.lastLine = p], anchor)
  OBVIOUS
<1>3. b1 = Read(b, claimed, p, anchor)
  BY <1>1, <1>2 DEF Read
<1>4. PlaceScalar(b, form, line, end, last, key, anchor, from)
        = Placed(b, b1, form, line, end, last, key, from)
  BY Zenon DEF PlaceScalar, Placed, Described, Spaced, Keyed, Itemed, Claimed, OwnLine, Deferred, Blanks, LastLineRead
<1>5. QED
  <2> HIDE DEF b1
  <2>1. QED
    BY <1>3, <1>4

\* A frame with another pending key is a frame of the same kind and anchor.
LEMMA KeyedType ==
  ASSUME NEW t, NEW n, NEW f \in FrameType(t, n), NEW key \in Key(t), NEW w \in SUBSET Line(t),
         NEW l \in LineOr(t), NEW j \in BlankLines, NEW o \in LineOr(t)
  PROVE  LET g == Keyed(f, key, w, l, j, o)
         IN  g \in FrameType(t, n) /\ g.kind = f.kind /\ g.anchor = f.anchor /\ g.key = key
BY DEF FrameType, Keyed

\* So is one with another item.
LEMMA ItemedType ==
  ASSUME NEW t, NEW n, NEW f \in FrameType(t, n), NEW e \in EntryType(t, n)
  PROVE  LET g == Itemed(f, e)
         IN  g \in FrameType(t, n) /\ g.kind = f.kind /\ g.anchor = f.anchor /\ g.key = f.key
<1> DEFINE s == Append(f.entries, e)
           g == [f EXCEPT !.entries = s]
<1>1. s \in Seq(EntryType(t, n))
  <2>1. f.entries \in Seq(EntryType(t, n))
    BY DEF FrameType
  <2>2. QED
    BY <2>1, AppendProperties
<1>2. g = Itemed(f, e)
  BY DEF FrameType, Itemed
<1> HIDE DEF s
<1>3. g \in FrameType(t, n) /\ g.kind = f.kind /\ g.anchor = f.anchor /\ g.key = f.key
  BY <1>1 DEF FrameType
<1>4. QED
  BY <1>2, <1>3

\* The pending key of a mapping awaits a value.
LEMMA KeyCompletes ==
  ASSUME NEW t, NEW n, NEW b, Sound(b, t, n), b.stack # <<>>, ~InSequence(b), ~HasKey(b),
         NEW d, Sound(d, t, n), d.stack = b.stack, Rest(b, d),
         NEW g \in FrameType(t, n), g.kind = TopOf(b).kind, g.anchor = TopOf(b).anchor, g.key # NoKey
  PROVE  LET c == SetTop(d, g) IN Sound(c, t, n) /\ Completes(b, c) /\ c.table = d.table
<1> DEFINE c == SetTop(d, g)
<1>1. /\ Sound(c, t, n) /\ Rest(d, c) /\ c.table = d.table
      /\ Len(c.stack) = Len(b.stack) /\ c.stack[Len(b.stack)] = g /\ TopOf(c) = g
      /\ \A i \in 1 .. Len(b.stack) : i # Len(b.stack) => c.stack[i] = b.stack[i]
  BY NewTop
<1> HIDE DEF c
<1>2. \A i \in 1 .. Len(b.stack) :
        /\ c.stack[i].kind = b.stack[i].kind /\ c.stack[i].anchor = b.stack[i].anchor
        /\ i # Len(b.stack) => c.stack[i].key = b.stack[i].key
  BY <1>1 DEF TopOf
<1>3. TopOf(b).key = NoKey
  <2>1. TopOf(b).kind \in {"map", "seq"}
    BY TopIs DEF FrameType
  <2>2. QED
    BY <2>1 DEF HasKey, InSequence
<1>4. Rest(b, c)
  BY <1>1, RestTransitive
<1>5. Completes(b, c)
  BY <1>1, <1>2, <1>3, <1>4 DEF Completes
<1>6. QED
  BY <1>1, <1>5 DEF c

\* An item of a sequence.
LEMMA ItemCompletes ==
  ASSUME NEW t, NEW n, NEW b, NEW d, Sound(d, t, n), d.stack # <<>>, d.stack = b.stack, Rest(b, d),
         InSequence(b),
         NEW g \in FrameType(t, n), g.kind = TopOf(b).kind, g.anchor = TopOf(b).anchor
  PROVE  LET c == SetTop(d, g) IN Sound(c, t, n) /\ Completes(b, c) /\ c.table = d.table
<1> DEFINE c == SetTop(d, g)
<1>1. /\ Sound(c, t, n) /\ Rest(d, c) /\ c.table = d.table
      /\ Len(c.stack) = Len(b.stack) /\ c.stack[Len(b.stack)] = g /\ TopOf(c) = g
      /\ \A i \in 1 .. Len(b.stack) : i # Len(b.stack) => c.stack[i] = b.stack[i]
  BY NewTop
<1> HIDE DEF c
<1>2. \A i \in 1 .. Len(b.stack) :
        /\ c.stack[i].kind = b.stack[i].kind /\ c.stack[i].anchor = b.stack[i].anchor
        /\ i # Len(b.stack) => c.stack[i].key = b.stack[i].key
  BY <1>1 DEF TopOf
<1>3. TopOf(b).kind # "map"
  BY DEF InSequence
<1>4. Rest(b, c)
  BY <1>1, RestTransitive
<1>5. Completes(b, c)
  BY <1>1, <1>2, <1>3, <1>4 DEF Completes
<1>6. QED
  BY <1>1, <1>5 DEF c

\* A value with the comment that was waiting for it.
LEMMA ValueCompletes ==
  ASSUME NEW t, NEW n, NEW b, Sound(b, t, n), HasKey(b), NEW k \in 1 .. n, NEW l \in LineOr(t)
  PROVE  LET b3 == PushNode(b, k)
             entries == TopOf(b3).entries
             c == IF l = NoLine THEN b3 ELSE SetInline(b3, entries[Len(entries)].node, l)
         IN  Sound(c, t, n) /\ Completes(b, c) /\ c.table = b.table
<1> DEFINE b3 == PushNode(b, k)
           entries == TopOf(b3).entries
           j == entries[Len(entries)].node
           c == IF l = NoLine THEN b3 ELSE SetInline(b3, j, l)
<1>1. Sound(b3, t, n) /\ Completes(b, b3) /\ b3.table = b.table /\ entries # <<>>
  BY PushNodeKeeps
<1>2. b3.stack # <<>>
  <2>1. b.stack # <<>> /\ b.stack \in Seq(FrameType(t, n))
    BY FieldTypes DEF HasKey
  <2>2. Len(b3.stack) = Len(b.stack)
    BY <1>1, <2>1 DEF Completes
  <2> HIDE DEF b3
  <2>3. b3.stack \in Seq(FrameType(t, n))
    BY <1>1, FieldTypes
  <2>4. QED
    BY <2>1, <2>2, <2>3
<1> HIDE DEF b3
<1>3. entries \in Seq(EntryType(t, n))
  BY <1>1, <1>2, TopIs DEF FrameType
<1> HIDE DEF entries
<1>4. j \in 1 .. n
  <2>1. Len(entries) \in 1 .. Len(entries)
    BY <1>1, <1>3
  <2>2. entries[Len(entries)] \in EntryType(t, n)
    BY <1>3, <2>1
  <2>3. QED
    BY <2>2 DEF EntryType
<1> HIDE DEF j
<1>5. CASE l = NoLine
  BY <1>1, <1>5 DEF b3, entries, j
<1>6. CASE l # NoLine
  <2> DEFINE d == SetInline(b3, j, l)
  <2>1. Sound(d, t, n) /\ d.stack = b3.stack /\ Rest(b3, d) /\ d.table = b3.table
    BY <1>1, <1>4, SetInlineKeeps
  <2> HIDE DEF d
  <2>2. Completes(b, d)
    BY <1>1, <2>1 DEF Completes, Rest, TopOf
  <2>3. c = d
    BY <1>6 DEF d
  <2>4. Sound(c, t, n) /\ Completes(b, c) /\ c.table = b.table
    BY <1>1, <2>1, <2>2, <2>3
  <2>5. QED
    BY <2>4 DEF b3, entries, j
<1>7. QED
  BY <1>5, <1>6

\* In each of the four places a scalar completes a node or becomes a key.
LEMMA PlacedKeeps ==
  ASSUME NEW t, Text(t), NEW n, NEW b, Sound(b, t, n),
         NEW b1, Sound(b1, t, n), b1.stack = b.stack, Rest(b, b1),
         NEW form, NEW line \in Line(t), NEW end \in Line(t), NEW last \in Line(t),
         NEW from \in Line(t), NEW key \in Key(t),
         (b.stack # <<>> /\ ~InSequence(b) /\ ~HasKey(b)) => key # NoKey
  PROVE  LET c == Placed(b, b1, form, line, end, last, key, from)
         IN  \E m \in {n, n + 1} : Sound(c, t, m) /\ Completes(b, c) /\ c.table = b1.table
<1> DEFINE b2 == NewNode(b1, from, last)
           k == Len(b2.meta)
           claimed == Claimed(b, line)
           deferred == Deferred(b, form, line, end)
           blanks == Blanks(b, form, line)
           item == Described(b2, k, claimed, deferred)
           c == Placed(b, b1, form, line, end, last, key, from)
<1>1. claimed \in SUBSET Line(t) /\ deferred \in LineOr(t) /\ blanks \in BlankLines
  BY PartTypes
<1>2. from \in LineOr(t) /\ Outset(b, from) \in LineOr(t) /\ n \in Nat
  BY NoneIsNoLine, OutsetType, FieldTypes
<1>3. /\ Sound(b2, t, n + 1) /\ b2.stack = b.stack /\ Rest(b, b2) /\ k = n + 1 /\ b2.table = b1.table
      /\ n + 1 \in Nat /\ k \in 1 .. n + 1
  <2> HIDE DEF b2
  <2>1. /\ Sound(b2, t, n + 1) /\ b2.stack = b1.stack /\ Rest(b1, b2) /\ Len(b2.meta) = n + 1
        /\ b2.table = b1.table
    BY <1>2, NewNodeKeeps DEF b2
  <2>2. QED
    BY <1>2, <2>1, RestTransitive
<1> HIDE DEF b2, k
<1>4. Sound(item, t, n + 1) /\ item.stack = b.stack /\ Rest(b, item) /\ item.table = b1.table
  <2> HIDE DEF claimed, deferred
  <2>1. Sound(item, t, n + 1) /\ item.stack = b2.stack /\ Rest(b2, item) /\ item.table = b2.table
    BY <1>1, <1>3, ItemKeeps
  <2> HIDE DEF item
  <2>2. QED
    BY <1>3, <2>1, RestTransitive
<1>5. CASE b.stack = <<>>
  <2>0. ~InSequence(b) /\ ~HasKey(b)
    BY <1>5 DEF InSequence, HasKey
  <2>1. c = PushNode(item, k)
    BY <1>5, <2>0 DEF Placed, b2, k
  <2> HIDE DEF item, c
  <2>2. Sound(c, t, n + 1) /\ Completes(item, c) /\ c.table = item.table
    BY <1>3, <1>4, <2>1, PushNodeKeeps
  <2>3. Completes(b, c)
    BY <1>4, <2>2, CompletesFrom
  <2>4. QED
    BY <1>4, <2>2, <2>3 DEF c
<1>6. CASE b.stack # <<>> /\ InSequence(b)
  <2> DEFINE d == Spaced(item, k, blanks)
             e == [key |-> NoKey, node |-> k]
             f == TopOf(b)
             g == Itemed(f, e)
  <2>0. ~HasKey(b)
    BY <1>6 DEF InSequence, HasKey
  <2>1. c = SetTop(d, g)
    BY <1>6, <2>0 DEF Placed, b2, k
  <2> HIDE DEF item, blanks, c
  <2>2. Sound(d, t, n + 1) /\ d.stack = b.stack /\ Rest(b, d) /\ d.table = b1.table
    <3>1. Sound(d, t, n + 1) /\ d.stack = item.stack /\ Rest(item, d) /\ d.table = item.table
      BY <1>1, <1>3, <1>4, BlanksKeep
    <3> HIDE DEF d
    <3>2. QED
      BY <1>4, <3>1, RestTransitive
  <2> HIDE DEF d
  <2>3. e \in EntryType(t, n + 1)
    BY <1>3, NoneIsNoLine DEF EntryType
  <2>4. f \in FrameType(t, n + 1)
    BY <1>2, <1>6, TopIs, TypesGrow
  <2> HIDE DEF e, f
  <2>5. g \in FrameType(t, n + 1) /\ g.kind = f.kind /\ g.anchor = f.anchor
    BY <2>3, <2>4, ItemedType
  <2> HIDE DEF g
  <2>6. Sound(c, t, n + 1) /\ Completes(b, c) /\ c.table = d.table
    BY <1>6, <2>1, <2>2, <2>5, ItemCompletes DEF f
  <2>7. QED
    BY <2>2, <2>6 DEF c
<1>7. CASE b.stack # <<>> /\ ~InSequence(b) /\ HasKey(b)
  <2> DEFINE b3 == PushNode(b2, k)
             entries == TopOf(b3).entries
             d == IF deferred = NoLine THEN b3
                  ELSE SetInline(b3, entries[Len(entries)].node, deferred)
  <2>1. c = d
    BY <1>7 DEF Placed, b2, k
  <2>2. HasKey(b2)
    BY <1>3, <1>7 DEF HasKey, TopOf
  <2>3. Sound(d, t, n + 1) /\ Completes(b2, d) /\ d.table = b2.table
    <3> HIDE DEF deferred
    <3>1. QED
      BY <1>1, <1>3, <2>2, ValueCompletes
  <2> HIDE DEF c, d
  <2>4. Completes(b, c)
    BY <1>3, <2>1, <2>3, CompletesFrom
  <2>5. QED
    BY <1>3, <2>1, <2>3, <2>4 DEF c
<1>8. CASE b.stack # <<>> /\ ~InSequence(b) /\ ~HasKey(b)
  <2> DEFINE f == TopOf(b)
             o == Outset(b, from)
             g == Keyed(f, key, claimed, deferred, blanks, o)
  <2>1. c = SetTop(b1, g)
    BY <1>8 DEF Placed
  <2>2. f \in FrameType(t, n)
    BY <1>8, TopIs
  <2> HIDE DEF f, o, claimed, deferred, blanks
  <2>3. g \in FrameType(t, n) /\ g.kind = f.kind /\ g.anchor = f.anchor /\ g.key = key
    BY <1>1, <1>2, <2>2, KeyedType DEF o
  <2> HIDE DEF g, c
  <2>4. Sound(c, t, n) /\ Completes(b, c) /\ c.table = b1.table
    BY <1>8, <2>1, <2>3, KeyCompletes DEF f
  <2>5. QED
    BY <2>4 DEF c
<1>9. QED
  BY <1>5, <1>6, <1>7, <1>8

\* What a scalar is placed with: its lines, the line before it, its key and its anchor.
Placeable(b, t, line, end, last, from, key, anchor) ==
  /\ {line, end, last, from} \subseteq Line(t)
  /\ key \in Key(t) /\ anchor \in t.anchors \cup {None}
  /\ (b.stack # <<>> /\ ~InSequence(b) /\ ~HasKey(b)) => key # NoKey

\* A scalar completes a node or becomes a key; its anchor is known from now on.
LEMMA PlaceScalarKeeps ==
  ASSUME NEW t, Text(t), NEW n, NEW b, Sound(b, t, n), NEW form, NEW line, NEW end, NEW last,
         NEW from, NEW key, NEW anchor, Placeable(b, t, line, end, last, from, key, anchor)
  PROVE  LET c == PlaceScalar(b, form, line, end, last, key, anchor, from)
         IN  \E m \in {n, n + 1} : /\ Sound(c, t, m) /\ Completes(b, c)
                                   /\ c.table = b.table \cup Named(anchor)
<1> DEFINE claimed == Claimed(b, line) \cup OwnLine(b, form, line, end)
           p == LastLineRead(form, line, end)
           b1 == Read(b, claimed, p, anchor)
           c == PlaceScalar(b, form, line, end, last, key, anchor, from)
<1>0. /\ line \in Line(t) /\ end \in Line(t) /\ last \in Line(t) /\ from \in Line(t)
      /\ key \in Key(t) /\ anchor \in t.anchors \cup {None}
      /\ (b.stack # <<>> /\ ~InSequence(b) /\ ~HasKey(b)) => key # NoKey
  BY DEF Placeable
<1>1. p \in LineOr(t)
  BY <1>0, LastLineReadType
<1>2. c = Placed(b, b1, form, line, end, last, key, from)
  BY PlaceScalarIs
<1> HIDE DEF claimed, p
<1>3. /\ Sound(b1, t, n) /\ b1.stack = b.stack /\ Rest(b, b1)
      /\ b1.table = b.table \cup Named(anchor)
  BY <1>0, <1>1, ReadKeeps
<1> HIDE DEF b1, c
<1>4. \E m \in {n, n + 1} : Sound(c, t, m) /\ Completes(b, c) /\ c.table = b1.table
  BY <1>0, <1>2, <1>3, PlacedKeeps
<1>5. QED
  BY <1>3, <1>4 DEF c

\* So does an alias.
LEMMA PlaceAliasKeeps ==
  ASSUME NEW t, NEW n, NEW b, Sound(b, t, n),
         NEW line \in Line(t), NEW key \in Key(t), NEW from \in Line(t),
         (b.stack # <<>> /\ ~InSequence(b) /\ ~HasKey(b)) => key # NoKey
  PROVE  LET c == PlaceAlias(b, line, key, from)
         IN  \E m \in {n, n + 1} : Sound(c, t, m) /\ Completes(b, c) /\ c.table = b.table
<1> DEFINE b1 == [b EXCEPT !.lastLine = line]
           b2 == NewNode(b1, from, line)
           c == PlaceAlias(b, line, key, from)
<1>1. b1 = With(b, b.before, b.inline, line, b.blockEnd, b.table)
  BY DEF With, Sound, BuilderType
<1>2. /\ b.before \in SUBSET Line(t) /\ b.inline \in LineOr(t) /\ line \in LineOr(t)
      /\ b.blockEnd \in BOOLEAN /\ b.table \in SUBSET t.anchors /\ n \in Nat
      /\ from \in LineOr(t) /\ Outset(b, from) \in LineOr(t)
  BY FieldTypes, NoneIsNoLine, OutsetType
<1>3. CASE b.stack # <<>> /\ ~InSequence(b) /\ ~HasKey(b)
  <2> DEFINE f == TopOf(b)
             o == Outset(b, from)
             g == [f EXCEPT !.key = key, !.from = o]
  <2>1. c = SetTop(b1, g)
    BY <1>3 DEF PlaceAlias
  <2> HIDE DEF b1
  <2>2. Sound(b1, t, n) /\ b1.stack = b.stack /\ Rest(b, b1) /\ b1.table = b.table
    BY <1>1, <1>2, NewFields
  <2>3. f \in FrameType(t, n) /\ o \in LineOr(t)
    BY <1>2, <1>3, TopIs
  <2> HIDE DEF f, o
  <2>4. g \in FrameType(t, n) /\ g.kind = f.kind /\ g.anchor = f.anchor /\ g.key = key
    BY <2>3 DEF FrameType
  <2> HIDE DEF g, c
  <2>5. Sound(c, t, n) /\ Completes(b, c) /\ c.table = b1.table
    BY <1>3, <2>1, <2>2, <2>4, KeyCompletes DEF f
  <2>6. QED
    BY <2>2, <2>5 DEF c
<1>4. CASE ~(b.stack # <<>> /\ ~InSequence(b) /\ ~HasKey(b))
  <2> DEFINE k == Len(b2.meta)
  <2>1. c = PushNode(b2, k)
    BY <1>4 DEF PlaceAlias
  <2> HIDE DEF b1
  <2>2. Sound(b1, t, n) /\ b1.stack = b.stack /\ Rest(b, b1) /\ b1.table = b.table
    BY <1>1, <1>2, NewFields
  <2>3. /\ Sound(b2, t, n + 1) /\ b2.stack = b1.stack /\ Rest(b1, b2) /\ k = n + 1
        /\ b2.table = b1.table
    BY <1>2, <2>2, NewNodeKeeps
  <2> HIDE DEF b2, k, c
  <2>4. k \in 1 .. n + 1
    BY <1>2, <2>3
  <2>5. Sound(c, t, n + 1) /\ Completes(b2, c) /\ c.table = b2.table
    BY <2>1, <2>3, <2>4, PushNodeKeeps
  <2>6. b2.stack = b.stack /\ Rest(b, b2)
    BY <2>2, <2>3, RestTransitive
  <2>7. Completes(b, c)
    BY <2>5, <2>6, CompletesFrom
  <2>8. QED
    BY <2>2, <2>3, <2>5, <2>7 DEF c
<1>5. QED
  BY <1>3, <1>4

(***************************************************************************)
(* Collections.                                                            *)
(***************************************************************************)

\* c is b after a collection has been opened.
Opens(b, c, kind, anchor) ==
  /\ Rest(b, c)
  /\ Len(c.stack) = Len(b.stack) + 1
  /\ \A i \in 1 .. Len(b.stack) :
       /\ c.stack[i].kind = b.stack[i].kind /\ c.stack[i].key = b.stack[i].key
       /\ c.stack[i].anchor = b.stack[i].anchor
  /\ LET f == c.stack[Len(b.stack) + 1]
     IN  f.kind = kind /\ f.key = NoKey /\ f.anchor = anchor

\* A new frame.
LEMMA FrameIs ==
  ASSUME NEW t, NEW n, NEW kind \in {"map", "seq"}, NEW flow \in BOOLEAN, NEW k \in 1 .. n,
         NEW anchor \in t.anchors \cup {None}
  PROVE  LET f == Frame(kind, flow, k, anchor)
         IN  f \in FrameType(t, n) /\ f.kind = kind /\ f.key = NoKey /\ f.anchor = anchor
<1>1. /\ NoKey \in Key(t) /\ NoLine \in LineOr(t) /\ {} \in SUBSET Line(t) /\ 0 \in BlankLines
      /\ <<>> \in Seq(EntryType(t, n))
  BY NoneIsNoLine, BlanksAre
<1>2. QED
  BY <1>1 DEF FrameType, Frame

\* A frame on top.
LEMMA PushedFrame ==
  ASSUME NEW t, NEW n, NEW b, Sound(b, t, n), NEW f \in FrameType(t, n)
  PROVE  LET s == Append(b.stack, f)
         IN  /\ s \in Seq(FrameType(t, n)) /\ Len(s) = Len(b.stack) + 1
             /\ s[Len(b.stack) + 1] = f /\ \A i \in 1 .. Len(b.stack) : s[i] = b.stack[i]
<1>1. b.stack \in Seq(FrameType(t, n))
  BY FieldTypes
<1>2. QED
  BY <1>1, AppendProperties

\* The comments and blank lines above a collection that is an item.
Preceded(b, mark) ==
  [SetTop(b, [TopOf(b) EXCEPT !.before = Above(b, mark), !.blanks = CountBlankLines(b, mark)])
     EXCEPT !.before = @ \ Above(b, mark), !.lastLine = mark]

\* Taking them changes nothing that Alike speaks of.
LEMMA PrecededKeeps ==
  ASSUME NEW t, Text(t), NEW n, NEW b, Sound(b, t, n), b.stack # <<>>, NEW mark \in Line(t)
  PROVE  LET c == Preceded(b, mark)
         IN  Sound(c, t, n) /\ Alike(b, c) /\ Rest(b, c) /\ c.table = b.table
<1> DEFINE w == Above(b, mark)
           j == CountBlankLines(b, mark)
           f == TopOf(b)
           g == [f EXCEPT !.before = w, !.blanks = j]
           d == SetTop(b, g)
           v == d.before \ w
           c == [d EXCEPT !.before = v, !.lastLine = mark]
<1>1. w \in SUBSET Line(t) /\ j \in BlankLines /\ f \in FrameType(t, n)
  <2>1. b.before \in SUBSET Line(t)
    BY FieldTypes
  <2>2. w \in SUBSET Line(t)
    BY <2>1 DEF Above
  <2>3. QED
    BY <2>2, CountType, TopIs
<1>2. Preceded(b, mark) = c
  BY DEF Preceded
<1> HIDE DEF w, j, f
<1>3. g \in FrameType(t, n) /\ g.kind = f.kind /\ g.key = f.key /\ g.anchor = f.anchor
  BY <1>1 DEF FrameType
<1> HIDE DEF g
<1>4. Sound(d, t, n) /\ Rest(b, d) /\ d.table = b.table
  BY <1>3, NewTop
<1>5. Alike(b, d)
  BY <1>3, AlikeTop DEF f
<1> HIDE DEF d
<1>6. /\ d.inline \in LineOr(t) /\ d.blockEnd \in BOOLEAN /\ d.table \in SUBSET t.anchors
      /\ v \in SUBSET Line(t) /\ mark \in LineOr(t)
  BY <1>4, FieldTypes, NoneIsNoLine
<1> HIDE DEF v
<1>7. c = With(d, v, d.inline, mark, d.blockEnd, d.table)
  BY <1>4 DEF Sound, BuilderType, With
<1> HIDE DEF c
<1>8. Sound(c, t, n) /\ c.stack = d.stack /\ Rest(d, c) /\ c.table = d.table
  BY <1>4, <1>6, <1>7, NewFields
<1>9. Alike(b, c)
  BY <1>5, <1>8, AlikeSame, AlikeTransitive
<1>10. QED
  BY <1>2, <1>4, <1>8, <1>9, RestTransitive

\* The last step of StartContainer: b has the node k of the collection already.
Opened(b, own, k, l, f) ==
  [b EXCEPT !.before = @ \ own, !.meta[k].inline = l, !.stack = Append(@, f)]

\* It opens the collection.
LEMMA OpenedKeeps ==
  ASSUME NEW t, NEW n, NEW b, Sound(b, t, n), NEW own, NEW k \in 1 .. n, NEW l \in LineOr(t),
         NEW f \in FrameType(t, n)
  PROVE  LET c == Opened(b, own, k, l, f)
         IN  Sound(c, t, n) /\ Rest(b, c) /\ c.stack = Append(b.stack, f) /\ c.table = b.table
<1> DEFINE w == b.before \ own
           m == [b.meta[k] EXCEPT !.inline = l]
           ms == [b.meta EXCEPT ![k] = m]
           s == Append(b.stack, f)
           c == [b EXCEPT !.before = w, !.meta = ms, !.stack = s]
<1>1. w \in SUBSET Line(t) /\ b.meta[k] \in NodeType(t) /\ b.meta \in Seq(NodeType(t)) /\ Len(b.meta) = n
  BY FieldTypes
<1>2. m \in NodeType(t)
  BY <1>1, NoneIsNoLine, DescribedType
<1>3. Opened(b, own, k, l, f) = c
  BY DEF Sound, BuilderType, Opened
<1> HIDE DEF m
<1>4. ms \in Seq(NodeType(t)) /\ Len(ms) = n
  BY <1>1, <1>2, ExceptSeq
<1>5. s \in Seq(FrameType(t, n))
  BY PushedFrame
<1> HIDE DEF w, ms, s
<1>6. c \in BuilderType(t, n)
  BY <1>1, <1>4, <1>5 DEF Sound, BuilderType
<1>7. /\ c.meta = ms /\ c.stack = s /\ c.table = b.table /\ Rest(b, c)
  BY DEF Sound, BuilderType, Rest
<1> HIDE DEF c
<1>8. Sound(c, t, n)
  BY <1>4, <1>6, <1>7 DEF Sound, Rest
<1>9. QED
  BY <1>3, <1>7, <1>8 DEF s

\* MappingStart and SequenceStart open a collection.
LEMMA StartContainerKeeps ==
  ASSUME NEW t, Text(t), NEW n, NEW b, Sound(b, t, n),
         NEW kind \in {"map", "seq"}, NEW flow \in BOOLEAN, NEW mark \in Line(t),
         NEW anchor \in t.anchors \cup {None}, NEW props, NEW from \in Line(t)
  PROVE  LET c == StartContainer(b, kind, flow, mark, anchor, props, from)
         IN  Sound(c, t, n + 1) /\ Opens(b, c, kind, anchor) /\ c.table = b.table
<1> DEFINE b1 == IF b.stack = <<>> /\ props THEN [b EXCEPT !.lastLine = mark] ELSE b
           b2 == IF ~InSequence(b1) THEN b1 ELSE Preceded(b1, mark)
           own == {c \in b2.before : HasKey(b2) /\ c = mark}
           b3 == NewNode(b2, from, mark)
           k == Len(b3.meta)
           l == IF own = {} THEN NoLine ELSE mark
           f == Frame(kind, flow, k, anchor)
           c == Opened(b3, own, k, l, f)
<1>0. StartContainer(b, kind, flow, mark, anchor, props, from) = c
  BY Zenon DEF StartContainer, Opened, Preceded
<1>1. mark \in LineOr(t) /\ from \in LineOr(t) /\ n \in Nat
  BY NoneIsNoLine, FieldTypes
<1>2. Sound(b1, t, n) /\ b1.stack = b.stack /\ Rest(b, b1) /\ b1.table = b.table
  <2>1. CASE b.stack = <<>> /\ props
    <3> DEFINE d == [b EXCEPT !.lastLine = mark]
    <3>1. d = With(b, b.before, b.inline, mark, b.blockEnd, b.table)
      BY DEF Sound, BuilderType, With
    <3>2. /\ b.before \in SUBSET Line(t) /\ b.inline \in LineOr(t)
          /\ b.blockEnd \in BOOLEAN /\ b.table \in SUBSET t.anchors
      BY FieldTypes
    <3>3. b1 = d
      BY <2>1
    <3> HIDE DEF d
    <3>4. Sound(d, t, n) /\ d.stack = b.stack /\ Rest(b, d) /\ d.table = b.table
      BY <1>1, <3>1, <3>2, NewFields
    <3>5. QED
      BY <3>3, <3>4
  <2>2. CASE ~(b.stack = <<>> /\ props)
    <3>1. b1 = b
      BY <2>2
    <3>2. QED
      BY <3>1 DEF Rest
  <2>3. QED
    BY <2>1, <2>2
<1>3. Sound(b2, t, n) /\ Alike(b, b2) /\ Rest(b, b2) /\ b2.table = b.table
  <2> HIDE DEF b1
  <2>0. Alike(b, b1)
    BY <1>2, AlikeSame
  <2>1. CASE ~InSequence(b1)
    BY <1>2, <2>0, <2>1
  <2>2. CASE InSequence(b1)
    <3> DEFINE d == Preceded(b1, mark)
    <3>1. b1.stack # <<>>
      BY <2>2 DEF InSequence
    <3>2. Sound(d, t, n) /\ Alike(b1, d) /\ Rest(b1, d) /\ d.table = b1.table
      BY <1>2, <3>1, PrecededKeeps
    <3>3. b2 = d
      BY <2>2
    <3> HIDE DEF d
    <3>4. Alike(b, d) /\ Rest(b, d)
      BY <1>2, <2>0, <3>2, AlikeTransitive, RestTransitive
    <3>5. QED
      BY <1>2, <3>2, <3>3, <3>4
  <2>3. QED
    BY <2>1, <2>2
<1> HIDE DEF b1, b2
<1>4. /\ Sound(b3, t, n + 1) /\ b3.stack = b2.stack /\ Rest(b2, b3) /\ k = n + 1
      /\ b3.table = b.table
  BY <1>1, <1>3, NewNodeKeeps
<1> HIDE DEF b3, own
<1>5. k \in 1 .. n + 1 /\ n + 1 \in Nat
  BY <1>1, <1>4
<1>6. l \in LineOr(t)
  BY <1>1, NoneIsNoLine
<1> HIDE DEF k, l
<1>7. f \in FrameType(t, n + 1) /\ f.kind = kind /\ f.key = NoKey /\ f.anchor = anchor
  BY <1>5, FrameIs
<1> HIDE DEF f
<1>8. Sound(c, t, n + 1) /\ Rest(b3, c) /\ c.stack = Append(b3.stack, f) /\ c.table = b3.table
  BY <1>4, <1>5, <1>6, <1>7, OpenedKeeps
<1> HIDE DEF c
<1>9. Rest(b, c)
  BY <1>3, <1>4, <1>8, RestTransitive
<1>10. /\ Len(c.stack) = Len(b3.stack) + 1
       /\ c.stack[Len(b3.stack) + 1] = f /\ \A i \in 1 .. Len(b3.stack) : c.stack[i] = b3.stack[i]
  BY <1>4, <1>7, <1>8, PushedFrame
<1>11. /\ Len(c.stack) = Len(b.stack) + 1 /\ c.stack[Len(b.stack) + 1] = f
       /\ \A i \in 1 .. Len(b.stack) :
            /\ c.stack[i].kind = b.stack[i].kind /\ c.stack[i].key = b.stack[i].key
            /\ c.stack[i].anchor = b.stack[i].anchor
  BY <1>3, <1>4, <1>10 DEF Alike
<1>12. Opens(b, c, kind, anchor)
  BY <1>7, <1>9, <1>11 DEF Opens
<1>13. QED
  BY <1>0, <1>4, <1>8, <1>12

\* A collection ends at a line.
LEMMA LastLineOfType ==
  ASSUME NEW t, Text(t), NEW n, NEW b, Sound(b, t, n), b.stack # <<>>, NEW mark \in Line(t)
  PROVE  LastLineOf(b, mark) \in Line(t)
<1> DEFINE f == TopOf(b)
           S == {b.meta[f.entries[i].node].last : i \in DOMAIN f.entries}
<1>1. f \in FrameType(t, n)
  BY TopIs
<1>2. CASE f.flow \/ f.entries = <<>>
  BY <1>2 DEF LastLineOf
<1>3. CASE ~(f.flow \/ f.entries = <<>>)
  <2>1. LastLineOf(b, mark) = Max(S)
    BY <1>3 DEF LastLineOf
  <2>2. f.entries \in Seq(EntryType(t, n)) /\ f.entries # <<>>
    BY <1>1, <1>3 DEF FrameType
  <2>3. ASSUME NEW i \in DOMAIN f.entries PROVE b.meta[f.entries[i].node].last \in Line(t)
    <3>1. f.entries[i] \in EntryType(t, n)
      BY <2>2, <2>3
    <3>2. f.entries[i].node \in 1 .. n
      BY <3>1 DEF EntryType
    <3>3. b.meta[f.entries[i].node] \in NodeType(t)
      BY <3>2, FieldTypes
    <3>4. QED
      BY <3>3 DEF NodeType
  <2>4. 1 \in DOMAIN f.entries
    BY <2>2
  <2> HIDE DEF f
  <2>5. S \in SUBSET Line(t) /\ S # {}
    BY <2>3, <2>4
  <2> HIDE DEF S
  <2>6. t.lines \in Nat /\ S \in SUBSET (0 .. t.lines)
    <3>1. t.lines \in Nat \ {0} /\ S \in SUBSET (1 .. t.lines)
      BY <2>5 DEF Text, Line
    <3>2. \A k \in Nat \ {0} : k \in Nat /\ 1 .. k \subseteq 0 .. k
      OBVIOUS
    <3>3. t.lines \in Nat /\ 1 .. t.lines \subseteq 0 .. t.lines
      BY <3>1, <3>2, Zenon
    <3>4. QED
      BY <3>1, <3>3, Zenon
  <2>7. Max(S) \in S
    BY <2>5, <2>6, MaxIs
  <2>8. QED
    BY <2>1, <2>5, <2>7
<1>4. QED
  BY <1>2, <1>3

\* d is b without its top frame.
Pops(b, d) ==
  /\ Rest(b, d)
  /\ Len(d.stack) = Len(b.stack) - 1
  /\ \A i \in 1 .. Len(b.stack) - 1 : d.stack[i] = b.stack[i]

\* The builder that has read the end of a collection.
Closed(b, mark, last, f) ==
  Registered([b EXCEPT !.stack = SubSeq(@, 1, Len(@) - 1),
                       !.meta[f.node].trailing = CountBlankLines(b, mark),
                       !.meta[f.node].last = last,
                       !.lastLine = mark,
                       !.blockEnd = ~f.flow], f.anchor)

\* Reading the end pops the frame.
LEMMA ClosedKeeps ==
  ASSUME NEW t, Text(t), NEW n, NEW b, Sound(b, t, n), b.stack # <<>>, NEW mark \in Line(t),
         NEW last \in Line(t), NEW f \in FrameType(t, n)
  PROVE  LET d == Closed(b, mark, last, f)
         IN  Sound(d, t, n) /\ Pops(b, d) /\ d.table = b.table \cup Named(f.anchor)
<1> DEFINE k == f.node
           j == CountBlankLines(b, mark)
           m == [b.meta[k] EXCEPT !.trailing = j, !.last = last]
           ms == [b.meta EXCEPT ![k] = m]
           s == SubSeq(b.stack, 1, Len(b.stack) - 1)
           e == ~f.flow
           a == b.table \cup Named(f.anchor)
           d == [b EXCEPT !.stack = s, !.meta = ms, !.lastLine = mark, !.blockEnd = e, !.table = a]
<1>1. k \in 1 .. n /\ f.anchor \in t.anchors \cup {None} /\ f.flow \in BOOLEAN
  BY DEF FrameType
<1>2. /\ b.meta[k] \in NodeType(t) /\ b.meta \in Seq(NodeType(t)) /\ Len(b.meta) = n
      /\ b.stack \in Seq(FrameType(t, n)) /\ b.table \in SUBSET t.anchors /\ mark \in LineOr(t)
  BY <1>1, FieldTypes, NoneIsNoLine
<1>3. k \in DOMAIN b.meta
  BY <1>1, <1>2
<1>4. Closed(b, mark, last, f) = d
  <2> DEFINE ns == [[b.meta EXCEPT ![k].trailing = j] EXCEPT ![k].last = last]
  <2>1. ns = ms
    <3> HIDE DEF j, k
    <3>1. QED
      BY <1>2, <1>3
  <2> HIDE DEF ms
  <2> DEFINE x == [b EXCEPT !.stack = SubSeq(@, 1, Len(@) - 1),
                            !.meta[k].trailing = j,
                            !.meta[k].last = last,
                            !.lastLine = mark,
                            !.blockEnd = e]
             y == [b EXCEPT !.stack = s, !.meta = ns, !.lastLine = mark, !.blockEnd = e]
  <2>2. Closed(b, mark, last, f) = Registered(x, f.anchor)
    BY DEF Closed
  <2>3. x = y
    <3> DEFINE x1 == [b EXCEPT !.stack = SubSeq(@, 1, Len(@) - 1)]
               x2 == [x1 EXCEPT !.meta[k].trailing = j, !.meta[k].last = last]
    <3>1. x1 = [b EXCEPT !.stack = s]
      BY DEF Sound, BuilderType
    <3>2. x1.meta = b.meta /\ x1 = [x1 EXCEPT !.meta = b.meta]
      BY DEF Sound, BuilderType
    <3>3. x = [x2 EXCEPT !.lastLine = mark, !.blockEnd = e]
      OBVIOUS
    <3> HIDE DEF x1, j, k, e
    <3>4. x2 = [x1 EXCEPT !.meta = ns]
      BY <3>2
    <3>5. x2 = [b EXCEPT !.stack = s, !.meta = ns]
      <4> HIDE DEF x2, ns, s
      <4>1. QED
        BY <3>1, <3>4
    <3> HIDE DEF x2, ns, s
    <3>6. QED
      BY <3>3, <3>5
  <2> HIDE DEF ns
  <2>4. Registered(y, f.anchor)
          = [b EXCEPT !.stack = s, !.meta = ns, !.lastLine = mark, !.blockEnd = e, !.table = a]
    <3> HIDE DEF s, e
    <3>1. QED
      BY DEF Registered, Named, Sound, BuilderType
  <2> HIDE DEF x, y
  <2> HIDE DEF ns
  <2>5. QED
    BY <2>1, <2>2, <2>3, <2>4
<1>5. j \in BlankLines /\ a \in SUBSET t.anchors /\ e \in BOOLEAN
  BY <1>1, <1>2, CountType DEF Named
<1> HIDE DEF j, a, e
<1>6. m \in NodeType(t)
  BY <1>2, <1>5 DEF NodeType
<1> HIDE DEF k, m
<1>7. ms \in Seq(NodeType(t)) /\ Len(ms) = n
  BY <1>1, <1>2, <1>6, ExceptSeq
<1>8. /\ s \in Seq(FrameType(t, n)) /\ Len(s) = Len(b.stack) - 1
      /\ \A i \in 1 .. Len(b.stack) - 1 : s[i] = b.stack[i]
  <2> DEFINE l == Len(b.stack) - 1
  <2>1. l \in Nat /\ l \in Int /\ 1 \in Int /\ \A i \in 1 .. l : b.stack[i] \in FrameType(t, n)
    BY <1>2
  <2>2. /\ SubSeq(b.stack, 1, l) \in Seq(FrameType(t, n))
        /\ Len(SubSeq(b.stack, 1, l)) = IF 1 <= l THEN l - 1 + 1 ELSE 0
        /\ \A i \in 1 .. l - 1 + 1 : SubSeq(b.stack, 1, l)[i] = b.stack[1 + i - 1]
    <3> HIDE DEF l
    <3>1. QED
      BY <2>1, SubSeqProperties
  <2>3. QED
    BY <2>1, <2>2
<1> HIDE DEF ms, s
<1>9. d \in BuilderType(t, n)
  BY <1>2, <1>5, <1>7, <1>8 DEF Sound, BuilderType
<1>10. d.meta = ms /\ d.stack = s /\ d.table = a /\ Rest(b, d)
  BY DEF Sound, BuilderType, Rest
<1> HIDE DEF d
<1>11. Sound(d, t, n)
  BY <1>7, <1>9, <1>10 DEF Sound, Rest
<1>12. Pops(b, d)
  BY <1>8, <1>10 DEF Pops
<1>13. QED
  BY <1>4, <1>10, <1>11, <1>12 DEF a

\* MappingEnd and SequenceEnd pop a frame and complete the node the collection is.
LEMMA EndContainerKeeps ==
  ASSUME NEW t, Text(t), NEW n, NEW b, Sound(b, t, n), b.stack # <<>>, NEW mark \in Line(t)
  PROVE  LET c == EndContainer(b, mark)
         IN  /\ Sound(c, t, n) /\ c.table = b.table \cup Named(TopOf(b).anchor)
             /\ \E d : Sound(d, t, n) /\ Pops(b, d) /\ Completes(d, c)
<1> DEFINE f == TopOf(b)
           last == LastLineOf(b, mark)
           d == Closed(b, mark, last, f)
           c == EndContainer(b, mark)
<1>1. f \in FrameType(t, n) /\ last \in Line(t)
  BY TopIs, LastLineOfType
<1>2. c = PushNode(d, f.node)
  BY DEF EndContainer, Closed
<1> HIDE DEF f, last
<1>3. Sound(d, t, n) /\ Pops(b, d) /\ d.table = b.table \cup Named(f.anchor)
  BY <1>1, ClosedKeeps
<1> HIDE DEF d, c
<1>4. f.node \in 1 .. n
  BY <1>1 DEF FrameType
<1>5. Sound(c, t, n) /\ Completes(d, c) /\ c.table = d.table
  BY <1>2, <1>3, <1>4, PushNodeKeeps
<1>6. QED
  BY <1>3, <1>5 DEF c, f

(***************************************************************************)
(* The builder's account and the path of the events.                       *)
(***************************************************************************)
\* One frame per collection of the path, of its kind, with a pending key where a value is due.
Follows(b, p) ==
  /\ b.hasRoot <=> p = <<"done">>
  /\ Len(b.stack) = IF p = <<>> THEN 0 ELSE Len(p) - 1
  /\ \A i \in 1 .. Len(b.stack) :
       p[i + 1] = IF b.stack[i].kind = "seq" THEN "seq"
                  ELSE IF b.stack[i].key = NoKey THEN "key" ELSE "val"

\* The path of the events: a document below which only an unfinished one is nested.
Shape(p) ==
  /\ p \in Seq({"root", "done", "seq", "key", "val"})
  /\ p # <<>> => p[1] \in {"root", "done"}
  /\ Len(p) > 1 => p[1] = "root"
  /\ \A i \in 2 .. Len(p) : p[i] \in {"seq", "key", "val"}

\* The path awaits a node.
Awaits(p) == p # <<>> /\ p[Len(p)] \in {"root", "seq", "key", "val"}

\* A document has one entry of docs_meta, made when its root is; it keeps the markers seen.
Aligned(b, p) ==
  /\ Len(b.docs) = Len(b.docsMeta)
  /\ Len(b.docs) = b.docEnds + (IF b.hasRoot THEN 1 ELSE 0)
  /\ p # <<>> /\ ~b.hasRoot => b.nextMeta = b.docEnds + 1
  /\ \A i \in 1 .. Len(b.docsMeta) :
       /\ b.docsMeta[i].start = i
       /\ b.docsMeta[i].end = IF i <= b.docEnds THEN i ELSE 0

\* The names the parser knows are in the table or on a frame whose collection is open.
Resolves(b, names) ==
  names \subseteq b.table \cup {b.stack[i].anchor : i \in 1 .. Len(b.stack)}

\* The last construct of a path.
LEMMA ShapeTypes ==
  ASSUME NEW p, Shape(p), p # <<>>
  PROVE  /\ p \in Seq({"root", "done", "seq", "key", "val"})
         /\ Len(p) \in Nat /\ Len(p) >= 1 /\ p[1] \in {"root", "done"}
<1>1. p \in Seq({"root", "done", "seq", "key", "val"})
  BY DEF Shape
<1>2. QED
  BY <1>1 DEF Shape

\* A path that awaits a node is not that of a finished document.
LEMMA AwaitsIs ==
  ASSUME NEW p, Shape(p), Awaits(p)
  PROVE  p[1] = "root" /\ p # <<"done">>
<1>1. /\ p \in Seq({"root", "done", "seq", "key", "val"}) /\ p # <<>>
      /\ Len(p) \in Nat /\ Len(p) >= 1 /\ p[1] \in {"root", "done"}
  BY ShapeTypes DEF Awaits
<1>2. p[1] = "root"
  <2>1. CASE Len(p) = 1
    BY <1>1, <2>1 DEF Awaits
  <2>2. CASE Len(p) > 1
    BY <2>2 DEF Shape
  <2>3. \A k \in Nat : k >= 1 => k = 1 \/ k > 1
    OBVIOUS
  <2>4. Len(p) = 1 \/ Len(p) > 1
    BY <1>1, <2>3, Zenon
  <2>5. QED
    BY <2>1, <2>2, <2>4
<1>3. p # <<"done">>
  BY <1>2
<1>4. QED
  BY <1>2, <1>3

\* The path with its end replaced.
LEMMA CompletedIs ==
  ASSUME NEW p, Shape(p), Awaits(p)
  PROVE  LET q == ES!Completed(p)
         IN  /\ q \in Seq({"root", "done", "seq", "key", "val"}) /\ Len(q) = Len(p)
             /\ q[Len(p)] = (CASE p[Len(p)] = "root" -> "done" [] p[Len(p)] = "seq" -> "seq"
                               [] p[Len(p)] = "key" -> "val" [] p[Len(p)] = "val" -> "key")
             /\ \A i \in 1 .. Len(p) : i # Len(p) => q[i] = p[i]
<1> DEFINE S == {"root", "done", "seq", "key", "val"}
           k == Len(p)
           v == CASE p[k] = "root" -> "done" [] p[k] = "seq" -> "seq"
                  [] p[k] = "key" -> "val" [] p[k] = "val" -> "key"
<1>1. p \in Seq(S) /\ p # <<>> /\ k \in 1 .. k
  BY ShapeTypes DEF Awaits
<1>2. v \in S
  BY DEF Awaits
<1>3. ES!Completed(p) = [p EXCEPT ![k] = v]
  BY DEF ES!Completed
<1> HIDE DEF v, S
<1> DEFINE q == [p EXCEPT ![k] = v]
<1>4. q \in Seq(S) /\ Len(q) = k /\ q[k] = v /\ \A i \in 1 .. k : i # k => q[i] = p[i]
  <2> HIDE DEF k
  <2>1. QED
    BY <1>1, <1>2, ExceptSeq DEF k
<1>5. QED
  BY <1>3, <1>4 DEF v, S

\* A path with a node completed is a path.
LEMMA CompletedShape ==
  ASSUME NEW p, Shape(p), Awaits(p)
  PROVE  Shape(ES!Completed(p)) /\ ES!Completed(p) # <<>>
<1> DEFINE q == ES!Completed(p)
<1>1. /\ q \in Seq({"root", "done", "seq", "key", "val"}) /\ Len(q) = Len(p)
      /\ q[Len(p)] = (CASE p[Len(p)] = "root" -> "done" [] p[Len(p)] = "seq" -> "seq"
                        [] p[Len(p)] = "key" -> "val" [] p[Len(p)] = "val" -> "key")
      /\ \A i \in 1 .. Len(p) : i # Len(p) => q[i] = p[i]
  BY CompletedIs
<1>2. Len(p) \in Nat /\ Len(p) >= 1 /\ p[1] = "root"
  BY ShapeTypes, AwaitsIs DEF Awaits
<1> HIDE DEF q
<1>3. q # <<>>
  BY <1>1, <1>2
<1>4. q[1] \in {"root", "done"} /\ (Len(q) > 1 => q[1] = "root")
  BY <1>1, <1>2
<1>5. ASSUME NEW i \in 2 .. Len(q) PROVE q[i] \in {"seq", "key", "val"}
  <2>1. i \in 1 .. Len(p) /\ p[i] \in {"seq", "key", "val"}
    BY <1>1, <1>2 DEF Shape
  <2>2. QED
    BY <1>1, <2>1
<1>6. QED
  BY <1>1, <1>3, <1>4, <1>5 DEF Shape, q

\* Completing a node in the builder follows completing it in the path.
LEMMA CompletesFollows ==
  ASSUME NEW t, NEW n, NEW b, Sound(b, t, n), NEW p, Shape(p), Awaits(p), Follows(b, p),
         NEW c, Completes(b, c)
  PROVE  Follows(c, ES!Completed(p))
<1> DEFINE q == ES!Completed(p)
           k == Len(p)
<1>1. /\ Len(q) = k
      /\ q[k] = (CASE p[k] = "root" -> "done" [] p[k] = "seq" -> "seq"
                   [] p[k] = "key" -> "val" [] p[k] = "val" -> "key")
      /\ \A i \in 1 .. k : i # k => q[i] = p[i]
      /\ q \in Seq({"root", "done", "seq", "key", "val"})
  BY CompletedIs
<1>2. k \in Nat /\ k >= 1 /\ p[1] = "root" /\ p # <<"done">> /\ p # <<>>
  BY ShapeTypes, AwaitsIs DEF Awaits
<1>3. Len(b.stack) = k - 1 /\ ~b.hasRoot /\ b.stack \in Seq(FrameType(t, n))
  BY <1>2, FieldTypes DEF Follows
<1> HIDE DEF q
<1>4. CASE k = 1
  <2>1. b.stack = <<>>
    BY <1>3, <1>4
  <2>2. c.stack = <<>> /\ c.hasRoot = TRUE
    BY <2>1 DEF Completes
  <2>3. q[1] = "done" /\ Len(q) = 1
    BY <1>1, <1>2, <1>4
  <2>4. q = <<"done">>
    BY <1>1, <2>3
  <2>5. Len(c.stack) = 0
    BY <2>2
  <2>6. QED
    BY <2>2, <2>3, <2>4, <2>5 DEF Follows, q
<1>5. CASE k > 1
  <2>1. b.stack # <<>> /\ Len(b.stack) \in 1 .. Len(b.stack)
    BY <1>2, <1>3, <1>5
  <2>2. /\ Rest(b, c) /\ Len(c.stack) = Len(b.stack)
        /\ \A i \in 1 .. Len(b.stack) :
             /\ c.stack[i].kind = b.stack[i].kind
             /\ i # Len(b.stack) => c.stack[i].key = b.stack[i].key
        /\ TopOf(b).kind = "map" => (TopOf(c).key = NoKey <=> TopOf(b).key # NoKey)
    BY <2>1 DEF Completes
  <2>3. ~c.hasRoot
    BY <1>3, <2>2 DEF Rest
  <2>4. q # <<"done">> /\ q # <<>>
    BY <1>1, <1>5
  <2>5. Len(c.stack) = Len(q) - 1
    BY <1>1, <1>3, <2>2
  <2>6. ASSUME NEW i \in 1 .. Len(b.stack), i # Len(b.stack)
        PROVE  q[i + 1] = IF c.stack[i].kind = "seq" THEN "seq"
                          ELSE IF c.stack[i].key = NoKey THEN "key" ELSE "val"
    <3>1. i + 1 \in 1 .. k /\ i + 1 # k
      BY <1>2, <1>3, <2>6
    <3>2. q[i + 1] = p[i + 1]
      BY <1>1, <3>1
    <3>3. c.stack[i].kind = b.stack[i].kind /\ c.stack[i].key = b.stack[i].key
      BY <2>2, <2>6
    <3>4. p[i + 1] = IF b.stack[i].kind = "seq" THEN "seq"
                     ELSE IF b.stack[i].key = NoKey THEN "key" ELSE "val"
      BY DEF Follows
    <3>5. QED
      BY <3>2, <3>3, <3>4
  <2>7. q[k] = IF TopOf(c).kind = "seq" THEN "seq" ELSE IF TopOf(c).key = NoKey THEN "key" ELSE "val"
    <3>1. p[k] = IF TopOf(b).kind = "seq" THEN "seq" ELSE IF TopOf(b).key = NoKey THEN "key" ELSE "val"
      <4>1. Len(b.stack) + 1 = k
        BY <1>2, <1>3
      <4>2. p[Len(b.stack) + 1] = IF TopOf(b).kind = "seq" THEN "seq"
                                  ELSE IF TopOf(b).key = NoKey THEN "key" ELSE "val"
        BY <2>1 DEF Follows, TopOf
      <4>3. QED
        BY <4>1, <4>2
    <3>2. TopOf(c).kind = TopOf(b).kind
      BY <2>1, <2>2 DEF TopOf
    <3>3. TopOf(b).kind \in {"map", "seq"}
      BY <2>1, TopIs DEF FrameType
    <3>4. CASE TopOf(b).kind = "seq"
      BY <1>1, <3>1, <3>2, <3>4
    <3>5. CASE TopOf(b).kind = "map" /\ TopOf(b).key = NoKey
      <4>1. p[k] = "key" /\ TopOf(c).key # NoKey
        BY <2>2, <3>1, <3>5
      <4>2. q[k] = "val"
        BY <1>1, <4>1
      <4>3. QED
        BY <3>2, <3>5, <4>1, <4>2
    <3>6. CASE TopOf(b).kind = "map" /\ TopOf(b).key # NoKey
      <4>1. p[k] = "val" /\ TopOf(c).key = NoKey
        BY <2>2, <3>1, <3>6
      <4>2. q[k] = "key"
        BY <1>1, <4>1
      <4>3. QED
        BY <3>2, <3>6, <4>1, <4>2
    <3>7. QED
      BY <3>3, <3>4, <3>5, <3>6
  <2>8. ASSUME NEW i \in 1 .. Len(c.stack)
        PROVE  q[i + 1] = IF c.stack[i].kind = "seq" THEN "seq"
                          ELSE IF c.stack[i].key = NoKey THEN "key" ELSE "val"
    <3>1. CASE i # Len(b.stack)
      BY <2>2, <2>6, <3>1
    <3>2. CASE i = Len(b.stack)
      <4>1. i + 1 = k /\ TopOf(c) = c.stack[i]
        BY <1>2, <1>3, <2>2, <3>2 DEF TopOf
      <4>2. QED
        BY <2>7, <4>1
    <3>3. QED
      BY <3>1, <3>2
  <2>9. QED
    BY <2>3, <2>4, <2>5, <2>8 DEF Follows, q
<1>6. k = 1 \/ k > 1
  <2> HIDE DEF k
  <2>1. QED
    BY <1>2
<1>7. QED
  BY <1>4, <1>5, <1>6

\* The path of an awaited node with a collection below it.
LEMMA AppendShape ==
  ASSUME NEW p, Shape(p), Awaits(p), NEW m \in {"seq", "key"}
  PROVE  LET q == Append(p, m)
         IN  /\ Shape(q) /\ q # <<>> /\ Len(q) = Len(p) + 1 /\ q[Len(p) + 1] = m
             /\ \A i \in 1 .. Len(p) : q[i] = p[i]
<1> DEFINE S == {"root", "done", "seq", "key", "val"}
           k == Len(p)
           q == Append(p, m)
<1>1. p \in Seq(S) /\ k \in Nat /\ k >= 1 /\ p[1] = "root" /\ m \in S
  BY ShapeTypes, AwaitsIs DEF Awaits
<1>2. /\ q \in Seq(S) /\ Len(q) = k + 1 /\ q[k + 1] = m
      /\ \A i \in 1 .. k : q[i] = p[i]
  <2> HIDE DEF S
  <2>1. QED
    BY <1>1, AppendProperties
<1> HIDE DEF q
<1>3. q # <<>> /\ q[1] = "root"
  BY <1>1, <1>2
<1>4. ASSUME NEW i \in 2 .. Len(q) PROVE q[i] \in {"seq", "key", "val"}
  <2>1. CASE i = k + 1
    BY <1>2, <2>1
  <2>2. CASE i # k + 1
    <3>1. i \in 2 .. k /\ i \in 1 .. k
      BY <1>1, <1>2, <2>2
    <3>2. p[i] \in {"seq", "key", "val"}
      BY <3>1 DEF Shape
    <3>3. QED
      BY <1>2, <3>1, <3>2
  <2>3. QED
    BY <2>1, <2>2
<1>5. Shape(q)
  BY <1>2, <1>3, <1>4 DEF Shape
<1>6. QED
  BY <1>2, <1>3, <1>5 DEF q

\* Opening a collection follows the longer path.
LEMMA OpensFollows ==
  ASSUME NEW t, NEW n, NEW b, Sound(b, t, n), NEW p, Shape(p), Awaits(p), Follows(b, p),
         NEW c, NEW kind \in {"map", "seq"}, NEW anchor, Opens(b, c, kind, anchor)
  PROVE  Follows(c, Append(p, IF kind = "seq" THEN "seq" ELSE "key"))
<1> DEFINE m == IF kind = "seq" THEN "seq" ELSE "key"
           q == Append(p, m)
           k == Len(p)
<1>1. m \in {"seq", "key"}
  OBVIOUS
<1>2. /\ q # <<>> /\ Len(q) = k + 1 /\ q[k + 1] = m
      /\ \A i \in 1 .. k : q[i] = p[i]
  <2> HIDE DEF m
  <2>1. QED
    BY <1>1, AppendShape
<1>3. k \in Nat /\ k >= 1 /\ p # <<"done">> /\ p # <<>>
  BY ShapeTypes, AwaitsIs DEF Awaits
<1>4. Len(b.stack) = k - 1 /\ ~b.hasRoot
  BY <1>3 DEF Follows
<1> HIDE DEF q
<1>5. ~c.hasRoot /\ Len(c.stack) = k
  BY <1>3, <1>4 DEF Opens, Rest
<1>6. q # <<"done">>
  BY <1>2, <1>3
<1>7. ASSUME NEW i \in 1 .. Len(c.stack)
      PROVE  q[i + 1] = IF c.stack[i].kind = "seq" THEN "seq"
                        ELSE IF c.stack[i].key = NoKey THEN "key" ELSE "val"
  <2>1. CASE i = k
    <3>1. Len(b.stack) + 1 = k
      BY <1>3, <1>4
    <3>2. c.stack[k].kind = kind /\ c.stack[k].key = NoKey
      BY <3>1 DEF Opens
    <3>3. QED
      BY <1>2, <2>1, <3>2
  <2>2. CASE i # k
    <3>1. i \in 1 .. Len(b.stack) /\ i + 1 \in 1 .. k
      BY <1>3, <1>4, <1>5, <2>2
    <3>2. c.stack[i].kind = b.stack[i].kind /\ c.stack[i].key = b.stack[i].key
      BY <3>1 DEF Opens
    <3>3. p[i + 1] = IF b.stack[i].kind = "seq" THEN "seq"
                     ELSE IF b.stack[i].key = NoKey THEN "key" ELSE "val"
      BY <3>1 DEF Follows
    <3>4. QED
      BY <1>2, <3>1, <3>2, <3>3
  <2>3. QED
    BY <2>1, <2>2
<1>8. QED
  BY <1>2, <1>5, <1>6, <1>7 DEF Follows, q

\* The path around an open collection.
LEMMA OuterShape ==
  ASSUME NEW p, Shape(p), Len(p) > 1
  PROVE  LET q == SubSeq(p, 1, Len(p) - 1)
         IN  /\ Shape(q) /\ Awaits(q) /\ Len(q) = Len(p) - 1
             /\ \A i \in 1 .. Len(p) - 1 : q[i] = p[i]
<1> DEFINE S == {"root", "done", "seq", "key", "val"}
           k == Len(p) - 1
           q == SubSeq(p, 1, k)
<1>1. p \in Seq(S) /\ k \in Nat /\ k >= 1 /\ p[1] = "root"
  BY DEF Shape
<1>2. /\ q \in Seq(S) /\ Len(q) = k
      /\ \A i \in 1 .. k : q[i] = p[i]
  <2>1. 1 \in Int /\ k \in Int /\ \A i \in 1 .. k : p[i] \in S
    <3> HIDE DEF S
    <3>1. QED
      BY <1>1
  <2>2. /\ q \in Seq(S) /\ Len(q) = (IF 1 <= k THEN k - 1 + 1 ELSE 0)
        /\ \A i \in 1 .. k - 1 + 1 : q[i] = p[1 + i - 1]
    <3> HIDE DEF S, k
    <3>1. QED
      BY <2>1, SubSeqProperties
  <2>3. QED
    BY <1>1, <2>2
<1> HIDE DEF q
<1>3. q # <<>> /\ q[1] = "root"
  BY <1>1, <1>2
<1>4. ASSUME NEW i \in 2 .. Len(q) PROVE q[i] \in {"seq", "key", "val"}
  <2>1. i \in 2 .. Len(p) /\ i \in 1 .. k
    BY <1>1, <1>2
  <2>2. p[i] \in {"seq", "key", "val"}
    BY <2>1 DEF Shape
  <2>3. QED
    BY <1>2, <2>1, <2>2
<1>5. Shape(q)
  BY <1>2, <1>3, <1>4 DEF Shape
<1>6. q[k] \in {"root", "seq", "key", "val"}
  <2>1. CASE k = 1
    BY <1>3, <2>1
  <2>2. CASE k # 1
    <3>1. k \in 2 .. Len(q)
      BY <1>1, <1>2, <2>2
    <3>2. QED
      BY <1>4, <3>1
  <2>3. QED
    BY <2>1, <2>2
<1>7. Awaits(q)
  BY <1>2, <1>3, <1>6 DEF Awaits
<1>8. QED
  BY <1>2, <1>5, <1>7 DEF q

\* Popping a frame follows the shorter path.
LEMMA PopsFollows ==
  ASSUME NEW b, NEW p, Shape(p), Awaits(p), Len(p) > 1, Follows(b, p), NEW d, Pops(b, d)
  PROVE  Follows(d, SubSeq(p, 1, Len(p) - 1))
<1> DEFINE q == SubSeq(p, 1, Len(p) - 1)
           k == Len(p)
<1>1. /\ Awaits(q) /\ Shape(q) /\ Len(q) = k - 1
      /\ \A i \in 1 .. k - 1 : q[i] = p[i]
  BY OuterShape
<1>2. k \in Nat /\ p # <<>> /\ p # <<"done">> /\ q # <<"done">> /\ q # <<>>
  <2> HIDE DEF q
  <2>1. QED
    BY <1>1, ShapeTypes, AwaitsIs DEF Awaits
<1> HIDE DEF q
<1>3. ~b.hasRoot /\ Len(b.stack) = k - 1
  BY <1>2 DEF Follows
<1>4. ~d.hasRoot /\ Len(d.stack) = k - 2 /\ \A i \in 1 .. k - 2 : d.stack[i] = b.stack[i]
  <2>1. Len(d.stack) = (k - 1) - 1 /\ \A i \in 1 .. (k - 1) - 1 : d.stack[i] = b.stack[i]
    BY <1>3 DEF Pops
  <2>2. (k - 1) - 1 = k - 2
    BY <1>2
  <2>3. ~d.hasRoot
    BY <1>3 DEF Pops, Rest
  <2>4. QED
    BY <2>1, <2>2, <2>3
<1>5. ASSUME NEW i \in 1 .. Len(d.stack)
      PROVE  q[i + 1] = IF d.stack[i].kind = "seq" THEN "seq"
                        ELSE IF d.stack[i].key = NoKey THEN "key" ELSE "val"
  <2>1. i \in 1 .. Len(b.stack) /\ i + 1 \in 1 .. k - 1 /\ d.stack[i] = b.stack[i]
    BY <1>2, <1>3, <1>4
  <2>2. p[i + 1] = IF b.stack[i].kind = "seq" THEN "seq"
                   ELSE IF b.stack[i].key = NoKey THEN "key" ELSE "val"
    BY <2>1 DEF Follows
  <2>3. QED
    BY <1>1, <2>1, <2>2
<1>6. Len(d.stack) = Len(q) - 1
  BY <1>1, <1>2, <1>4
<1>7. QED
  BY <1>2, <1>4, <1>5, <1>6 DEF Follows, q

\* Builders that are alike follow the same path.
LEMMA AlikeFollows ==
  ASSUME NEW b, NEW c, NEW p, Follows(b, p), Alike(b, c), Rest(b, c)
  PROVE  Follows(c, p)
BY DEF Follows, Alike, Rest

(***************************************************************************)
(* The documents.                                                          *)
(***************************************************************************)
\* The fields about documents.
LEMMA DocTypes ==
  ASSUME NEW t, NEW n, NEW b, Sound(b, t, n)
  PROVE  /\ b.docs \in Seq(1 .. n) /\ b.docsMeta \in Seq(DocType) /\ b.nextMeta \in Nat
         /\ b.docEnds \in Nat /\ b.hasRoot \in BOOLEAN /\ Len(b.docs) \in Nat /\ Len(b.docsMeta) \in Nat
BY DEF Sound, BuilderType

\* Where the documents stay the same, they stay aligned.
LEMMA RestAligned ==
  ASSUME NEW b, NEW p, Aligned(b, p), NEW c, Rest(b, c), NEW q, q # <<>> => p # <<>>
  PROVE  Aligned(c, q)
<1>1. /\ c.docs = b.docs /\ c.docsMeta = b.docsMeta
      /\ c.nextMeta = b.nextMeta /\ c.docEnds = b.docEnds /\ c.hasRoot = b.hasRoot
  BY DEF Rest
<1>2. QED
  BY <1>1 DEF Aligned

\* A completed node is the root of a document, with its entry, or leaves the documents alone.
LEMMA CompletesAligned ==
  ASSUME NEW t, NEW n, NEW b, Sound(b, t, n), NEW p, Shape(p), Awaits(p), Follows(b, p), Aligned(b, p),
         NEW c, Completes(b, c), NEW q, q # <<>>
  PROVE  Aligned(c, q)
<1>1. p # <<>> /\ ~b.hasRoot
  BY AwaitsIs DEF Follows, Awaits
<1>2. CASE b.stack # <<>>
  <2>1. Rest(b, c)
    BY <1>2 DEF Completes
  <2>2. QED
    BY <1>1, <2>1, RestAligned
<1>3. CASE b.stack = <<>>
  <2> DEFINE own == [start |-> b.nextMeta, end |-> 0, explicit_end |-> FALSE]
             k == Len(b.docsMeta)
  <2>1. /\ b.docsMeta \in Seq(DocType) /\ b.nextMeta \in Nat
        /\ b.docEnds \in Nat /\ Len(b.docs) \in Nat /\ k \in Nat
    BY DocTypes
  <2>2. /\ c.hasRoot = TRUE /\ Len(c.docs) = Len(b.docs) + 1 /\ c.docEnds = b.docEnds
        /\ c.docsMeta = Append(b.docsMeta, own)
    BY <1>3 DEF Completes
  <2>3. Len(b.docs) = k /\ b.docEnds = k /\ b.nextMeta = k + 1
    BY <1>1, <2>1 DEF Aligned
  <2>4. own.start = b.nextMeta /\ own.end = 0 /\ own \in DocType
    BY <2>1 DEF DocType
  <2> HIDE DEF own, k
  <2>5. Len(c.docsMeta) = k + 1 /\ c.docsMeta[k + 1] = own /\ \A i \in 1 .. k : c.docsMeta[i] = b.docsMeta[i]
    BY <2>1, <2>2, <2>4, AppendProperties DEF k
  <2>6. ASSUME NEW i \in 1 .. Len(c.docsMeta)
        PROVE  /\ c.docsMeta[i].start = i
               /\ c.docsMeta[i].end = IF i <= c.docEnds THEN i ELSE 0
    <3>1. CASE i = k + 1
      BY <2>1, <2>2, <2>3, <2>4, <2>5, <3>1
    <3>2. CASE i # k + 1
      <4>1. i \in 1 .. k
        BY <2>1, <2>5, <3>2
      <4>2. b.docsMeta[i].start = i /\ b.docsMeta[i].end = IF i <= b.docEnds THEN i ELSE 0
        BY <4>1 DEF Aligned, k
      <4>3. QED
        BY <2>2, <2>5, <4>1, <4>2
    <3>3. QED
      BY <3>1, <3>2
  <2>7. Len(c.docs) = Len(c.docsMeta) /\ Len(c.docs) = c.docEnds + 1
    BY <2>1, <2>2, <2>3, <2>5
  <2>8. QED
    BY <2>2, <2>6, <2>7 DEF Aligned
<1>4. QED
  BY <1>2, <1>3

(***************************************************************************)
(* The anchors.                                                            *)
(***************************************************************************)
\* Names stay known while frames keep their anchors and the table grows.
LEMMA AnchorsKept ==
  ASSUME NEW b, NEW c, NEW names, Resolves(b, names),
         Len(b.stack) \in Nat, Len(c.stack) \in Nat, Len(c.stack) >= Len(b.stack),
         \A i \in 1 .. Len(b.stack) : c.stack[i].anchor = b.stack[i].anchor,
         NEW more, c.table = b.table \cup more
  PROVE  Resolves(c, names \cup more)
<1>1. ASSUME NEW x \in names PROVE x \in c.table \cup {c.stack[i].anchor : i \in 1 .. Len(c.stack)}
  <2>1. x \in b.table \/ \E i \in 1 .. Len(b.stack) : x = b.stack[i].anchor
    BY DEF Resolves
  <2>2. ASSUME NEW i \in 1 .. Len(b.stack), x = b.stack[i].anchor
        PROVE  x \in {c.stack[j].anchor : j \in 1 .. Len(c.stack)}
    <3>1. i \in 1 .. Len(c.stack)
      OBVIOUS
    <3>2. x = c.stack[i].anchor
      BY <2>2
    <3>3. QED
      BY <3>1, <3>2
  <2>3. QED
    BY <2>1, <2>2
<1>2. more \subseteq c.table
  OBVIOUS
<1>3. QED
  BY <1>1, <1>2 DEF Resolves

\* The stack is a sequence of frames.
LEMMA StackLen ==
  ASSUME NEW t, NEW n, NEW b, Sound(b, t, n)
  PROVE  Len(b.stack) \in Nat /\ DOMAIN b.stack = 1 .. Len(b.stack) /\ b.stack \in Seq(FrameType(t, n))
<1>1. b.stack \in Seq(FrameType(t, n))
  BY FieldTypes
<1>2. QED
  BY <1>1

\* Builders that are alike know the same names.
LEMMA AlikeResolves ==
  ASSUME NEW t, NEW n, NEW b, Sound(b, t, n), NEW names, Resolves(b, names),
         NEW c, Alike(b, c), c.table = b.table
  PROVE  Resolves(c, names)
<1>1. Len(b.stack) \in Nat /\ Len(c.stack) = Len(b.stack)
      /\ \A i \in 1 .. Len(b.stack) : c.stack[i].anchor = b.stack[i].anchor
  BY StackLen DEF Alike
<1>2. Resolves(c, names \cup {})
  <2>1. c.table = b.table \cup {} /\ Len(c.stack) \in Nat /\ Len(c.stack) >= Len(b.stack)
    BY <1>1
  <2>2. QED
    BY <1>1, <2>1, AnchorsKept
<1>3. names \cup {} = names
  OBVIOUS
<1>4. QED
  BY <1>2, <1>3

\* The anchor of a scalar goes to the table.
LEMMA CompletesResolves ==
  ASSUME NEW t, NEW n, NEW b, Sound(b, t, n), NEW names, Resolves(b, names),
         NEW c, Completes(b, c), NEW more, c.table = b.table \cup more
  PROVE  Resolves(c, names \cup more)
<1>1. Len(b.stack) \in Nat /\ (b.stack = <<>> => Len(b.stack) = 0)
  BY StackLen
<1>2. Len(c.stack) = Len(b.stack) /\ \A i \in 1 .. Len(b.stack) : c.stack[i].anchor = b.stack[i].anchor
  <2>1. CASE b.stack = <<>>
    <3>1. c.stack = <<>> /\ 1 .. 0 = {}
      BY <2>1 DEF Completes
    <3>2. QED
      BY <2>1, <3>1
  <2>2. CASE b.stack # <<>>
    BY <2>2 DEF Completes
  <2>3. QED
    BY <2>1, <2>2
<1>3. Len(c.stack) \in Nat /\ Len(c.stack) >= Len(b.stack)
  BY <1>1, <1>2
<1>4. QED
  BY <1>1, <1>2, <1>3, AnchorsKept

\* The anchor of a collection goes to its frame.
LEMMA OpensResolves ==
  ASSUME NEW t, NEW n, NEW b, Sound(b, t, n), NEW names, Resolves(b, names),
         NEW c, NEW kind, NEW anchor, Opens(b, c, kind, anchor), c.table = b.table
  PROVE  Resolves(c, names \cup Named(anchor))
<1> DEFINE k == Len(b.stack)
<1>1. k \in Nat /\ Len(c.stack) = k + 1 /\ c.stack[k + 1].anchor = anchor
      /\ \A i \in 1 .. k : c.stack[i].anchor = b.stack[i].anchor
  BY StackLen DEF Opens
<1>2. Resolves(c, names \cup {})
  <2>1. c.table = b.table \cup {} /\ Len(c.stack) \in Nat /\ Len(c.stack) >= Len(b.stack)
    BY <1>1
  <2>2. QED
    BY <1>1, <2>1, AnchorsKept
<1>3. anchor \in {c.stack[i].anchor : i \in 1 .. Len(c.stack)}
  <2> HIDE DEF k
  <2>1. k + 1 \in 1 .. Len(c.stack)
    BY <1>1
  <2>2. QED
    BY <1>1, <2>1
<1>4. QED
  BY <1>2, <1>3 DEF Resolves, Named

\* At the end it goes from the frame to the table, so no name is lost with the frame.
LEMMA EndResolves ==
  ASSUME NEW t, NEW n, NEW b, Sound(b, t, n), b.stack # <<>>, NEW names, Resolves(b, names), None \notin names,
         NEW c, NEW d, Pops(b, d), Completes(d, c), c.table = b.table \cup Named(TopOf(b).anchor)
  PROVE  Resolves(c, names)
<1> DEFINE k == Len(b.stack)
           more == Named(TopOf(b).anchor)
<1>1. k \in Nat /\ k \in 1 .. k
  BY StackLen, TopIs
<1>2. Len(d.stack) = k - 1 /\ \A i \in 1 .. k - 1 : d.stack[i] = b.stack[i]
  BY DEF Pops
<1>3. Len(c.stack) = k - 1 /\ \A i \in 1 .. k - 1 : c.stack[i].anchor = b.stack[i].anchor
  <2> HIDE DEF k
  <2>1. CASE d.stack = <<>>
    <3>1. c.stack = <<>> /\ k - 1 = 0 /\ 1 .. 0 = {}
      BY <1>2, <2>1 DEF Completes
    <3>2. QED
      BY <3>1
  <2>2. CASE d.stack # <<>>
    <3>1. Len(c.stack) = Len(d.stack) /\ \A i \in 1 .. Len(d.stack) : c.stack[i].anchor = d.stack[i].anchor
      BY <2>2 DEF Completes
    <3>2. QED
      BY <1>2, <3>1
  <2>3. QED
    BY <2>1, <2>2
<1>4. ASSUME NEW x \in names PROVE x \in c.table \cup {c.stack[i].anchor : i \in 1 .. Len(c.stack)}
  <2>1. x \in b.table \/ \E i \in 1 .. k : x = b.stack[i].anchor
    BY DEF Resolves
  <2>2. CASE x \in b.table
    BY <2>2
  <2>3. ASSUME NEW i \in 1 .. k, x = b.stack[i].anchor
        PROVE  x \in c.table \cup {c.stack[j].anchor : j \in 1 .. Len(c.stack)}
    <3>1. CASE i = k
      <4>1. x = TopOf(b).anchor /\ x # None
        BY <2>3, <3>1 DEF TopOf
      <4>2. QED
        BY <4>1 DEF Named
    <3>2. CASE i # k
      <4>1. i \in 1 .. k - 1
        BY <1>1, <3>2
      <4>2. i \in 1 .. Len(c.stack) /\ x = c.stack[i].anchor
        BY <1>3, <2>3, <4>1
      <4>3. QED
        BY <4>2
    <3>3. QED
      BY <3>1, <3>2
  <2>4. QED
    BY <2>1, <2>2, <2>3
<1>5. QED
  BY <1>4 DEF Resolves

(***************************************************************************)
(* The operations keep the invariant.                                      *)
(***************************************************************************)

\* The inductive invariant, for a builder b on the text t, with the path p and the
\* names of the parser.
Good(b, t, p, names) ==
  /\ Sound(b, t, Len(b.meta))
  /\ Shape(p) /\ Follows(b, p)
  /\ Aligned(b, p)
  /\ Resolves(b, names)

\* The number of nodes is the length of their list.
LEMMA SoundLen ==
  ASSUME NEW t, NEW n, NEW b, Sound(b, t, n)
  PROVE  Sound(b, t, Len(b.meta))
BY DEF Sound

\* What comes next is the same for builders that are alike.
LEMMA AlikeContext ==
  ASSUME NEW t, NEW n, NEW b, Sound(b, t, n), NEW m, NEW c, Sound(c, t, m), Alike(b, c)
  PROVE  /\ InSequence(c) <=> InSequence(b)
         /\ HasKey(c) <=> HasKey(b)
         /\ c.stack = <<>> <=> b.stack = <<>>
<1>1. b.stack \in Seq(FrameType(t, n)) /\ c.stack \in Seq(FrameType(t, m)) /\ Len(c.stack) = Len(b.stack)
  BY StackLen DEF Alike
<1>2. c.stack = <<>> <=> b.stack = <<>>
  BY <1>1
<1>3. ASSUME b.stack # <<>> PROVE TopOf(c).kind = TopOf(b).kind /\ TopOf(c).key = TopOf(b).key
  <2>1. Len(b.stack) \in 1 .. Len(b.stack)
    BY <1>3, TopIs
  <2>2. QED
    BY <1>1, <2>1 DEF Alike, TopOf
<1>4. QED
  BY <1>2, <1>3 DEF InSequence, HasKey

\* absorb_comments.
LEMMA AbsorbGood ==
  ASSUME NEW t, NEW b, NEW p, NEW names, Good(b, t, p, names), NEW cs \in SUBSET Line(t)
  PROVE  LET c == Absorb(b, cs)
         IN  /\ Good(c, t, p, names) /\ Alike(b, c)
             /\ InSequence(c) <=> InSequence(b)
             /\ HasKey(c) <=> HasKey(b)
             /\ c.stack = <<>> <=> b.stack = <<>>
<1> DEFINE c == Absorb(b, cs)
           n == Len(b.meta)
<1>1. Sound(b, t, n) /\ Shape(p) /\ Follows(b, p) /\ Aligned(b, p) /\ Resolves(b, names)
  BY DEF Good
<1>2. Sound(c, t, n) /\ Alike(b, c) /\ Rest(b, c) /\ c.table = b.table
  BY <1>1, AbsorbKeeps
<1> HIDE DEF c, n
<1>3. Sound(c, t, Len(c.meta))
  BY <1>2, SoundLen
<1>4. Follows(c, p) /\ Aligned(c, p) /\ Resolves(c, names)
  BY <1>1, <1>2, AlikeFollows, RestAligned, AlikeResolves
<1>5. Good(c, t, p, names)
  BY <1>1, <1>3, <1>4 DEF Good
<1>6. QED
  BY <1>1, <1>2, <1>5, AlikeContext DEF c

\* A node has been completed.
LEMMA CompletesGood ==
  ASSUME NEW t, NEW b, NEW p, NEW names, Good(b, t, p, names), Awaits(p),
         NEW m, NEW c, Sound(c, t, m), Completes(b, c), NEW more, c.table = b.table \cup more
  PROVE  Good(c, t, ES!Completed(p), names \cup more)
<1> DEFINE q == ES!Completed(p)
<1>1. Sound(b, t, Len(b.meta)) /\ Shape(p) /\ Follows(b, p) /\ Aligned(b, p) /\ Resolves(b, names)
  BY DEF Good
<1>2. Shape(q) /\ q # <<>>
  BY <1>1, CompletedShape
<1>3. Follows(c, q)
  BY <1>1, CompletesFollows
<1> HIDE DEF q
<1>4. Aligned(c, q)
  BY <1>1, <1>2, CompletesAligned
<1>5. Resolves(c, names \cup more)
  BY <1>1, CompletesResolves
<1>6. Sound(c, t, Len(c.meta))
  BY SoundLen
<1>7. QED
  BY <1>2, <1>3, <1>4, <1>5, <1>6 DEF Good, q

\* A scalar.
LEMMA ScalarGood ==
  ASSUME NEW t, Text(t), NEW b, NEW p, NEW names, Good(b, t, p, names), Awaits(p),
         NEW form, NEW line, NEW end, NEW last, NEW from, NEW key, NEW anchor,
         Placeable(b, t, line, end, last, from, key, anchor)
  PROVE  Good(PlaceScalar(b, form, line, end, last, key, anchor, from), t,
              ES!Completed(p), names \cup Named(anchor))
<1> DEFINE c == PlaceScalar(b, form, line, end, last, key, anchor, from)
           n == Len(b.meta)
<1>1. Sound(b, t, n)
  BY DEF Good
<1>2. PICK m \in {n, n + 1} : Sound(c, t, m) /\ Completes(b, c) /\ c.table = b.table \cup Named(anchor)
  <2> HIDE DEF n
  <2>1. QED
    BY <1>1, PlaceScalarKeeps
<1> HIDE DEF c
<1>3. QED
  BY <1>2, CompletesGood DEF c

\* An alias.
LEMMA AliasGood ==
  ASSUME NEW t, NEW b, NEW p, NEW names, Good(b, t, p, names), Awaits(p),
         NEW line \in Line(t), NEW key \in Key(t), NEW from \in Line(t),
         (b.stack # <<>> /\ ~InSequence(b) /\ ~HasKey(b)) => key # NoKey
  PROVE  Good(PlaceAlias(b, line, key, from), t, ES!Completed(p), names)
<1> DEFINE c == PlaceAlias(b, line, key, from)
           n == Len(b.meta)
<1>1. Sound(b, t, n)
  BY DEF Good
<1>2. PICK m \in {n, n + 1} : Sound(c, t, m) /\ Completes(b, c) /\ c.table = b.table
  <2> HIDE DEF n
  <2>1. QED
    BY <1>1, PlaceAliasKeeps
<1> HIDE DEF c
<1>3. c.table = b.table \cup {} /\ names \cup {} = names
  BY <1>2
<1>4. Good(c, t, ES!Completed(p), names \cup {})
  BY <1>2, <1>3, CompletesGood
<1>5. QED
  BY <1>3, <1>4 DEF c

\* The start of a collection.
LEMMA StartGood ==
  ASSUME NEW t, Text(t), NEW b, NEW p, NEW names, Good(b, t, p, names), Awaits(p),
         NEW kind \in {"map", "seq"}, NEW flow \in BOOLEAN, NEW mark \in Line(t),
         NEW anchor \in t.anchors \cup {None}, NEW props, NEW from \in Line(t)
  PROVE  Good(StartContainer(b, kind, flow, mark, anchor, props, from), t,
              Append(p, IF kind = "seq" THEN "seq" ELSE "key"), names \cup Named(anchor))
<1> DEFINE c == StartContainer(b, kind, flow, mark, anchor, props, from)
           n == Len(b.meta)
           m == IF kind = "seq" THEN "seq" ELSE "key"
           q == Append(p, m)
<1>1. Sound(b, t, n) /\ Shape(p) /\ Follows(b, p) /\ Aligned(b, p) /\ Resolves(b, names)
  BY DEF Good
<1>2. Sound(c, t, n + 1) /\ Opens(b, c, kind, anchor) /\ c.table = b.table
  BY <1>1, StartContainerKeeps
<1> HIDE DEF c, n
<1>3. m \in {"seq", "key"}
  OBVIOUS
<1>4. Follows(c, q)
  BY <1>1, <1>2, OpensFollows
<1> HIDE DEF m
<1>5. Shape(q) /\ q # <<>>
  BY <1>1, <1>3, AppendShape
<1> HIDE DEF q
<1>6. Aligned(c, q)
  BY <1>1, <1>2, RestAligned DEF Opens, Awaits
<1>7. Resolves(c, names \cup Named(anchor))
  BY <1>1, <1>2, OpensResolves
<1>8. Sound(c, t, Len(c.meta))
  BY <1>2, SoundLen
<1>9. QED
  BY <1>4, <1>5, <1>6, <1>7, <1>8 DEF Good, c, q, m

\* Its end: the path loses the collection, and the node around it is complete.
LEMMA EndGood ==
  ASSUME NEW t, Text(t), NEW b, NEW p, NEW names, Good(b, t, p, names), Awaits(p), Len(p) > 1,
         None \notin names, NEW mark \in Line(t)
  PROVE  Good(EndContainer(b, mark), t, ES!Completed(SubSeq(p, 1, Len(p) - 1)), names)
<1> DEFINE c == EndContainer(b, mark)
           n == Len(b.meta)
           o == SubSeq(p, 1, Len(p) - 1)
           q == ES!Completed(o)
<1>1. Sound(b, t, n) /\ Shape(p) /\ Follows(b, p) /\ Aligned(b, p) /\ Resolves(b, names)
  BY DEF Good
<1>2. b.stack # <<>>
  <2>1. p # <<>> /\ Len(p) \in Nat
    BY <1>1, ShapeTypes DEF Awaits
  <2>2. Len(b.stack) # 0
    BY <1>1, <2>1 DEF Follows
  <2>3. QED
    BY <2>2
<1>3. /\ Sound(c, t, n) /\ c.table = b.table \cup Named(TopOf(b).anchor)
      /\ \E d : Sound(d, t, n) /\ Pops(b, d) /\ Completes(d, c)
  BY <1>1, <1>2, EndContainerKeeps
<1> HIDE DEF c, n
<1>4. PICK d : Sound(d, t, n) /\ Pops(b, d) /\ Completes(d, c)
  BY <1>3
<1>5. Shape(o) /\ Awaits(o)
  BY <1>1, OuterShape
<1>6. Follows(d, o)
  BY <1>1, <1>4, PopsFollows
<1>7. Aligned(d, o)
  <2>1. p # <<>>
    BY DEF Awaits
  <2> HIDE DEF o
  <2>2. QED
    BY <1>1, <1>4, <2>1, RestAligned DEF Pops
<1> HIDE DEF o
<1>8. Shape(q) /\ q # <<>>
  BY <1>5, CompletedShape
<1>9. Follows(c, q)
  BY <1>4, <1>5, <1>6, CompletesFollows
<1> HIDE DEF q
<1>10. Aligned(c, q)
  BY <1>4, <1>5, <1>6, <1>7, <1>8, CompletesAligned
<1>11. Resolves(c, names)
  BY <1>1, <1>2, <1>3, <1>4, EndResolves
<1>12. Sound(c, t, Len(c.meta))
  BY <1>3, SoundLen
<1>13. QED
  BY <1>8, <1>9, <1>10, <1>11, <1>12 DEF Good, c, q, o

(***************************************************************************)
(* The inductive invariant of the specification.                           *)
(***************************************************************************)

\* How far the source has been read.
SrcType(t) ==
  [at : Line(t), ahead : Line(t), comments : SUBSET Line(t), content : SUBSET Line(t),
   held : BOOLEAN, peeked : LineOr(t)]

\* The text, how far it has been read, the parser's names, and the builder.
IInv ==
  /\ text \in Texts
  /\ src \in SrcType(text)
  /\ anchors \subseteq text.anchors
  /\ Good(builder, text, nest, anchors)

\* What the assumptions say of the text.
LEMMA TextIs ==
  ASSUME IInv
  PROVE  /\ Text(text) /\ None \notin text.anchors /\ None \notin text.keys /\ None \notin anchors
         /\ Lines = Line(text) /\ LineOrNone = LineOr(text)
         /\ src.at \in Lines /\ src.ahead \in Lines
<1>1. text \in Texts
  BY DEF IInv
<1>2. text.lines \in Nat \ {0} /\ None \notin text.anchors \cup text.keys
  BY <1>1, BuilderConstants
<1>3. src.at \in Line(text) /\ src.ahead \in Line(text)
  BY DEF IInv, SrcType
<1>4. QED
  BY <1>2, <1>3 DEF Text, IInv, Lines, Line, LineOrNone, LineOr

\* Lines between lines.
LEMMA Between ==
  ASSUME IInv, NEW l \in Lines, NEW r \in Lines
  PROVE  l .. r \subseteq Lines /\ l .. r - 1 \subseteq Lines
<1>1. \A n \in Nat \ {0} : \A i \in 1 .. n, j \in 1 .. n : i .. j \subseteq 1 .. n /\ i .. j - 1 \subseteq 1 .. n
  OBVIOUS
<1>2. text.lines \in Nat \ {0}
  BY TextIs DEF Text
<1>3. QED
  BY <1>1, <1>2 DEF Lines

\* Reading on keeps the source's type.
LEMMA Advances ==
  ASSUME IInv, NEW at \in Lines, NEW ahead \in Lines, NEW cs \in SUBSET Lines, NEW lines \in SUBSET Lines,
         NEW held, held \in BOOLEAN, NEW peeked, peeked \in LineOrNone,
         Advance(at, ahead, cs, lines, held, peeked)
  PROVE  src' \in SrcType(text)
<1>1. /\ src.comments \in SUBSET Line(text) /\ src.content \in SUBSET Line(text)
      /\ at \in Line(text) /\ ahead \in Line(text) /\ peeked \in LineOr(text)
      /\ cs \in SUBSET Line(text) /\ lines \in SUBSET Line(text)
  BY TextIs DEF IInv, SrcType
<1>2. QED
  BY <1>1 DEF Advance, SrcType

LEMMA ReadsTo ==
  ASSUME IInv, NEW l \in Lines, NEW r \in Lines, NEW cs \in SUBSET Lines, NEW trail \in SUBSET Lines,
         NEW mark \in Lines, NEW held, held \in BOOLEAN, ReadTo(l, r, cs, trail, mark, held)
  PROVE  src' \in SrcType(text)
<1> DEFINE lines == (l .. r) \cup {mark}
           both == cs \cup trail
<1>1. lines \in SUBSET Lines /\ both \in SUBSET Lines /\ NoLine \in LineOrNone
  BY Between DEF LineOrNone
<1>2. Advance(r, r, both, lines, held, NoLine)
  BY DEF ReadTo
<1> HIDE DEF lines, both
<1>3. QED
  BY <1>1, <1>2, Advances

\* The text of a key is none where no key is due.
LEMMA KeysAre ==
  ASSUME IInv, NEW k \in KeyTexts
  PROVE  /\ k \in Key(text)
         /\ builder.stack # <<>> /\ ~InSequence(builder) /\ ~HasKey(builder) => k # NoKey
<1>1. CASE AtKey
  <2>1. k \in text.keys
    BY <1>1 DEF KeyTexts
  <2>2. QED
    BY <2>1, TextIs DEF Key, NoKey
<1>2. CASE ~AtKey
  BY <1>2 DEF KeyTexts, AtKey, Key
<1>3. QED
  BY <1>1, <1>2

\* A declared anchor is known to the parser.
LEMMA DeclaredAre ==
  ASSUME IInv, NEW a, a \in text.anchors \cup {None}, Declare(a)
  PROVE  anchors' = anchors \cup Named(a) /\ anchors' \subseteq text.anchors
BY DEF Declare, Named, IInv

\* Where an event may be a node, the path awaits one.
LEMMA AwaitsNodeIs ==
  ASSUME ES!AwaitsNode
  PROVE  Awaits(nest)
BY DEF ES!AwaitsNode, ES!Top, Awaits

(***************************************************************************)
(* The events.                                                             *)
(***************************************************************************)
\* What the four kinds of scalar have in common.
LEMMA ScalarKeeps ==
  ASSUME IInv, text' = text, ES!Leaf, src' \in SrcType(text),
         NEW cs \in SUBSET Lines, NEW form, NEW line \in Lines, NEW end \in Lines, NEW last \in Lines,
         NEW k \in KeyTexts, NEW a, a \in text.anchors \cup {None}, Declare(a),
         builder' = PlaceScalar(Absorb(builder, cs), form, line, end, last, k, a, src.at)
  PROVE  IInv'
<1> DEFINE b == Absorb(builder, cs)
<1>1. Text(text) /\ Lines = Line(text) /\ src.at \in Lines
  BY TextIs
<1>2. /\ Good(b, text, nest, anchors)
      /\ InSequence(b) <=> InSequence(builder)
      /\ HasKey(b) <=> HasKey(builder)
      /\ b.stack = <<>> <=> builder.stack = <<>>
  <2>1. Good(builder, text, nest, anchors) /\ cs \in SUBSET Line(text)
    BY <1>1 DEF IInv
  <2>2. QED
    BY <2>1, AbsorbGood
<1>3. Awaits(nest) /\ nest' = ES!Completed(nest)
  BY AwaitsNodeIs DEF ES!Leaf
<1>4. anchors' = anchors \cup Named(a) /\ anchors' \subseteq text.anchors
  BY DeclaredAre
<1> HIDE DEF b
<1>5. Placeable(b, text, line, end, last, src.at, k, a)
  <2>1. k \in Key(text) /\ (builder.stack # <<>> /\ ~InSequence(builder) /\ ~HasKey(builder) => k # NoKey)
    BY KeysAre
  <2>2. QED
    BY <1>1, <1>2, <2>1 DEF Placeable
<1>6. Good(PlaceScalar(b, form, line, end, last, k, a, src.at), text, ES!Completed(nest),
           anchors \cup Named(a))
  BY <1>1, <1>2, <1>3, <1>5, ScalarGood
<1>7. Good(builder', text, nest', anchors')
  BY <1>3, <1>4, <1>6 DEF b
<1>8. QED
  BY <1>4, <1>7 DEF IInv

\* The comments and the lines that an action chooses.
LEMMA CommentsAre ==
  ASSUME IInv, NEW l, NEW cs \in Comments(l)
  PROVE  cs \in SUBSET Lines
BY DEF Comments

LEMMA TrailsAre ==
  ASSUME IInv, NEW r \in Lines, NEW trail \in Trails(r)
  PROVE  trail \in SUBSET Lines
BY DEF Trails

LEMMA BeginsAre ==
  ASSUME IInv
  PROVE  Begins \subseteq Lines /\ Ends \subseteq Lines
BY TextIs DEF Begins, Ends

\* One lemma per action.
LEMMA PlainKeeps ==
  ASSUME IInv, text' = text, Plain
  PROVE  IInv'
<1>1. PICK l \in Begins, r \in Lines, a \in text.anchors \cup {None}, k \in KeyTexts :
        \E cs \in Comments(l) :
          /\ ReadTo(l, r, cs, {}, l, FALSE) /\ Declare(a)
          /\ builder' = PlaceScalar(Absorb(builder, cs), "plain", l, r, r, k, a, src.at)
  BY DEF Plain
<1>2. PICK cs \in Comments(l) :
          /\ ReadTo(l, r, cs, {}, l, FALSE) /\ Declare(a)
          /\ builder' = PlaceScalar(Absorb(builder, cs), "plain", l, r, r, k, a, src.at)
  BY <1>1
<1>3. l \in Lines /\ cs \in SUBSET Lines /\ {} \in SUBSET Lines /\ ES!Leaf
  BY BeginsAre, CommentsAre DEF Plain, ScalarEvent
<1>4. PICK held \in BOOLEAN : held = FALSE
  OBVIOUS
<1>5. src' \in SrcType(text)
  BY <1>2, <1>3, <1>4, ReadsTo
<1>6. QED
  BY <1>2, <1>3, <1>5, ScalarKeeps

LEMMA QuotedKeeps ==
  ASSUME IInv, text' = text, Quoted
  PROVE  IInv'
<1>1. PICK l \in Begins, r \in Lines, a \in text.anchors \cup {None}, k \in KeyTexts :
        \E cs \in Comments(l), trail \in Trails(r) :
          /\ ReadTo(l, r, cs, trail, l, FALSE) /\ Declare(a)
          /\ builder' = PlaceScalar(Absorb(builder, cs \cup trail), "quoted", l, l, r, k, a, src.at)
  BY DEF Quoted
<1>2. PICK cs \in Comments(l), trail \in Trails(r) :
          /\ ReadTo(l, r, cs, trail, l, FALSE) /\ Declare(a)
          /\ builder' = PlaceScalar(Absorb(builder, cs \cup trail), "quoted", l, l, r, k, a, src.at)
  BY <1>1
<1>3. l \in Lines /\ cs \in SUBSET Lines /\ trail \in SUBSET Lines /\ ES!Leaf
  BY BeginsAre, CommentsAre, TrailsAre DEF Quoted
<1>4. PICK held \in BOOLEAN : held = FALSE
  OBVIOUS
<1>5. src' \in SrcType(text)
  BY <1>2, <1>3, <1>4, ReadsTo
<1> DEFINE both == cs \cup trail
<1>6. both \in SUBSET Lines
  BY <1>3
<1>7. builder' = PlaceScalar(Absorb(builder, both), "quoted", l, l, r, k, a, src.at)
  BY <1>2
<1> HIDE DEF both
<1>8. QED
  BY <1>2, <1>3, <1>5, <1>6, <1>7, ScalarKeeps

LEMMA BlockKeeps ==
  ASSUME IInv, text' = text, Block
  PROVE  IInv'
<1>1. PICK l \in Begins, end \in Lines, a \in text.anchors \cup {None}, k \in KeyTexts :
        \E cs \in Comments(l), trail \in Trails(l) :
          /\ l < end
          /\ Readable(l, l, cs, trail) /\ Declare(a)
          /\ Advance(end, end, cs \cup trail, l .. end - 1, FALSE, NoLine)
          /\ builder' = PlaceScalar(Absorb(builder, cs \cup trail), "block", l, end, end - 1, k, a, src.at)
  BY Zenon DEF Block
<1>2. PICK cs \in Comments(l), trail \in Trails(l) :
          /\ l < end /\ Declare(a)
          /\ Advance(end, end, cs \cup trail, l .. end - 1, FALSE, NoLine)
          /\ builder' = PlaceScalar(Absorb(builder, cs \cup trail), "block", l, end, end - 1, k, a, src.at)
  BY <1>1
<1>3. l \in Lines /\ cs \in SUBSET Lines /\ trail \in SUBSET Lines /\ ES!Leaf
  BY BeginsAre, CommentsAre, TrailsAre DEF Block, ScalarEvent
<1>4. PICK held \in BOOLEAN : held = FALSE
  OBVIOUS
<1> DEFINE both == cs \cup trail
           lines == l .. end - 1
           last == end - 1
<1>5. both \in SUBSET Lines /\ lines \in SUBSET Lines /\ NoLine \in LineOrNone
  BY <1>3, Between DEF LineOrNone
<1>6. last \in lines
  BY <1>2, <1>3 DEF Lines
<1>7. /\ Advance(end, end, both, lines, held, NoLine)
      /\ builder' = PlaceScalar(Absorb(builder, both), "block", l, end, last, k, a, src.at)
  BY <1>2, <1>4
<1> HIDE DEF both, lines, last
<1>8. src' \in SrcType(text)
  BY <1>5, <1>7, Advances
<1>9. last \in Lines
  BY <1>5, <1>6
<1>10. QED
  BY <1>2, <1>3, <1>5, <1>7, <1>8, <1>9, ScalarKeeps

LEMMA EmptyKeeps ==
  ASSUME IInv, text' = text, Empty
  PROVE  IInv'
<1>1. PICK l \in Lines, a \in text.anchors \cup {None}, k \in KeyTexts :
        \E cs \in Comments(l), trail \in Trails(l), mark \in src.at .. l :
          /\ ReadTo(l, l, cs, trail, mark, ~InFlow) /\ Declare(a)
          /\ builder' = PlaceScalar(Absorb(builder, cs \cup trail), "empty", mark, mark, mark, k, a, src.at)
  BY DEF Empty
<1>2. PICK cs \in Comments(l), trail \in Trails(l), mark \in src.at .. l :
          /\ ReadTo(l, l, cs, trail, mark, ~InFlow) /\ Declare(a)
          /\ builder' = PlaceScalar(Absorb(builder, cs \cup trail), "empty", mark, mark, mark, k, a, src.at)
  BY <1>1
<1>3. l \in Lines /\ cs \in SUBSET Lines /\ trail \in SUBSET Lines /\ mark \in Lines /\ ES!Leaf
  BY CommentsAre, TrailsAre, Between, TextIs DEF Empty, ScalarEvent
<1>4. PICK held \in BOOLEAN : held = ~InFlow
  BY DEF InFlow
<1>5. src' \in SrcType(text)
  BY <1>2, <1>3, <1>4, ReadsTo
<1> DEFINE both == cs \cup trail
<1>6. both \in SUBSET Lines
  BY <1>3
<1>7. builder' = PlaceScalar(Absorb(builder, both), "empty", mark, mark, mark, k, a, src.at)
  BY <1>2
<1> HIDE DEF both
<1>8. QED
  BY <1>2, <1>3, <1>5, <1>6, <1>7, ScalarKeeps

\* A builder that has absorbed comments.
LEMMA AbsorbsGood ==
  ASSUME IInv, NEW cs \in SUBSET Lines
  PROVE  LET b == Absorb(builder, cs)
         IN  /\ Good(b, text, nest, anchors)
             /\ InSequence(b) <=> InSequence(builder)
             /\ HasKey(b) <=> HasKey(builder)
             /\ b.stack = <<>> <=> builder.stack = <<>>
<1>1. Good(builder, text, nest, anchors) /\ cs \in SUBSET Line(text)
  BY TextIs DEF IInv
<1>2. QED
  BY <1>1, AbsorbGood

LEMMA AliasKeeps ==
  ASSUME IInv, text' = text, Alias
  PROVE  IInv'
<1>1. PICK l \in Begins, k \in KeyTexts :
        \E cs \in Comments(l) :
          /\ ReadTo(l, l, cs, {}, l, FALSE)
          /\ builder' = PlaceAlias(Absorb(builder, cs), l, k, src.at)
  BY DEF Alias
<1>2. PICK cs \in Comments(l) :
          /\ ReadTo(l, l, cs, {}, l, FALSE)
          /\ builder' = PlaceAlias(Absorb(builder, cs), l, k, src.at)
  BY <1>1
<1>3. l \in Lines /\ cs \in SUBSET Lines /\ {} \in SUBSET Lines
  BY BeginsAre, CommentsAre
<1>4. PICK held \in BOOLEAN : held = FALSE
  OBVIOUS
<1>5. src' \in SrcType(text)
  BY <1>2, <1>3, <1>4, ReadsTo
<1> DEFINE b == Absorb(builder, cs)
<1>6. /\ Good(b, text, nest, anchors)
      /\ InSequence(b) <=> InSequence(builder)
      /\ HasKey(b) <=> HasKey(builder)
      /\ b.stack = <<>> <=> builder.stack = <<>>
  BY <1>3, AbsorbsGood
<1>7. Awaits(nest) /\ nest' = ES!Completed(nest) /\ anchors' = anchors
  BY AwaitsNodeIs DEF ES!Leaf, Alias
<1>8. l \in Line(text) /\ src.at \in Line(text) /\ k \in Key(text)
  BY <1>3, TextIs, KeysAre
<1> HIDE DEF b
<1>9. b.stack # <<>> /\ ~InSequence(b) /\ ~HasKey(b) => k # NoKey
  BY <1>6, KeysAre
<1>10. Good(PlaceAlias(b, l, k, src.at), text, ES!Completed(nest), anchors)
  BY <1>6, <1>7, <1>8, <1>9, AliasGood
<1>11. Good(builder', text, nest', anchors')
  BY <1>2, <1>7, <1>10 DEF b
<1>12. anchors' \subseteq text.anchors
  BY <1>7 DEF IInv
<1>13. QED
  BY <1>5, <1>11, <1>12 DEF IInv

\* The marks of a container are lines.
LEMMA MarksAre ==
  ASSUME IInv, NEW l \in Lines, NEW flow, NEW props, NEW mark \in Marks(l, flow, props)
  PROVE  mark \in Lines
<1>1. src.at .. l \subseteq Lines /\ src.at \in Lines
  BY Between, TextIs
<1>2. Marks(l, flow, props) = src.at .. l \/ Marks(l, flow, props) = {src.at} \/ Marks(l, flow, props) = {l}
  <2>1. CASE ~InFlow /\ "apart" \in text.forms /\ builder.stack # <<>> /\ ~AtKey
    <3>1. CASE HasKey(builder) /\ ~InFlow /\ "apart" \notin text.forms
      BY <2>1, <3>1
    <3>2. CASE ~(HasKey(builder) /\ ~InFlow /\ "apart" \notin text.forms)
      BY <2>1, <3>2 DEF Marks
    <3>3. QED
      BY <3>1, <3>2
  <2>2. CASE ~(~InFlow /\ "apart" \in text.forms /\ builder.stack # <<>> /\ ~AtKey)
    <3>1. CASE HasKey(builder) /\ ~InFlow /\ "apart" \notin text.forms
      BY <2>2, <3>1 DEF Marks
    <3>2. CASE ~(HasKey(builder) /\ ~InFlow /\ "apart" \notin text.forms)
      BY <2>2, <3>2 DEF Marks
    <3>3. QED
      BY <3>1, <3>2
  <2>3. QED
    BY <2>1, <2>2
<1>3. QED
  BY <1>1, <1>2

\* MappingStart and SequenceStart.
LEMMA StartKeeps ==
  ASSUME IInv, text' = text, NEW kind \in {"map", "seq"}, Start(kind)
  PROVE  IInv'
<1> DEFINE A(flow, props, l, a, cs, trail, mark) ==
             /\ flow => "flow" \in text.forms
             /\ src.peeked # NoLine => flow
             /\ a # None => props
             /\ trail # {} => flow \/ (kind = "seq" /\ builder.stack # <<>> /\ ~InSequence(builder))
             /\ ReadTo(l, l, cs, trail, mark, ~flow) /\ Declare(a)
             /\ builder' = StartContainer(Absorb(builder, cs \cup trail), kind, flow, mark,
                                          a, props, src.at)
<1>1. \E flow \in BOOLEAN, props \in BOOLEAN, l \in Begins, a \in text.anchors \cup {None} :
      \E cs \in Comments(l), trail \in Trails(l), mark \in Marks(l, flow, props) :
        A(flow, props, l, a, cs, trail, mark)
  BY Zenon DEF Start
<1> HIDE DEF A
<1>0. PICK flow \in BOOLEAN, props \in BOOLEAN, l \in Begins, a \in text.anchors \cup {None} :
      \E cs \in Comments(l), trail \in Trails(l), mark \in Marks(l, flow, props) :
        A(flow, props, l, a, cs, trail, mark)
  BY <1>1
<1>2. PICK cs \in Comments(l), trail \in Trails(l), mark \in Marks(l, flow, props) :
        A(flow, props, l, a, cs, trail, mark)
  BY <1>0
<1> USE DEF A
<1>3. l \in Lines /\ cs \in SUBSET Lines /\ trail \in SUBSET Lines /\ mark \in Lines
  <2>1. l \in Lines
    BY BeginsAre
  <2>2. QED
    BY <2>1, CommentsAre, TrailsAre, MarksAre
<1>4. PICK held \in BOOLEAN : held = ~flow
  OBVIOUS
<1>5. src' \in SrcType(text)
  BY <1>2, <1>3, <1>4, ReadsTo
<1> DEFINE both == cs \cup trail
           b == Absorb(builder, both)
           c == StartContainer(b, kind, flow, mark, a, props, src.at)
           q == Append(nest, IF kind = "seq" THEN "seq" ELSE "key")
<1>6. both \in SUBSET Lines
  BY <1>3
<1>7. builder' = c
  BY <1>2
<1> HIDE DEF both
<1>8. Good(b, text, nest, anchors)
  BY <1>6, AbsorbsGood
<1> HIDE DEF b
<1>9. Awaits(nest) /\ nest' = q
  <2>1. CASE kind = "map"
    <3>1. ES!MappingStart
      BY <2>1 DEF Start
    <3>2. QED
      BY <2>1, <3>1, AwaitsNodeIs DEF ES!MappingStart
  <2>2. CASE kind = "seq"
    <3>1. ES!SequenceStart
      BY <2>2 DEF Start
    <3>2. QED
      BY <2>2, <3>1, AwaitsNodeIs DEF ES!SequenceStart
  <2>3. QED
    BY <2>1, <2>2
<1>10. anchors' = anchors \cup Named(a) /\ anchors' \subseteq text.anchors
  BY <1>2, DeclaredAre
<1>11. Text(text) /\ mark \in Line(text) /\ src.at \in Line(text)
  BY <1>3, TextIs
<1>12. Good(c, text, q, anchors \cup Named(a))
  BY <1>8, <1>9, <1>11, StartGood
<1> HIDE DEF c, q
<1>13. QED
  BY <1>5, <1>7, <1>9, <1>10, <1>12 DEF IInv

\* MappingEnd and SequenceEnd.
LEMMA EndKeeps ==
  ASSUME IInv, text' = text, NEW kind \in {"map", "seq"}, End(kind)
  PROVE  IInv'
<1>1. PICK l \in Ends, pair \in BOOLEAN :
        \E cs \in Comments(l) :
          /\ IF pair
             THEN Advance(src.at, l, {}, {}, FALSE, NoLine)
             ELSE Advance(l, l, cs, IF InFlow THEN {l} ELSE {}, ~InFlow, NoLine)
          /\ builder' = EndContainer(Absorb(builder, cs), l)
  BY DEF End
<1>2. PICK cs \in Comments(l) :
          /\ IF pair
             THEN Advance(src.at, l, {}, {}, FALSE, NoLine)
             ELSE Advance(l, l, cs, IF InFlow THEN {l} ELSE {}, ~InFlow, NoLine)
          /\ builder' = EndContainer(Absorb(builder, cs), l)
  BY <1>1
<1>3. l \in Lines /\ cs \in SUBSET Lines /\ {} \in SUBSET Lines /\ NoLine \in LineOrNone /\ src.at \in Lines
  BY BeginsAre, CommentsAre, TextIs DEF LineOrNone
<1>4. src' \in SrcType(text)
  <2>1. CASE pair
    <3>1. PICK held \in BOOLEAN : held = FALSE
      OBVIOUS
    <3>2. Advance(src.at, l, {}, {}, held, NoLine)
      BY <1>2, <2>1, <3>1
    <3>3. QED
      BY <1>3, <3>2, Advances
  <2>2. CASE ~pair
    <3> DEFINE lines == IF InFlow THEN {l} ELSE {}
    <3>1. PICK held \in BOOLEAN : held = ~InFlow
      BY DEF InFlow
    <3>2. lines \in SUBSET Lines
      BY <1>3
    <3>3. Advance(l, l, cs, lines, held, NoLine)
      BY <1>2, <2>2, <3>1
    <3> HIDE DEF lines
    <3>4. QED
      BY <1>3, <3>2, <3>3, Advances
  <2>3. QED
    BY <2>1, <2>2
<1> DEFINE b == Absorb(builder, cs)
           c == EndContainer(b, l)
           q == ES!Completed(SubSeq(nest, 1, Len(nest) - 1))
<1>5. builder' = c
  BY <1>2
<1>6. Good(b, text, nest, anchors)
  BY <1>3, AbsorbsGood
<1> HIDE DEF b
<1>7. Awaits(nest) /\ nest[Len(nest)] \in {"seq", "key"} /\ nest' = q
  <2>1. CASE kind = "map"
    <3>1. ES!MappingEnd
      BY <2>1 DEF End
    <3>2. QED
      BY <3>1, AwaitsNodeIs DEF ES!MappingEnd, ES!Outer, ES!Top
  <2>2. CASE kind = "seq"
    <3>1. ES!SequenceEnd
      BY <2>2 DEF End
    <3>2. QED
      BY <3>1, AwaitsNodeIs DEF ES!SequenceEnd, ES!Outer, ES!Top
  <2>3. QED
    BY <2>1, <2>2
<1>8. Len(nest) > 1
  <2>1. Shape(nest) /\ nest # <<>>
    BY <1>6, <1>7 DEF Good, Awaits
  <2>2. Len(nest) \in Nat /\ Len(nest) >= 1 /\ nest[1] = "root"
    BY <1>7, <2>1, ShapeTypes, AwaitsIs
  <2>3. Len(nest) # 1
    BY <1>7, <2>2
  <2>4. \A k \in Nat : k >= 1 /\ k # 1 => k > 1
    OBVIOUS
  <2>5. QED
    BY <2>2, <2>3, <2>4, Zenon
<1>9. anchors' = anchors /\ None \notin anchors
  BY TextIs DEF End
<1>10. Text(text) /\ l \in Line(text)
  BY <1>3, TextIs
<1>11. Good(c, text, q, anchors)
  BY <1>6, <1>7, <1>8, <1>9, <1>10, EndGood
<1> HIDE DEF c, q
<1>12. anchors' \subseteq text.anchors
  BY <1>9 DEF IInv
<1>13. Good(builder', text, nest', anchors')
  BY <1>5, <1>7, <1>9, <1>11
<1>14. QED
  BY <1>4, <1>12, <1>13 DEF IInv

\* Outside documents the builder holds nothing open.
LEMMA BetweenDocuments ==
  ASSUME NEW t, NEW b, NEW names, Good(b, t, <<>>, names)
  PROVE  ~b.hasRoot /\ b.stack = <<>> /\ Len(b.docs) = b.docEnds /\ Len(b.docsMeta) = b.docEnds
<1>1. Sound(b, t, Len(b.meta)) /\ Follows(b, <<>>) /\ Aligned(b, <<>>)
  BY DEF Good
<1>2. <<>> # <<"done">> /\ Len(b.stack) = 0 /\ b.stack \in Seq(FrameType(t, Len(b.meta)))
  BY <1>1, StackLen DEF Follows
<1>3. ~b.hasRoot /\ b.stack = <<>>
  BY <1>1, <1>2 DEF Follows
<1>4. b.docEnds \in Nat
  BY <1>1, DocTypes
<1>5. QED
  BY <1>1, <1>3, <1>4 DEF Aligned

\* A document starts.
Started(b, l) ==
  [b EXCEPT !.hasRoot = FALSE, !.nextMeta = b.docEnds + 1,
            !.lastLine = l, !.before = @ \ (b.before \cap {l}),
            !.inline = IF b.before \cap {l} = {} THEN @ ELSE l]

\* It has no root and no entry yet.
LEMMA StartedGood ==
  ASSUME NEW t, NEW b, NEW names, Good(b, t, <<>>, names), NEW l \in Line(t)
  PROVE  Good(Started(b, l), t, <<"root">>, names)
<1> DEFINE n == Len(b.meta)
           e == b.docEnds + 1
           w == b.before \ (b.before \cap {l})
           i == IF b.before \cap {l} = {} THEN b.inline ELSE l
           c == [b EXCEPT !.hasRoot = FALSE, !.nextMeta = e, !.lastLine = l, !.before = w, !.inline = i]
<1>1. Sound(b, t, n) /\ Aligned(b, <<>>) /\ Resolves(b, names)
  BY DEF Good
<1>2. b.docEnds \in Nat /\ b.before \in SUBSET Line(t) /\ b.inline \in LineOr(t) /\ l \in LineOr(t)
  BY <1>1, DocTypes, FieldTypes, NoneIsNoLine
<1>3. e \in Nat /\ w \in SUBSET Line(t) /\ i \in LineOr(t)
  BY <1>2
<1>4. Started(b, l) = c
  BY DEF Started
<1> HIDE DEF e, w, i
<1>5. c \in BuilderType(t, n)
  BY <1>1, <1>2, <1>3 DEF Sound, BuilderType
<1>6. /\ c.hasRoot = FALSE /\ c.nextMeta = e /\ c.meta = b.meta /\ c.stack = b.stack
      /\ c.docs = b.docs /\ c.docsMeta = b.docsMeta /\ c.docEnds = b.docEnds /\ c.table = b.table
  BY <1>1 DEF Sound, BuilderType
<1> HIDE DEF c
<1>7. Sound(c, t, Len(c.meta))
  BY <1>1, <1>5, <1>6 DEF Sound
<1>8. b.stack = <<>> /\ Len(b.docs) = b.docEnds /\ Len(b.docsMeta) = b.docEnds
  BY BetweenDocuments
<1> DEFINE p == <<"root">>
<1>9. Len(p) = 1 /\ p[1] = "root" /\ p # <<>> /\ p # <<"done">>
      /\ p \in Seq({"root", "done", "seq", "key", "val"})
  OBVIOUS
<1> HIDE DEF p
<1>10. Shape(p)
  BY <1>9 DEF Shape
<1>11. Follows(c, p)
  <2>1. Len(c.stack) = 0
    BY <1>6, <1>8
  <2>2. QED
    BY <1>6, <1>9, <2>1 DEF Follows
<1>12. Aligned(c, p)
  <2>1. \A j \in 1 .. Len(b.docsMeta) :
          b.docsMeta[j].start = j /\ b.docsMeta[j].end = IF j <= b.docEnds THEN j ELSE 0
    BY <1>1 DEF Aligned
  <2>2. QED
    BY <1>2, <1>6, <1>8, <2>1 DEF Aligned, e
<1>13. Resolves(c, names)
  BY <1>1, <1>6 DEF Resolves
<1>14. QED
  BY <1>4, <1>7, <1>10, <1>11, <1>12, <1>13 DEF Good, p

\* A document ends: the last entry of docs_meta is the one of this document.
Ended(b, explicit) ==
  LET n == Len(b.docsMeta)
      own == [start |-> IF n = 0 THEN 0 ELSE b.docsMeta[n].start,
              end |-> b.docEnds + 1, explicit_end |-> explicit]
  IN  [b EXCEPT !.docEnds = @ + 1, !.hasRoot = FALSE,
                !.docsMeta = IF n = 0 THEN <<own>> ELSE [@ EXCEPT ![n] = own]]

\* The entry it writes to is its own, because the root has made one.
LEMMA EndedGood ==
  ASSUME NEW t, NEW b, NEW names, Good(b, t, <<"done">>, names), NEW explicit, explicit \in BOOLEAN
  PROVE  Good(Ended(b, explicit), t, <<>>, names)
<1> DEFINE n == Len(b.docsMeta)
           own == [start |-> IF n = 0 THEN 0 ELSE b.docsMeta[n].start,
                   end |-> b.docEnds + 1, explicit_end |-> explicit]
           e == b.docEnds + 1
           s == [b.docsMeta EXCEPT ![n] = own]
           c == [b EXCEPT !.docEnds = e, !.hasRoot = FALSE, !.docsMeta = s]
<1>1. Sound(b, t, Len(b.meta)) /\ Aligned(b, <<"done">>) /\ Resolves(b, names) /\ Follows(b, <<"done">>)
  BY DEF Good
<1>2. /\ b.docsMeta \in Seq(DocType) /\ b.docEnds \in Nat /\ n \in Nat /\ Len(b.docs) \in Nat
      /\ b.docs # <<>> /\ b.docs \in Seq(1 .. Len(b.meta)) /\ b.hasRoot
  BY <1>1, DocTypes DEF Sound, Follows
<1>3. n = b.docEnds + 1 /\ n \in 1 .. n
  BY <1>1, <1>2 DEF Aligned
<1>4. b.docsMeta[n].start = n
  BY <1>1, <1>3 DEF Aligned
<1>5. own \in DocType /\ own.start = n /\ own.end = n
  BY <1>2, <1>3, <1>4 DEF DocType
<1>6. Ended(b, explicit) = c
  <2>1. n # 0
    BY <1>3
  <2>2. c = [b EXCEPT !.docEnds = b.docEnds + 1, !.hasRoot = FALSE, !.docsMeta = IF n = 0 THEN <<own>> ELSE s]
    BY <2>1
  <2>3. QED
    BY <2>2 DEF Ended
<1>7. s \in Seq(DocType) /\ Len(s) = n /\ s[n] = own /\ \A i \in 1 .. n : i # n => s[i] = b.docsMeta[i]
  <2> HIDE DEF own
  <2>1. QED
    BY <1>2, <1>3, <1>5, ExceptSeq
<1>0. e \in Nat
  BY <1>2
<1> HIDE DEF own, s, e
<1>8. c \in BuilderType(t, Len(b.meta))
  BY <1>0, <1>1, <1>7 DEF Sound, BuilderType
<1>9. /\ c.hasRoot = FALSE /\ c.docsMeta = s /\ c.meta = b.meta /\ c.stack = b.stack
      /\ c.docs = b.docs /\ c.docEnds = e /\ c.table = b.table
  BY <1>1 DEF Sound, BuilderType
<1> HIDE DEF c
<1>10. Sound(c, t, Len(c.meta))
  BY <1>1, <1>8, <1>9 DEF Sound
<1>11. Shape(<<>>)
  BY DEF Shape
<1>12. Follows(c, <<>>)
  <2>1. Len(b.stack) = 0
    BY <1>1 DEF Follows
  <2>2. <<>> # <<"done">> /\ 1 .. 0 = {}
    OBVIOUS
  <2>3. QED
    BY <1>9, <2>1, <2>2 DEF Follows
<1>13. Aligned(c, <<>>)
  <2>1. Len(b.docs) = n
    BY <1>1 DEF Aligned
  <2>2. ASSUME NEW i \in 1 .. n
        PROVE  s[i].start = i /\ s[i].end = IF i <= e THEN i ELSE 0
    <3>1. CASE i = n
      BY <1>3, <1>5, <1>7, <3>1 DEF e
    <3>2. CASE i # n
      <4>1. s[i] = b.docsMeta[i] /\ b.docsMeta[i].start = i
            /\ b.docsMeta[i].end = IF i <= b.docEnds THEN i ELSE 0
        BY <1>1, <1>7, <3>2 DEF Aligned
      <4>2. i <= b.docEnds /\ i <= e
        BY <1>2, <1>3, <3>2 DEF e
      <4>3. QED
        BY <4>1, <4>2
    <3>3. QED
      BY <3>1, <3>2
  <2> HIDE DEF n, e
  <2>3. e = n /\ n \in Nat
    BY <1>2, <1>3 DEF n, e
  <2>4. QED
    BY <1>7, <1>9, <2>1, <2>2, <2>3 DEF Aligned
<1>14. Resolves(c, names)
  BY <1>1, <1>9 DEF Resolves
<1>15. QED
  BY <1>6, <1>10, <1>11, <1>12, <1>13, <1>14 DEF Good

LEMMA DocumentStartKeeps ==
  ASSUME IInv, text' = text, DocumentStart
  PROVE  IInv'
<1> DEFINE A(explicit, l, r, cs, trail) ==
             /\ Readable(l, r, cs, trail)
             /\ l \notin src.content /\ (src.held => l = src.at)
             /\ ~explicit /\ builder.docEnds > 0 => builder.docsMeta[builder.docEnds].explicit_end
             /\ IF trail = {}
                THEN r = l /\ Advance(l, l, cs, {l}, ~explicit, NoLine)
                ELSE /\ ~explicit /\ {"quoted", "flow", "wrapped"} \cap text.forms # {}
                     /\ r = l \/ "wrapped" \in text.forms
                     /\ Advance(l, l, cs \cup trail, l .. r, TRUE, r)
             /\ LET b == Absorb(builder, cs \cup trail)
                    own == b.before \cap {l}
                IN  builder' = [b EXCEPT !.hasRoot = FALSE, !.nextMeta = b.docEnds + 1,
                                         !.lastLine = l, !.before = @ \ own,
                                         !.inline = IF own = {} THEN @ ELSE l]
<1>1. \E explicit \in BOOLEAN, l \in Lines, r \in Lines :
      \E cs \in Comments(l), trail \in Trails(r) : A(explicit, l, r, cs, trail)
  BY Zenon DEF DocumentStart
<1> HIDE DEF A
<1>2. PICK explicit \in BOOLEAN, l \in Lines, r \in Lines :
        \E cs \in Comments(l), trail \in Trails(r) : A(explicit, l, r, cs, trail)
  BY <1>1
<1>3. PICK cs \in Comments(l), trail \in Trails(r) : A(explicit, l, r, cs, trail)
  BY <1>2
<1>4. cs \in SUBSET Lines /\ trail \in SUBSET Lines
  BY CommentsAre, TrailsAre
<1>5. src' \in SrcType(text)
  <2>1. CASE trail = {}
    <3> DEFINE lines == {l}
    <3>1. PICK held \in BOOLEAN : held = ~explicit
      OBVIOUS
    <3>2. Advance(l, l, cs, lines, held, NoLine)
      BY <1>3, <2>1, <3>1 DEF A
    <3>3. lines \in SUBSET Lines /\ NoLine \in LineOrNone
      BY DEF LineOrNone
    <3> HIDE DEF lines
    <3>4. QED
      BY <1>4, <3>2, <3>3, Advances
  <2>2. CASE trail # {}
    <3> DEFINE lines == l .. r
               both == cs \cup trail
    <3>1. PICK held \in BOOLEAN : held = TRUE
      OBVIOUS
    <3>2. Advance(l, l, both, lines, held, r)
      BY <1>3, <2>2, <3>1 DEF A
    <3>3. lines \in SUBSET Lines /\ both \in SUBSET Lines /\ r \in LineOrNone
      BY <1>4, Between DEF LineOrNone
    <3> HIDE DEF lines, both
    <3>4. QED
      BY <3>2, <3>3, Advances
  <2>3. QED
    BY <2>1, <2>2
<1> DEFINE both == cs \cup trail
           b == Absorb(builder, both)
<1>6. builder' = Started(b, l)
  BY <1>3 DEF A, Started
<1>7. both \in SUBSET Lines
  BY <1>4
<1> HIDE DEF both
<1>8. nest = <<>> /\ nest' = <<"root">> /\ anchors' = anchors
  BY DEF DocumentStart, ES!DocumentStart
<1>9. Good(b, text, <<>>, anchors)
  BY <1>7, <1>8, AbsorbsGood
<1> HIDE DEF b
<1>10. Good(builder', text, nest', anchors')
  BY <1>6, <1>8, <1>9, StartedGood, TextIs
<1>11. QED
  BY <1>5, <1>8, <1>10 DEF IInv

LEMMA DocumentEndKeeps ==
  ASSUME IInv, text' = text, DocumentEnd
  PROVE  IInv'
<1> DEFINE A(explicit, l, cs) ==
             /\ Readable(l, l, cs, {})
             /\ Advance(l, l, cs, IF explicit THEN {l} ELSE {}, ~explicit, NoLine)
             /\ LET b == Absorb(builder, cs)
                    n == Len(b.docsMeta)
                    own == [start |-> IF n = 0 THEN 0 ELSE b.docsMeta[n].start,
                            end |-> b.docEnds + 1, explicit_end |-> explicit]
                IN  builder' = [b EXCEPT !.docEnds = @ + 1, !.hasRoot = FALSE,
                                         !.docsMeta = IF n = 0 THEN <<own>> ELSE [@ EXCEPT ![n] = own]]
<1>1. \E explicit \in BOOLEAN, l \in Ends : \E cs \in Comments(l) : A(explicit, l, cs)
  BY Zenon DEF DocumentEnd
<1> HIDE DEF A
<1>2. PICK explicit \in BOOLEAN, l \in Ends : \E cs \in Comments(l) : A(explicit, l, cs)
  BY <1>1
<1>3. PICK cs \in Comments(l) : A(explicit, l, cs)
  BY <1>2
<1>4. l \in Lines /\ cs \in SUBSET Lines /\ NoLine \in LineOrNone
  BY BeginsAre, CommentsAre DEF LineOrNone
<1>5. src' \in SrcType(text)
  <2> DEFINE lines == IF explicit THEN {l} ELSE {}
  <2>1. PICK held \in BOOLEAN : held = ~explicit
    OBVIOUS
  <2>2. Advance(l, l, cs, lines, held, NoLine)
    BY <1>3, <2>1 DEF A
  <2>3. lines \in SUBSET Lines
    BY <1>4
  <2> HIDE DEF lines
  <2>4. QED
    BY <1>4, <2>2, <2>3, Advances
<1> DEFINE b == Absorb(builder, cs)
<1>6. builder' = Ended(b, explicit)
  BY <1>3, Zenon DEF A, Ended
<1>7. nest = <<"done">> /\ nest' = <<>> /\ anchors' = anchors
  BY DEF DocumentEnd, ES!DocumentEnd
<1>8. Good(b, text, <<"done">>, anchors)
  BY <1>4, <1>7, AbsorbsGood
<1> HIDE DEF b
<1>9. Good(builder', text, nest', anchors')
  BY <1>6, <1>7, <1>8, EndedGood
<1>10. QED
  BY <1>5, <1>7, <1>9 DEF IInv

LEMMA StreamStartKeeps ==
  ASSUME IInv, text' = text, StreamStart
  PROVE  IInv'
<1>1. src' = src /\ anchors' = anchors /\ nest' = nest /\ builder' = Absorb(builder, {})
  BY DEF StreamStart, ES!StreamStart
<1>2. Good(Absorb(builder, {}), text, nest, anchors)
  BY AbsorbsGood
<1>3. Good(builder', text, nest', anchors')
  BY <1>1, <1>2
<1>4. QED
  BY <1>1, <1>3 DEF IInv

LEMMA StreamEndKeeps ==
  ASSUME IInv, text' = text, StreamEnd
  PROVE  IInv'
<1>1. PICK l \in Ends : \E cs \in Comments(l) :
        ReadTo(l, l, cs, {}, l, FALSE) /\ builder' = Absorb(builder, cs)
  BY DEF StreamEnd
<1>2. PICK cs \in Comments(l) : ReadTo(l, l, cs, {}, l, FALSE) /\ builder' = Absorb(builder, cs)
  BY <1>1
<1>3. l \in Lines /\ cs \in SUBSET Lines /\ {} \in SUBSET Lines
  BY BeginsAre, CommentsAre
<1>4. PICK held \in BOOLEAN : held = FALSE
  OBVIOUS
<1>5. src' \in SrcType(text)
  BY <1>2, <1>3, <1>4, ReadsTo
<1>6. anchors' = anchors /\ nest' = nest
  BY DEF StreamEnd, ES!StreamEnd
<1>7. Good(Absorb(builder, cs), text, nest, anchors)
  BY <1>3, AbsorbsGood
<1>8. Good(builder', text, nest', anchors')
  BY <1>2, <1>6, <1>7
<1>9. QED
  BY <1>5, <1>6, <1>8 DEF IInv

\* The first state.
LEMMA InitGood == Init => IInv
<1> SUFFICES ASSUME Init PROVE IInv
  OBVIOUS
<1>1. text \in Texts /\ anchors = {} /\ nest = <<>>
  BY DEF Init, ES!ESInit
<1>2. text.lines \in Nat \ {0}
  BY <1>1, BuilderConstants
<1>3. \A n \in Nat \ {0} : 1 \in 1 .. n
  OBVIOUS
<1>4. 1 \in Line(text)
  BY <1>2, <1>3 DEF Line
<1>5. src \in SrcType(text)
  BY <1>4 DEF Init, SrcType, LineOr
<1> DEFINE b == [stack |-> <<>>, meta |-> <<>>, docs |-> <<>>, docsMeta |-> <<>>,
                 nextMeta |-> 0, docEnds |-> 0, hasRoot |-> FALSE, lastLine |-> NoLine,
                 before |-> {}, inline |-> NoLine, blockEnd |-> FALSE, table |-> {}]
<1>6. builder = b
  BY DEF Init
<1>7. b \in BuilderType(text, 0)
  <2>1. /\ <<>> \in Seq(FrameType(text, 0)) /\ <<>> \in Seq(NodeType(text)) /\ <<>> \in Seq(1 .. 0)
        /\ <<>> \in Seq(DocType) /\ NoLine \in LineOr(text) /\ {} \in SUBSET Line(text)
        /\ {} \in SUBSET text.anchors /\ 0 \in Nat
    BY NoneIsNoLine
  <2>2. QED
    BY <2>1 DEF BuilderType
<1>8. /\ b.stack = <<>> /\ b.meta = <<>> /\ b.docs = <<>> /\ b.docsMeta = <<>> /\ b.docEnds = 0
      /\ b.hasRoot = FALSE /\ Len(<<>>) = 0 /\ 1 .. 0 = {} /\ 2 .. 0 = {} /\ <<>> # <<"done">>
  OBVIOUS
<1> HIDE DEF b
<1>9. Sound(b, text, Len(b.meta))
  BY <1>7, <1>8 DEF Sound
<1>10. Shape(<<>>) /\ Follows(b, <<>>) /\ Aligned(b, <<>>) /\ Resolves(b, {})
  BY <1>8 DEF Shape, Follows, Aligned, Resolves
<1>11. Good(builder, text, nest, anchors)
  BY <1>1, <1>6, <1>9, <1>10 DEF Good
<1>12. QED
  BY <1>1, <1>5, <1>11 DEF IInv

\* Every step.
LEMMA NextKeeps == IInv /\ [Next]_vars => IInv'
<1> SUFFICES ASSUME IInv, [Next]_vars PROVE IInv'
  OBVIOUS
<1>1. CASE UNCHANGED vars
  BY <1>1 DEF vars, IInv
<1>2. CASE Next
  <2>0. text' = text
    BY <1>2 DEF Next
  <2>1. CASE StreamStart
    BY <2>0, <2>1, StreamStartKeeps
  <2>2. CASE DocumentStart
    BY <2>0, <2>2, DocumentStartKeeps
  <2>3. CASE DocumentEnd
    BY <2>0, <2>3, DocumentEndKeeps
  <2>4. CASE StreamEnd
    BY <2>0, <2>4, StreamEndKeeps
  <2>5. CASE Plain
    BY <2>0, <2>5, PlainKeeps
  <2>6. CASE Quoted
    BY <2>0, <2>6, QuotedKeeps
  <2>7. CASE Block
    BY <2>0, <2>7, BlockKeeps
  <2>8. CASE Empty
    BY <2>0, <2>8, EmptyKeeps
  <2>9. CASE Alias
    BY <2>0, <2>9, AliasKeeps
  <2>10. CASE MappingStart \/ SequenceStart
    BY <2>0, <2>10, StartKeeps DEF MappingStart, SequenceStart
  <2>11. CASE MappingEnd \/ SequenceEnd
    BY <2>0, <2>11, EndKeeps DEF MappingEnd, SequenceEnd
  <2>12. QED
    BY <1>2, <2>1, <2>2, <2>3, <2>4, <2>5, <2>6, <2>7, <2>8, <2>9, <2>10, <2>11 DEF Next
<1>3. QED
  BY <1>1, <1>2

\* The builder's state is Good at every step, for every text and every course of events the
\* grammar allows.
THEOREM Invariance == Spec => []IInv
BY InitGood, NextKeeps, PTL DEF Spec

(***************************************************************************)
(* The theorems.                                                           *)
(***************************************************************************)

\* The invariant implies the types,
LEMMA IInvTypes == IInv => TypeOK
<1> SUFFICES ASSUME IInv PROVE TypeOK
  OBVIOUS
<1> DEFINE t == text
           n == Len(builder.meta)
<1>1. Sound(builder, t, n)
  BY DEF IInv, Good
<1>2. Lines = Line(t) /\ LineOrNone = LineOr(t)
  BY TextIs
<1>3. src \in [at : Lines, ahead : Lines, comments : SUBSET Lines, content : SUBSET Lines,
               held : BOOLEAN, peeked : LineOrNone]
  BY <1>2 DEF IInv, SrcType
<1>4. /\ anchors \subseteq text.anchors /\ builder.table \subseteq text.anchors
      /\ builder.before \subseteq Lines /\ builder.inline \in LineOrNone
      /\ builder.lastLine \in LineOrNone
      /\ builder.hasRoot \in BOOLEAN /\ builder.blockEnd \in BOOLEAN
  BY <1>1, <1>2, FieldTypes, DocTypes DEF IInv
<1>5. Nodes = 1 .. n /\ builder.docs \in Seq(Nodes)
  <2>1. builder.meta \in Seq(NodeType(t)) /\ builder.docs \in Seq(1 .. n)
    BY <1>1, FieldTypes, DocTypes
  <2>2. DOMAIN builder.meta = 1 .. n
    BY <2>1
  <2>3. Nodes = 1 .. n
    BY <2>2 DEF Nodes
  <2>4. QED
    BY <2>1, <2>3
<1>6. \A k \in Nodes :
        builder.meta[k] \in [first : LineOrNone, last : Lines, before : SUBSET Lines,
                             inline : LineOrNone, blanks : BlankLines, trailing : BlankLines]
  BY <1>1, <1>2, <1>5, FieldTypes DEF NodeType
<1>7. ASSUME NEW i \in DOMAIN builder.stack
      PROVE  LET f == builder.stack[i]
             IN  /\ f.kind \in {"map", "seq"} /\ f.node \in Nodes
                 /\ f.key \in text.keys \cup {NoKey, ComplexKey}
                 /\ \A j \in DOMAIN f.entries : f.entries[j].node \in Nodes
  <2> DEFINE f == builder.stack[i]
  <2>1. f \in FrameType(t, n)
    BY <1>1, StackLen
  <2> HIDE DEF f
  <2>2. /\ f.kind \in {"map", "seq"} /\ f.node \in Nodes
        /\ f.key \in text.keys \cup {NoKey, ComplexKey}
        /\ f.entries \in Seq(EntryType(t, n))
    BY <1>5, <2>1 DEF FrameType, Key
  <2>3. ASSUME NEW j \in DOMAIN f.entries PROVE f.entries[j].node \in Nodes
    <3>1. f.entries[j] \in EntryType(t, n)
      BY <2>2
    <3>2. QED
      BY <1>5, <3>1 DEF EntryType
  <2>4. QED
    BY <2>2, <2>3 DEF f
<1>8. QED
  BY <1>3, <1>4, <1>5, <1>6, <1>7 DEF TypeOK

\* The fields of struct Builder and of the metadata keep their types: a frame, an entry and a
\* document refer to nodes that exist, on every text.
THEOREM TypeCorrect == Spec => []TypeOK
BY Invariance, IInvTypes, PTL

\* the stack's agreement with the events,
LEMMA IInvStack == IInv => StackFollowsEvents
<1> SUFFICES ASSUME IInv PROVE StackFollowsEvents
  OBVIOUS
<1>1. Sound(builder, text, Len(builder.meta)) /\ Follows(builder, nest)
  BY DEF IInv, Good
<1>2. DOMAIN builder.stack = 1 .. Len(builder.stack)
  BY <1>1, StackLen
<1>3. ASSUME NEW i \in DOMAIN builder.stack
      PROVE  nest[i + 1] = CASE builder.stack[i].kind = "seq" -> "seq"
                             [] builder.stack[i].kind = "map" ->
                                  IF builder.stack[i].key = NoKey THEN "key" ELSE "val"
  <2>1. builder.stack[i].kind \in {"map", "seq"}
    <3>1. builder.stack[i] \in FrameType(text, Len(builder.meta))
      BY <1>1, <1>2, StackLen
    <3>2. QED
      BY <3>1 DEF FrameType
  <2>2. nest[i + 1] = IF builder.stack[i].kind = "seq" THEN "seq"
                      ELSE IF builder.stack[i].key = NoKey THEN "key" ELSE "val"
    BY <1>1, <1>2 DEF Follows
  <2>3. QED
    BY <2>1, <2>2
<1>4. QED
  BY <1>1, <1>3 DEF StackFollowsEvents, Follows

\* process_event never pops a frame that is not there, and what it takes for a key, a value,
\* an item or a root is one: the stack of frames is the path of events at every step.
THEOREM StackFollows == Spec => []StackFollowsEvents
BY Invariance, IInvStack, PTL

\* that of the documents with their metadata,
LEMMA IInvDocs == IInv => DocsAligned
<1> SUFFICES ASSUME IInv PROVE DocsAligned
  OBVIOUS
<1>1. /\ Sound(builder, text, Len(builder.meta)) /\ Aligned(builder, nest)
      /\ Good(builder, text, nest, anchors)
  BY DEF IInv, Good
<1>2. DOMAIN builder.docsMeta = 1 .. Len(builder.docsMeta)
  BY <1>1, DocTypes
<1>3. nest = <<>> => builder.docEnds = Len(builder.docs)
  BY <1>1, BetweenDocuments
<1>4. QED
  BY <1>1, <1>2, <1>3 DEF DocsAligned, Aligned

\* Documents and docs_meta stay paired: DocumentEnd writes into the entry of its own document,
\* also when it was the first and when a document is announced but has no root yet.
THEOREM DocumentsAlign == Spec => []DocsAligned
BY Invariance, IInvDocs, PTL

\* and that no alias dangles.
LEMMA IInvAnchors == IInv => AliasesResolve
<1> SUFFICES ASSUME IInv PROVE AliasesResolve
  OBVIOUS
<1>1. DOMAIN builder.stack = 1 .. Len(builder.stack) /\ Resolves(builder, anchors)
  BY StackLen DEF IInv, Good
<1>2. QED
  BY <1>1 DEF Resolves, AliasesResolve

\* A name the parser has accepted for an alias is in the builder's table, or the collection it
\* names is still open: process_event gives every alias of a finished node its target.
THEOREM AliasesAreKnown == Spec => []AliasesResolve
BY Invariance, IInvAnchors, PTL

(***************************************************************************)
(* Where the comments are.                                                 *)
(***************************************************************************)

\* The comment x is at the place of kind k and number i; h is a comment that the operation
\* under way has in hand.
At(b, h, x, k, i) ==
  \/ k = "before" /\ i \in 1 .. Len(b.meta) /\ x \in b.meta[i].before
  \/ k = "inline" /\ i \in 1 .. Len(b.meta) /\ x = b.meta[i].inline /\ x # NoLine
  \/ k = "frame" /\ i \in 1 .. Len(b.stack) /\ x \in b.stack[i].before
  \/ k = "key" /\ i \in 1 .. Len(b.stack) /\ x = b.stack[i].inline /\ x # NoLine
  \/ k = "waiting" /\ i = 0 /\ x \in b.before
  \/ k = "deferred" /\ i = 0 /\ x = b.inline /\ x # NoLine
  \/ k = "hand" /\ i = 0 /\ x = h /\ x # NoLine

\* The node that will take the comments of a frame: the collection that is open above it,
\* or for the frame on top the node v.
Target(b, v, i) == IF i = Len(b.stack) THEN v ELSE b.stack[i + 1].node

\* The comment x is, or will be, above node r.
Over(b, v, x, r) ==
  \/ r \in 1 .. Len(b.meta) /\ x \in b.meta[r].before
  \/ \E i \in 1 .. Len(b.stack) : Target(b, v, i) = r /\ x \in b.stack[i].before

\* No comment is in two places,
Once(b, h) == \A x, k, i, l, j : At(b, h, x, k, i) /\ At(b, h, x, l, j) => k = l /\ i = j

\* each has been read,
Known(b, h, C) == \A x, k, i : At(b, h, x, k, i) => x \in C

\* they are in the order of their nodes, and the waiting ones come last,
Sorted(b, v) ==
  /\ \A x, y, r, s : Over(b, v, x, r) /\ Over(b, v, y, s) /\ r < s => x < y
  /\ \A x, y, r : Over(b, v, x, r) /\ y \in b.before => x < y

\* and a mapping that awaits a key has none.
KeysFirst(b) ==
  \A i \in 1 .. Len(b.stack) :
    b.stack[i].kind = "map" /\ b.stack[i].key = NoKey => b.stack[i].before = {}

Tidy(b, h, v, C) ==
  /\ Once(b, h) /\ Known(b, h, C) /\ Sorted(b, v) /\ KeysFirst(b)
  /\ v \in 1 .. Len(b.meta) + 1

\* Between two events nothing is in hand, the next node is a new one, and a sequence that
\* awaits an item has no comments.
Settled(b, C) ==
  /\ Tidy(b, NoLine, Len(b.meta) + 1, C)
  /\ InSequence(b) => TopOf(b).before = {}

\* A builder whose comments are at places where they were before.
LEMMA TidyFewer ==
  ASSUME NEW b, NEW h, NEW v, NEW C, Tidy(b, h, v, C), NEW c, NEW g, NEW w,
         \A x, k, i : At(c, g, x, k, i) => At(b, h, x, k, i),
         \A x, r : Over(c, w, x, r) => Over(b, v, x, r),
         c.before \subseteq b.before, KeysFirst(c), w \in 1 .. Len(c.meta) + 1
  PROVE  Tidy(c, g, w, C)
<1>1. Once(c, g)
  BY DEF Tidy, Once
<1>2. Known(c, g, C)
  BY DEF Tidy, Known
<1>3. Sorted(c, w)
  BY DEF Tidy, Sorted
<1>4. QED
  BY <1>1, <1>2, <1>3 DEF Tidy

\* What At and Over say of a builder with the same places.
LEMMA SamePlaces ==
  ASSUME NEW b, NEW c, NEW h, NEW v, Len(c.meta) = Len(b.meta), Len(c.stack) = Len(b.stack),
         \A i \in 1 .. Len(b.meta) : c.meta[i].before = b.meta[i].before /\ c.meta[i].inline = b.meta[i].inline,
         \A i \in 1 .. Len(b.stack) :
           c.stack[i].before = b.stack[i].before /\ c.stack[i].inline = b.stack[i].inline
           /\ c.stack[i].node = b.stack[i].node,
         c.before = b.before, c.inline = b.inline
  PROVE  /\ \A x, k, i : At(c, h, x, k, i) <=> At(b, h, x, k, i)
         /\ \A x, r : Over(c, v, x, r) <=> Over(b, v, x, r)
<1>1. \A x, k, i : At(c, h, x, k, i) <=> At(b, h, x, k, i)
  BY DEF At
<1>3. \A i \in 1 .. Len(b.stack) : Target(c, v, i) = Target(b, v, i)
  BY DEF Target
<1>4. \A x, r : Over(c, v, x, r) <=> Over(b, v, x, r)
  BY <1>3 DEF Over
<1>5. QED
  BY <1>1, <1>4

\* A comment that has just been read is in hand.
LEMMA TidyFresh ==
  ASSUME NEW b, NEW v, NEW C, Tidy(b, NoLine, v, C), NEW l, l \notin C
  PROVE  Tidy(b, l, v, C \cup {l})
<1>1. \A x, k, i : At(b, l, x, k, i) =>
        At(b, NoLine, x, k, i) \/ (k = "hand" /\ i = 0 /\ x \in {l})
  BY DEF At
<1>2. \A x, k, i : At(b, l, x, k, i) /\ x \in {l} => k = "hand" /\ i = 0
  BY <1>1 DEF Tidy, Known
<1>3. Once(b, l)
  <2> DEFINE M == {l}
  <2>1. Once(b, NoLine)
    BY DEF Tidy
  <2> HIDE DEF M
  <2>2. /\ \A x, k, i : At(b, l, x, k, i) => At(b, NoLine, x, k, i) \/ (k = "hand" /\ i = 0 /\ x \in M)
        /\ \A x, k, i : At(b, l, x, k, i) /\ x \in M => k = "hand" /\ i = 0
    BY <1>1, <1>2 DEF M
  <2>3. QED
    BY <2>1, <2>2 DEF Once
<1>4. Known(b, l, C \cup {l})
  BY <1>1 DEF Tidy, Known
<1>5. QED
  BY <1>3, <1>4 DEF Tidy

(***************************************************************************)
(* attach_inline and absorb_comments.                                      *)
(***************************************************************************)
\* Everything but the stack and the metadata is the same.
Apart(b, c) ==
  c.before = b.before /\ c.inline = b.inline /\ c.lastLine = b.lastLine /\ c.blockEnd = b.blockEnd

\* What SetInline does.
LEMMA SetInlineIs ==
  ASSUME NEW t, NEW n, NEW b, Sound(b, t, n), NEW k \in 1 .. n, NEW l \in LineOr(t)
  PROVE  LET c == SetInline(b, k, l)
         IN  /\ c.stack = b.stack /\ Len(c.meta) = n /\ Apart(b, c)
             /\ c.meta[k] = [b.meta[k] EXCEPT !.inline = IF b.meta[k].inline = NoLine THEN l
                                                         ELSE b.meta[k].inline]
             /\ \A i \in 1 .. n : i # k => c.meta[i] = b.meta[i]
<1> DEFINE m == [b.meta[k] EXCEPT !.inline = IF b.meta[k].inline = NoLine THEN l ELSE b.meta[k].inline]
           c == SetInline(b, k, l)
<1>1. b.meta[k] \in NodeType(t)
  BY FieldTypes
<1>2. m \in NodeType(t)
  BY <1>1 DEF NodeType
<1>3. c = [b EXCEPT !.meta[k] = m]
  BY DEF SetInline
<1> HIDE DEF m, c
<1>4. /\ Sound(c, t, n) /\ c.stack = b.stack /\ Apart(b, c)
      /\ c.meta[k] = m /\ \A i \in 1 .. n : i # k => c.meta[i] = b.meta[i]
  BY <1>2, <1>3, NewMeta DEF Apart
<1>5. QED
  BY <1>4 DEF Sound, m, c

\* The comment in hand goes to a node, or is dropped when the node has one.
LEMMA SetInlineStack ==
  ASSUME NEW t, NEW n, NEW b, Sound(b, t, n), NEW k \in 1 .. n, NEW l \in LineOr(t)
  PROVE  SetInline(b, k, l).stack = b.stack /\ Len(SetInline(b, k, l).meta) = n
<1> DEFINE c == SetInline(b, k, l)
<1>1. /\ c.stack = b.stack /\ Len(c.meta) = n /\ Apart(b, c)
      /\ c.meta[k] = [b.meta[k] EXCEPT !.inline = IF b.meta[k].inline = NoLine THEN l
                                                         ELSE b.meta[k].inline]
      /\ \A i \in 1 .. n : i # k => c.meta[i] = b.meta[i]
  BY SetInlineIs
<1>2. QED
  BY <1>1

LEMMA SetInlineTidy ==
  ASSUME NEW t, NEW n, NEW b, Sound(b, t, n), NEW k \in 1 .. n, NEW l \in LineOr(t),
         NEW v, NEW C, Tidy(b, l, v, C)
  PROVE  Tidy(SetInline(b, k, l), NoLine, v, C)
<1> DEFINE c == SetInline(b, k, l)
<1>1. /\ c.stack = b.stack /\ Len(c.meta) = n /\ Apart(b, c)
      /\ c.meta[k] = [b.meta[k] EXCEPT !.inline = IF b.meta[k].inline = NoLine THEN l
                                                         ELSE b.meta[k].inline]
      /\ \A i \in 1 .. n : i # k => c.meta[i] = b.meta[i]
  BY SetInlineIs
<1> HIDE DEF c
<1>2. Len(b.meta) = n /\ b.meta[k] \in NodeType(t)
  BY FieldTypes
<1>3. /\ c.meta[k].before = b.meta[k].before
      /\ c.meta[k].inline = b.meta[k].inline \/ c.meta[k].inline = l
  BY <1>1, <1>2 DEF NodeType
<1>4. \A x, j, i : At(c, NoLine, x, j, i) =>
        At(b, l, x, j, i) \/ (j = "inline" /\ i = k /\ At(b, l, x, "hand", 0))
  <2>1. \A i \in 1 .. Len(b.meta) :
          /\ c.meta[i].before = b.meta[i].before
          /\ c.meta[i].inline = b.meta[i].inline \/ (i = k /\ c.meta[i].inline = l)
    BY <1>1, <1>2, <1>3
  <2>2. c.stack = b.stack /\ Len(c.meta) = Len(b.meta) /\ c.before = b.before /\ c.inline = b.inline
    BY <1>1, <1>2 DEF Apart
  <2>3. QED
    BY <2>1, <2>2 DEF At
<1>5. \A x, j, i : At(c, NoLine, x, j, i) => j # "hand"
  BY DEF At
<1>6. Once(c, NoLine)
  BY <1>4, <1>5 DEF Tidy, Once
<1>7. Known(c, NoLine, C)
  BY <1>4 DEF Tidy, Known
<1>8. \A x, r : Over(c, v, x, r) => Over(b, v, x, r)
  BY <1>1, <1>2, <1>3 DEF Over, Target
<1>9. Sorted(c, v)
  BY <1>1, <1>8 DEF Tidy, Sorted, Apart
<1>10. QED
  BY <1>1, <1>2, <1>6, <1>7, <1>9 DEF Tidy, KeysFirst, c

\* The comment in hand goes to the pending key or item on top, or waits.
LEMMA TopInlineTidy ==
  ASSUME NEW t, NEW n, NEW b, Sound(b, t, n), b.stack # <<>>, NEW l \in LineOr(t),
         NEW v, NEW C, Tidy(b, l, v, C)
  PROVE  Tidy(SetTop(b, [TopOf(b) EXCEPT !.inline = l]), NoLine, v, C)
<1> DEFINE f == TopOf(b)
           g == [f EXCEPT !.inline = l]
           c == SetTop(b, g)
           d == Len(b.stack)
<1>1. f \in FrameType(t, n) /\ f = b.stack[d] /\ d \in 1 .. d
  BY TopIs
<1> HIDE DEF f
<1>2. /\ g \in FrameType(t, n) /\ g.inline = l /\ g.before = f.before /\ g.node = f.node
      /\ g.kind = f.kind /\ g.key = f.key
  BY <1>1 DEF FrameType
<1> HIDE DEF g
<1>3. /\ c.meta = b.meta /\ Apart(b, c) /\ Len(c.stack) = d /\ c.stack[d] = g
      /\ \A i \in 1 .. d : i # d => c.stack[i] = b.stack[i]
  BY <1>2, NewTop DEF Apart
<1> HIDE DEF c, d
<1>4. \A x, j, i : At(c, NoLine, x, j, i) =>
        (At(b, l, x, j, i) /\ ~(j = "key" /\ i = d)) \/ (j = "key" /\ i = d /\ At(b, l, x, "hand", 0))
  BY <1>1, <1>2, <1>3 DEF At, Apart, d
<1>5. \A x, j, i : At(c, NoLine, x, j, i) => j # "hand"
  BY DEF At
<1>6. Once(c, NoLine)
  BY <1>4, <1>5 DEF Tidy, Once
<1>7. Known(c, NoLine, C)
  BY <1>4 DEF Tidy, Known
<1>8. \A x, r : Over(c, v, x, r) => Over(b, v, x, r)
  BY <1>1, <1>2, <1>3 DEF Over, Target, d
<1>9. Sorted(c, v)
  BY <1>3, <1>8 DEF Tidy, Sorted, Apart
<1>10. KeysFirst(c)
  BY <1>1, <1>2, <1>3 DEF Tidy, KeysFirst, d
<1>11. QED
  BY <1>3, <1>6, <1>7, <1>9, <1>10 DEF Tidy, c, g, f

LEMMA WaitTidy ==
  ASSUME NEW t, NEW n, NEW b, Sound(b, t, n), NEW l \in LineOr(t), NEW v, NEW C, Tidy(b, l, v, C)
  PROVE  Tidy([b EXCEPT !.inline = l], NoLine, v, C)
<1> DEFINE c == [b EXCEPT !.inline = l]
<1>1. c.meta = b.meta /\ c.stack = b.stack /\ c.before = b.before /\ c.inline = l
  BY DEF Sound, BuilderType
<1> HIDE DEF c
<1>2. \A x, j, i : At(c, NoLine, x, j, i) =>
        (At(b, l, x, j, i) /\ j # "deferred") \/ (j = "deferred" /\ i = 0 /\ At(b, l, x, "hand", 0))
  BY <1>1 DEF At
<1>3. \A x, j, i : At(c, NoLine, x, j, i) => j # "hand"
  BY DEF At
<1>4. Once(c, NoLine)
  BY <1>2, <1>3 DEF Tidy, Once
<1>5. Known(c, NoLine, C)
  BY <1>2 DEF Tidy, Known
<1>6. \A x, r : Over(c, v, x, r) => Over(b, v, x, r)
  BY <1>1 DEF Over, Target
<1>7. Sorted(c, v)
  BY <1>1, <1>6 DEF Tidy, Sorted
<1>8. QED
  BY <1>1, <1>4, <1>5, <1>7 DEF Tidy, KeysFirst, c

\* Only inline comments differ.
InlineOnly(b, c) ==
  /\ Len(c.meta) = Len(b.meta) /\ Len(c.stack) = Len(b.stack)
  /\ \A i \in 1 .. Len(b.meta) :
       c.meta[i].before = b.meta[i].before /\ c.meta[i].blanks = b.meta[i].blanks
       /\ c.meta[i].trailing = b.meta[i].trailing
       /\ c.meta[i].first = b.meta[i].first /\ c.meta[i].last = b.meta[i].last
  /\ \A i \in 1 .. Len(b.stack) :
       /\ c.stack[i].before = b.stack[i].before /\ c.stack[i].node = b.stack[i].node
       /\ c.stack[i].kind = b.stack[i].kind /\ c.stack[i].key = b.stack[i].key
       /\ c.stack[i].blanks = b.stack[i].blanks /\ c.stack[i].flow = b.stack[i].flow
       /\ c.stack[i].entries = b.stack[i].entries /\ c.stack[i].from = b.stack[i].from
  /\ c.before = b.before /\ c.lastLine = b.lastLine /\ c.blockEnd = b.blockEnd

\* attach_inline finds a place for the comment in hand and changes nothing else.
LEMMA AttachInlineTidy ==
  ASSUME NEW t, NEW n, NEW b, Sound(b, t, n), NEW l \in LineOr(t), NEW v, NEW C, Tidy(b, l, v, C)
  PROVE  LET c == AttachInline(b, l)
         IN  Tidy(c, NoLine, v, C) /\ InlineOnly(b, c)
<1>1. CASE HasKey(b)
  <2> DEFINE f == TopOf(b)
             g == [f EXCEPT !.inline = l]
             c == SetTop(b, g)
             d == Len(b.stack)
  <2>1. b.stack # <<>> /\ f \in FrameType(t, n) /\ f = b.stack[d] /\ d \in 1 .. d
    BY <1>1, TopIs DEF HasKey
  <2>2. AttachInline(b, l) = c
    <3>1. AttachInline(b, l) = [b EXCEPT !.stack[Len(b.stack)].inline = l]
      BY <1>1, <2>1 DEF AttachInline
    <3>2. QED
      BY <3>1 DEF SetTop, TopOf
  <2>3. Tidy(c, NoLine, v, C)
    BY <2>1, TopInlineTidy
  <2> HIDE DEF f
  <2>4. /\ g \in FrameType(t, n) /\ g.before = f.before /\ g.node = f.node
        /\ g.kind = f.kind /\ g.key = f.key /\ g.blanks = f.blanks /\ g.flow = f.flow
        /\ g.entries = f.entries /\ g.from = f.from
    BY <2>1 DEF FrameType
  <2> HIDE DEF g
  <2>5. /\ c.meta = b.meta /\ Apart(b, c) /\ Len(c.stack) = d /\ c.stack[d] = g
        /\ \A i \in 1 .. d : i # d => c.stack[i] = b.stack[i]
    BY <2>1, <2>4, NewTop DEF Apart
  <2> HIDE DEF c
  <2>6. InlineOnly(b, c)
    BY <2>1, <2>4, <2>5 DEF InlineOnly, Apart
  <2>7. QED
    BY <2>2, <2>3, <2>6
<1>2. ASSUME NEW k \in 1 .. n, AttachInline(b, l) = SetInline(b, k, l)
      PROVE  Tidy(AttachInline(b, l), NoLine, v, C) /\ InlineOnly(b, AttachInline(b, l))
  <2> DEFINE c == SetInline(b, k, l)
  <2>1. Tidy(c, NoLine, v, C)
    BY SetInlineTidy
  <2>2. /\ c.stack = b.stack /\ Len(c.meta) = n /\ Apart(b, c)
        /\ c.meta[k] = [b.meta[k] EXCEPT !.inline = IF b.meta[k].inline = NoLine THEN l
                                                           ELSE b.meta[k].inline]
        /\ \A i \in 1 .. n : i # k => c.meta[i] = b.meta[i]
    BY SetInlineIs
  <2>3. Len(b.meta) = n /\ b.meta[k] \in NodeType(t)
    BY FieldTypes
  <2> HIDE DEF c
  <2>4. /\ c.meta[k].before = b.meta[k].before /\ c.meta[k].blanks = b.meta[k].blanks
        /\ c.meta[k].trailing = b.meta[k].trailing
        /\ c.meta[k].first = b.meta[k].first /\ c.meta[k].last = b.meta[k].last
    BY <2>2, <2>3 DEF NodeType
  <2>5. \A i \in 1 .. n :
          c.meta[i].before = b.meta[i].before /\ c.meta[i].blanks = b.meta[i].blanks
          /\ c.meta[i].trailing = b.meta[i].trailing
          /\ c.meta[i].first = b.meta[i].first /\ c.meta[i].last = b.meta[i].last
    BY <2>2, <2>4
  <2>6. InlineOnly(b, c)
    BY <2>2, <2>3, <2>5 DEF InlineOnly, Apart
  <2>7. QED
    BY <1>2, <2>1, <2>6 DEF c
<1>3. CASE b.stack # <<>> /\ ~HasKey(b) /\ TopOf(b).entries # <<>>
  <2> DEFINE es == TopOf(b).entries
             k == es[Len(es)].node
  <2>1. es \in Seq(EntryType(t, n))
    BY <1>3, TopIs DEF FrameType
  <2>2. k \in 1 .. n
    <3>1. Len(es) \in 1 .. Len(es)
      BY <1>3, <2>1
    <3>2. es[Len(es)] \in EntryType(t, n)
      BY <2>1, <3>1
    <3>3. QED
      BY <3>2 DEF EntryType
  <2>3. AttachInline(b, l) = SetInline(b, k, l)
    BY <1>3 DEF AttachInline
  <2> HIDE DEF es, k
  <2>4. QED
    BY <1>2, <2>2, <2>3
<1>4. CASE b.stack = <<>> /\ b.hasRoot
  <2>1. b.docs[Len(b.docs)] \in 1 .. n
    <3>1. b.docs \in Seq(1 .. n) /\ b.docs # <<>>
      BY <1>4 DEF Sound, BuilderType
    <3>2. Len(b.docs) \in 1 .. Len(b.docs)
      BY <3>1
    <3>3. QED
      BY <3>1, <3>2, ElementOfSeq
  <2>2. AttachInline(b, l) = SetInline(b, b.docs[Len(b.docs)], l)
    BY <1>4 DEF AttachInline, HasKey
  <2>3. QED
    BY <1>2, <2>1, <2>2
<1>5. CASE ~HasKey(b) /\ ~(b.stack # <<>> /\ ~HasKey(b) /\ TopOf(b).entries # <<>>)
           /\ ~(b.stack = <<>> /\ b.hasRoot)
  <2> DEFINE c == [b EXCEPT !.inline = l]
  <2>1. AttachInline(b, l) = c
    BY <1>5 DEF AttachInline
  <2>2. Tidy(c, NoLine, v, C)
    BY WaitTidy
  <2>3. /\ c.meta = b.meta /\ c.stack = b.stack /\ c.before = b.before
        /\ c.lastLine = b.lastLine /\ c.blockEnd = b.blockEnd
    BY DEF Sound, BuilderType
  <2> HIDE DEF c
  <2>4. InlineOnly(b, c)
    BY <2>3 DEF InlineOnly
  <2>5. QED
    BY <2>1, <2>2, <2>4
<1>6. QED
  BY <1>1, <1>3, <1>4, <1>5

\* The comments that are not inline wait for the next node.
LEMMA ArriveTidy ==
  ASSUME NEW t, NEW n, NEW b, Sound(b, t, n), NEW v, NEW D, Tidy(b, NoLine, v, D), NEW w,
         \A x \in w : x \notin D, \A x, r : Over(b, v, x, r) => \A y \in w : x < y
  PROVE  LET c == [b EXCEPT !.before = b.before \cup w, !.blockEnd = FALSE]
         IN  Tidy(c, NoLine, v, D \cup w)
<1> DEFINE u == b.before \cup w
           c == [b EXCEPT !.before = u, !.blockEnd = FALSE]
<1>1. c.meta = b.meta /\ c.stack = b.stack /\ c.before = u /\ c.inline = b.inline
  BY DEF Sound, BuilderType
<1> HIDE DEF c
<1>2. \A x, j, i : At(c, NoLine, x, j, i) =>
        At(b, NoLine, x, j, i) \/ (j = "waiting" /\ i = 0 /\ x \in w)
  BY <1>1 DEF At
<1>3. Once(c, NoLine)
  BY <1>2 DEF Tidy, Once, Known
<1>4. Known(c, NoLine, D \cup w)
  BY <1>2 DEF Tidy, Known
<1>5. \A x, r : Over(c, v, x, r) => Over(b, v, x, r)
  BY <1>1 DEF Over, Target
<1>6. Sorted(c, v)
  BY <1>1, <1>5 DEF Tidy, Sorted
<1>7. QED
  BY <1>1, <1>3, <1>4, <1>6 DEF Tidy, KeysFirst, c

\* absorb_comments: comments that lie below all those read before.
LEMMA AbsorbSettled ==
  ASSUME NEW t, NEW n, NEW b, Sound(b, t, n), NEW C, Settled(b, C), NEW cs \in SUBSET Line(t),
         \A x \in C, y \in cs : x < y, \A x \in C : x \in Int
  PROVE  Settled(Absorb(b, cs), C \cup cs)
<1> DEFINE own == {c \in cs : ~b.blockEnd /\ c = b.lastLine}
           w == cs \ own
           d == IF own = {} THEN b ELSE AttachInline(b, b.lastLine)
           c == [d EXCEPT !.before = d.before \cup w, !.blockEnd = FALSE]
           v == Len(b.meta) + 1
           D == C \cup own
<1>1. Absorb(b, cs) = c
  BY DEF Absorb
<1>2. own \subseteq cs /\ own \subseteq {b.lastLine} /\ (\A x \in cs : x \notin C) /\ b.lastLine \in LineOr(t)
  <2>1. \A x \in cs : x \notin C
    <3>1. ASSUME NEW x \in cs, x \in C PROVE FALSE
      <4>1. x < x /\ x \in Int
        BY <3>1
      <4>2. QED
        BY <4>1
    <3>2. QED
      BY <3>1
  <2>2. QED
    BY <2>1, FieldTypes
<1>3. Tidy(d, NoLine, v, D) /\ InlineOnly(b, d) /\ Sound(d, t, n) /\ Alike(b, d)
  <2>1. CASE own = {}
    BY <2>1, AlikeSame DEF Settled, InlineOnly
  <2>2. CASE own # {}
    <3>1. b.lastLine \in cs /\ D = C \cup {b.lastLine} /\ d = AttachInline(b, b.lastLine)
      BY <1>2, <2>2
    <3> HIDE DEF d, D, own, v
    <3>2. Tidy(b, b.lastLine, v, D)
      BY <1>2, <3>1, TidyFresh DEF Settled, v
    <3>3. QED
      BY <1>2, <3>1, <3>2, AttachInlineTidy, AttachInlineKeeps
  <2>3. QED
    BY <2>1, <2>2
<1> HIDE DEF d
<1>4. \A x, r : Over(d, v, x, r) => Over(b, v, x, r)
  <2>1. /\ Len(d.meta) = Len(b.meta) /\ Len(d.stack) = Len(b.stack)
        /\ \A i \in 1 .. Len(b.meta) : d.meta[i].before = b.meta[i].before
        /\ \A i \in 1 .. Len(b.stack) : /\ d.stack[i].before = b.stack[i].before
                                       /\ d.stack[i].node = b.stack[i].node
    BY <1>3 DEF InlineOnly
  <2>2. Len(b.stack) \in Nat
    BY StackLen
  <2> HIDE DEF v
  <2>3. \A i \in 1 .. Len(b.stack) : Target(d, v, i) = Target(b, v, i)
    BY <2>1, <2>2 DEF Target
  <2>4. QED
    BY <2>1, <2>3 DEF Over
<1>5. \A x, r : Over(b, v, x, r) => \A y \in w : x < y
  <2>1. \A x, r : Over(b, v, x, r) => x \in C
    BY DEF Over, At, Settled, Tidy, Known
  <2>2. QED
    BY <2>1
<1>6. \A x \in w : x \notin D
  BY <1>2
<1> HIDE DEF D, w, own
<1>7. Tidy(c, NoLine, v, D \cup w)
  BY <1>3, <1>4, <1>5, <1>6, ArriveTidy
<1>8. D \cup w = C \cup cs
  BY <1>2 DEF D, w
<1>9. c.meta = d.meta /\ c.stack = d.stack
  BY <1>3 DEF Sound, BuilderType
<1> HIDE DEF c
<1>10. InSequence(c) => TopOf(c).before = {}
  <2>1. ASSUME InSequence(c) PROVE TopOf(c).before = {}
    <3>1. InSequence(d) /\ TopOf(c) = TopOf(d)
      BY <1>9, <2>1 DEF InSequence, TopOf
    <3>2. InSequence(b)
      BY <1>3, <3>1, AlikeContext
    <3>3. b.stack # <<>>
      BY <3>2 DEF InSequence
    <3>4. Len(b.stack) \in 1 .. Len(b.stack)
      BY <3>3, TopIs
    <3>5. TopOf(d).before = TopOf(b).before
      BY <1>3, <3>4 DEF InlineOnly, TopOf
    <3>6. QED
      BY <3>1, <3>2, <3>5 DEF Settled
  <2>2. QED
    BY <2>1
<1>11. v = Len(c.meta) + 1
  BY <1>3, <1>9 DEF InlineOnly, v
<1>12. QED
  BY <1>1, <1>7, <1>8, <1>10, <1>11 DEF Settled

(***************************************************************************)
(* push_node moves what the frame on top holds to the node.                *)
(***************************************************************************)
\* The frame on top awaits a key.
AwaitsKey(b) == b.stack # <<>> /\ TopOf(b).kind = "map" /\ TopOf(b).key = NoKey

\* What push_node does to the nodes and frames of b.
Pushed(b, c, k, n) ==
  /\ Apart(b, c) /\ Len(c.meta) = n /\ Len(c.stack) = Len(b.stack)
  /\ \A i \in 1 .. n : i # k => c.meta[i] = b.meta[i]
  /\ \A i \in 1 .. Len(b.stack) : i # Len(b.stack) => c.stack[i] = b.stack[i]
  /\ b.stack = <<>> \/ AwaitsKey(b) => c.meta[k] = b.meta[k]
  /\ AwaitsKey(b) => TopOf(c) = [TopOf(b) EXCEPT !.key = ComplexKey, !.from = b.meta[k].first]
  /\ b.stack # <<>> /\ ~AwaitsKey(b) =>
       /\ c.meta[k] = Attached(b.meta[k], TopOf(b))
       /\ TopOf(c) = Emptied(TopOf(b), Insert(TopOf(b).entries, TopOf(b).key, k))

LEMMA PushNodeIs ==
  ASSUME NEW t, NEW n, NEW b, Sound(b, t, n), NEW k \in 1 .. n
  PROVE  Pushed(b, PushNode(b, k), k, n)
<1>0. Len(b.meta) = n
  BY FieldTypes
<1>1. CASE b.stack = <<>>
  <2> DEFINE c == [b EXCEPT !.docs = Append(@, k),
                 !.docsMeta = Append(@, [start |-> b.nextMeta, end |-> 0, explicit_end |-> FALSE]),
                 !.nextMeta = 0, !.hasRoot = TRUE]
  <2>1. PushNode(b, k) = c
    BY <1>1 DEF PushNode
  <2>2. Apart(b, c) /\ c.meta = b.meta /\ c.stack = b.stack
    BY DEF Sound, BuilderType, Apart
  <2> HIDE DEF c
  <2>3. QED
    BY <1>0, <1>1, <2>1, <2>2 DEF AwaitsKey, Pushed
<1>2. CASE AwaitsKey(b)
  <2> DEFINE f == TopOf(b)
             g == [f EXCEPT !.key = ComplexKey, !.from = b.meta[k].first]
             c == SetTop(b, g)
  <2>0. b.stack # <<>>
    BY <1>2 DEF AwaitsKey
  <2>1. PushNode(b, k) = c
    BY <1>2 DEF PushNode, AwaitsKey
  <2>2. f \in FrameType(t, n) /\ b.meta[k].first \in LineOr(t) /\ ComplexKey \in Key(t)
    <3>1. f \in FrameType(t, n) /\ b.meta[k] \in NodeType(t) /\ ComplexKey \in Key(t)
      BY <2>0, TopIs, FieldTypes, NoneIsNoLine
    <3>2. QED
      BY <3>1 DEF NodeType
  <2> HIDE DEF f
  <2>3. g \in FrameType(t, n)
    BY <2>2 DEF FrameType
  <2> HIDE DEF g
  <2>4. /\ c.meta = b.meta /\ Apart(b, c) /\ Len(c.stack) = Len(b.stack) /\ TopOf(c) = g
        /\ \A i \in 1 .. Len(b.stack) : i # Len(b.stack) => c.stack[i] = b.stack[i]
    BY <2>0, <2>3, NewTop DEF Apart
  <2> HIDE DEF c
  <2>5. QED
    BY <1>0, <1>2, <2>0, <2>1, <2>4 DEF f, g, Pushed
<1>3. CASE b.stack # <<>> /\ ~AwaitsKey(b)
  <2> DEFINE f == TopOf(b)
             s == Insert(f.entries, f.key, k)
             g == Emptied(f, s)
             d == SetTop(b, g)
             m == Attached(d.meta[k], f)
             c == [d EXCEPT !.meta[k] = m]
  <2>1. f \in FrameType(t, n)
    BY <1>3, TopIs
  <2>2. f.entries \in Seq(EntryType(t, n)) /\ f.key \in Key(t)
    BY <2>1 DEF FrameType
  <2>3. [[f EXCEPT !.key = NoKey, !.before = {}, !.inline = NoLine, !.blanks = 0]
           EXCEPT !.entries = Insert(@, f.key, k)] = g
    BY <2>1 DEF FrameType, Emptied
  <2>4. PushNode(b, k) = c
    BY <1>3, <2>3 DEF PushNode, AwaitsKey
  <2>5. s \in Seq(EntryType(t, n))
    BY <2>2, InsertType
  <2> HIDE DEF f, s
  <2>6. g \in FrameType(t, n)
    BY <2>1, <2>5, EmptiedType
  <2> HIDE DEF g
  <2>7. /\ Sound(d, t, n) /\ Apart(b, d) /\ d.meta = b.meta
        /\ Len(d.stack) = Len(b.stack) /\ d.stack[Len(b.stack)] = g
        /\ \A i \in 1 .. Len(b.stack) : i # Len(b.stack) => d.stack[i] = b.stack[i]
    BY <1>3, <2>6, NewTop DEF Apart
  <2> HIDE DEF d
  <2>8. m \in NodeType(t) /\ m = Attached(b.meta[k], f)
    BY <2>1, <2>7, FieldTypes, AttachedType
  <2> HIDE DEF m
  <2>9. /\ Sound(c, t, n) /\ c.stack = d.stack /\ Rest(d, c)
        /\ c.lastLine = d.lastLine /\ c.before = d.before
        /\ c.inline = d.inline /\ c.blockEnd = d.blockEnd /\ c.table = d.table
        /\ c.meta[k] = m /\ \A i \in 1 .. n : i # k => c.meta[i] = d.meta[i]
    BY <2>7, <2>8, NewMeta
  <2>10. Len(c.meta) = n
    BY <2>9 DEF Sound
  <2> HIDE DEF c
  <2>11. /\ Apart(b, c) /\ Len(c.stack) = Len(b.stack) /\ TopOf(c) = g
         /\ \A i \in 1 .. Len(b.stack) : i # Len(b.stack) => c.stack[i] = b.stack[i]
         /\ \A i \in 1 .. n : i # k => c.meta[i] = b.meta[i]
    BY <2>7, <2>9 DEF TopOf, Apart
  <2>12. QED
    BY <1>3, <2>4, <2>8, <2>9, <2>10, <2>11 DEF f, g, s, Pushed
<1>4. QED
  BY <1>1, <1>2, <1>3

\* The parts of an emptied frame and of a node with its comments.
LEMMA EmptiedIs ==
  ASSUME NEW t, NEW n, NEW f \in FrameType(t, n), NEW s
  PROVE  LET g == Emptied(f, s)
         IN  /\ g.before = {} /\ g.inline = NoLine /\ g.blanks = 0 /\ g.key = NoKey
             /\ g.kind = f.kind /\ g.node = f.node /\ g.flow = f.flow /\ g.from = f.from
             /\ g.anchor = f.anchor /\ g.entries = s
<1> DEFINE g1 == [f EXCEPT !.key = NoKey, !.before = {}, !.inline = NoLine, !.blanks = 0]
<1>1. /\ g1.before = {} /\ g1.inline = NoLine /\ g1.blanks = 0 /\ g1.key = NoKey
      /\ g1.kind = f.kind /\ g1.node = f.node /\ g1.flow = f.flow /\ g1.from = f.from
      /\ g1.anchor = f.anchor
      /\ DOMAIN g1 = DOMAIN f /\ "entries" \in DOMAIN f
  BY DEF FrameType
<1> HIDE DEF g1
<1>2. Emptied(f, s) = [g1 EXCEPT !.entries = s]
  BY DEF Emptied, g1
<1>3. QED
  BY <1>1, <1>2

LEMMA AttachedIs ==
  ASSUME NEW t, NEW n, NEW m \in NodeType(t), NEW f
  PROVE  LET c == Attached(m, f)
         IN  /\ c.before = (IF f.before # {} THEN f.before ELSE m.before)
             /\ c.inline = (IF f.inline # NoLine THEN f.inline ELSE m.inline)
             /\ c.blanks = (IF f.blanks > 0 THEN f.blanks ELSE m.blanks)
             /\ c.first = m.first /\ c.last = m.last /\ c.trailing = m.trailing
BY DEF Attached, NodeType

\* The node takes what the frame on top holds; the next node is a new one.
LEMMA PushNodeTidy ==
  ASSUME NEW t, NEW n, NEW b, Sound(b, t, n), NEW k \in 1 .. n, NEW h, NEW C, Tidy(b, h, k, C)
  PROVE  LET c == PushNode(b, k)
         IN  Tidy(c, h, Len(c.meta) + 1, C) /\ (InSequence(c) => TopOf(c).before = {})
<1> DEFINE c == PushNode(b, k)
           d == Len(b.stack)
           v == Len(c.meta) + 1
<1>1. /\ Apart(b, c) /\ Len(c.meta) = n /\ Len(c.stack) = Len(b.stack)
      /\ \A i \in 1 .. n : i # k => c.meta[i] = b.meta[i]
      /\ \A i \in 1 .. Len(b.stack) : i # Len(b.stack) => c.stack[i] = b.stack[i]
      /\ b.stack = <<>> \/ AwaitsKey(b) => c.meta[k] = b.meta[k]
      /\ AwaitsKey(b) => TopOf(c) = [TopOf(b) EXCEPT !.key = ComplexKey, !.from = b.meta[k].first]
      /\ b.stack # <<>> /\ ~AwaitsKey(b) =>
           /\ c.meta[k] = Attached(b.meta[k], TopOf(b))
           /\ TopOf(c) = Emptied(TopOf(b), Insert(TopOf(b).entries, TopOf(b).key, k))
  <2>1. Pushed(b, c, k, n)
    BY PushNodeIs
  <2> HIDE DEF c, d, v
  <2>2. QED
    BY <2>1 DEF Pushed
<1> HIDE DEF c
<1>2. Len(c.meta) = Len(b.meta) /\ Len(b.meta) = n /\ n \in Nat /\ d \in Nat /\ k \in 1 .. Len(b.meta)
  <2>1. Len(b.meta) = n /\ n \in Nat /\ d \in Nat
    BY FieldTypes, StackLen
  <2>2. QED
    BY <1>1, <2>1
<1>3. /\ c.before = b.before /\ c.inline = b.inline /\ Len(c.stack) = Len(b.stack)
      /\ \A i \in 1 .. Len(b.meta) : i # k => c.meta[i] = b.meta[i]
      /\ TopOf(c) = c.stack[d] /\ TopOf(b) = b.stack[d]
  BY <1>1, <1>2 DEF Apart, TopOf
<1>4. v \in 1 .. Len(c.meta) + 1
  BY <1>2
<1>5. CASE b.stack = <<>>
  <2>1. d = 0 /\ c.stack = <<>>
    <3>1. d = 0
      BY <1>5
    <3>2. Sound(c, t, n)
      BY PushNodeKeeps DEF c
    <3>3. c.stack \in Seq(FrameType(t, n)) /\ Len(c.stack) = 0
      BY <1>1, <3>1, <3>2, StackLen
    <3>4. QED
      BY <3>1, <3>3
  <2>2. \A i \in 1 .. Len(b.meta) : c.meta[i] = b.meta[i]
    BY <1>1, <1>2, <1>5
  <2>3. \A x, j, i : At(c, h, x, j, i) => At(b, h, x, j, i)
    BY <1>2, <1>3, <2>1, <2>2 DEF At
  <2>4. \A x, r : Over(c, v, x, r) => Over(b, k, x, r)
    BY <1>2, <1>3, <2>1, <2>2 DEF Over
  <2>5. KeysFirst(c) /\ ~InSequence(c)
    BY <1>3, <2>1 DEF KeysFirst, InSequence
  <2> HIDE DEF v
  <2>6. Tidy(c, h, v, C)
    BY <1>3, <1>4, <2>3, <2>4, <2>5, TidyFewer
  <2>7. QED
    BY <2>5, <2>6 DEF c, v
<1>6. CASE AwaitsKey(b)
  <2>0. b.stack # <<>>
    BY <1>6 DEF AwaitsKey
  <2>1. d \in 1 .. d /\ TopOf(b) \in FrameType(t, n)
    BY <2>0, TopIs
  <2>2. /\ TopOf(c).before = TopOf(b).before /\ TopOf(c).inline = TopOf(b).inline
        /\ TopOf(c).kind = "map" /\ TopOf(c).key = ComplexKey
    BY <1>1, <1>6, <2>1 DEF FrameType, AwaitsKey
  <2>3. TopOf(b).before = {}
    BY <1>6, <2>1 DEF Tidy, KeysFirst, AwaitsKey, TopOf
  <2>4. /\ \A i \in 1 .. Len(b.meta) : c.meta[i] = b.meta[i]
        /\ \A i \in 1 .. Len(b.stack) :
             c.stack[i].before = b.stack[i].before /\ c.stack[i].inline = b.stack[i].inline
    BY <1>1, <1>2, <1>3, <1>6, <2>2
  <2>5. \A x, j, i : At(c, h, x, j, i) => At(b, h, x, j, i)
    BY <1>2, <1>3, <2>4 DEF At
  <2>6. \A i \in 1 .. d : i # d => Target(c, v, i) = Target(b, k, i)
    <3>1. ASSUME NEW i \in 1 .. d, i # d PROVE c.stack[i + 1].node = b.stack[i + 1].node
      <4>1. i + 1 \in 1 .. d
        BY <1>2, <3>1
      <4>2. CASE i + 1 = d
        <5>1. TopOf(c).node = TopOf(b).node
          BY <1>1, <1>6, <2>1 DEF FrameType
        <5>2. QED
          BY <1>3, <4>2, <5>1
      <4>3. CASE i + 1 # d
        BY <1>1, <4>1, <4>3
      <4>4. QED
        BY <4>2, <4>3
    <3> HIDE DEF v
    <3>2. QED
      BY <1>3, <3>1 DEF Target
  <2>7. \A x, r : Over(c, v, x, r) => Over(b, k, x, r)
    <3>1. c.stack[d].before = {}
      BY <1>3, <2>2, <2>3
    <3> HIDE DEF v
    <3>2. QED
      BY <1>2, <1>3, <2>4, <2>6, <3>1 DEF Over
  <2>8. KeysFirst(c) /\ ~InSequence(c)
    <3>1. ComplexKey # NoKey
      BY BuilderConstants DEF NoKey
    <3>2. KeysFirst(c)
      BY <1>1, <1>3, <2>2, <3>1 DEF KeysFirst, Tidy
    <3>3. QED
      BY <2>2, <3>2 DEF InSequence
  <2> HIDE DEF v
  <2>9. Tidy(c, h, v, C)
    BY <1>3, <1>4, <2>5, <2>7, <2>8, TidyFewer
  <2>10. QED
    BY <2>8, <2>9 DEF c, v
<1>7. CASE b.stack # <<>> /\ ~AwaitsKey(b)
  <2> DEFINE f == TopOf(b)
             m == b.meta[k]
  <2>1. d \in 1 .. d /\ f \in FrameType(t, n) /\ m \in NodeType(t) /\ f = b.stack[d]
    BY <1>7, TopIs, FieldTypes
  <2> HIDE DEF f, m
  <2>2. /\ c.stack[d].before = {} /\ c.stack[d].inline = NoLine
        /\ c.stack[d].kind = f.kind /\ c.stack[d].node = f.node
    <3>1. c.stack[d] = Emptied(f, Insert(f.entries, f.key, k))
      BY <1>1, <1>3, <1>7 DEF f
    <3>2. QED
      BY <2>1, <3>1, EmptiedIs
  <2>3. /\ c.meta[k].before = (IF f.before # {} THEN f.before ELSE m.before)
        /\ c.meta[k].inline = (IF f.inline # NoLine THEN f.inline ELSE m.inline)
    <3>1. c.meta[k] = Attached(m, f)
      BY <1>1, <1>7 DEF f, m
    <3>2. QED
      BY <2>1, <3>1, AttachedIs
  <2>4. \A x, j, i : At(c, h, x, j, i) =>
          \/ At(b, h, x, j, i) /\ ~(j = "frame" /\ i = d) /\ ~(j = "key" /\ i = d)
          \/ j = "before" /\ i = k /\ At(b, h, x, "frame", d)
          \/ j = "inline" /\ i = k /\ At(b, h, x, "key", d)
    BY <1>1, <1>2, <1>3, <2>1, <2>2, <2>3 DEF At, m
  <2>5. Once(c, h)
    BY <2>4 DEF Tidy, Once
  <2>6. Known(c, h, C)
    BY <2>4 DEF Tidy, Known
  <2>7. \A i \in 1 .. d : i # d => Target(c, v, i) = Target(b, k, i)
    <3>1. ASSUME NEW i \in 1 .. d, i # d PROVE c.stack[i + 1].node = b.stack[i + 1].node
      <4>1. i + 1 \in 1 .. d
        BY <1>2, <3>1
      <4>2. CASE i + 1 = d
        BY <2>1, <2>2, <4>2
      <4>3. CASE i + 1 # d
        BY <1>1, <4>1, <4>3
      <4>4. QED
        BY <4>2, <4>3
    <3> HIDE DEF v
    <3>2. QED
      BY <1>3, <3>1 DEF Target
  <2>8. \A x, r : Over(c, v, x, r) => Over(b, k, x, r)
    <3> HIDE DEF v
    <3>1. ASSUME NEW x, NEW r, Over(c, v, x, r) PROVE Over(b, k, x, r)
      <4>1. CASE r \in 1 .. Len(c.meta) /\ x \in c.meta[r].before
        <5>1. CASE r = k /\ f.before # {}
          <6>1. x \in b.stack[d].before /\ Target(b, k, d) = r
            BY <2>1, <2>3, <4>1, <5>1 DEF Target
          <6>2. QED
            BY <2>1, <6>1 DEF Over
        <5>2. CASE ~(r = k /\ f.before # {})
          <6>1. r \in 1 .. Len(b.meta) /\ x \in b.meta[r].before
            BY <1>2, <1>3, <2>3, <4>1, <5>2 DEF m
          <6>2. QED
            BY <6>1 DEF Over
        <5>3. QED
          BY <5>1, <5>2
      <4>2. CASE \E i \in 1 .. Len(c.stack) : Target(c, v, i) = r /\ x \in c.stack[i].before
        <5>1. PICK i \in 1 .. d : Target(c, v, i) = r /\ x \in c.stack[i].before
          BY <1>3, <4>2
        <5>2. i # d
          BY <2>2, <5>1
        <5>3. Target(b, k, i) = r /\ x \in b.stack[i].before
          BY <1>1, <2>7, <5>1, <5>2
        <5>4. QED
          BY <5>3 DEF Over
      <4>3. QED
        BY <3>1, <4>1, <4>2 DEF Over
    <3>2. QED
      BY <3>1
  <2>9. Sorted(c, v)
    BY <1>3, <2>8 DEF Tidy, Sorted
  <2>10. KeysFirst(c) /\ (InSequence(c) => TopOf(c).before = {})
    <3>1. KeysFirst(c)
      BY <1>1, <1>3, <2>2 DEF KeysFirst, Tidy
    <3>2. QED
      BY <1>3, <2>2, <3>1
  <2>11. QED
    BY <1>4, <2>5, <2>6, <2>9, <2>10 DEF Tidy, c, v
<1>8. QED
  BY <1>5, <1>6, <1>7

(***************************************************************************)
(* Scalars and aliases take comments.                                      *)
(***************************************************************************)
\* d is b after some of the waiting comments have been claimed for a node, and the comment
\* l for its line; own are the comments on that line.
Takes(b, d, claimed, own, l) ==
  /\ claimed \subseteq b.before /\ own \subseteq b.before /\ claimed \cap own = {}
  /\ l = NoLine \/ l = b.inline \/ l \in own
  /\ d.before = b.before \ (claimed \cup own) /\ d.inline = NoLine
  /\ \A x \in claimed, y \in d.before : x < y

\* A new node.
LEMMA NewNodeIs ==
  ASSUME NEW t, NEW n, NEW b, Sound(b, t, n), NEW from \in LineOr(t), NEW last \in Line(t)
  PROVE  LET c == NewNode(b, from, last)
         IN  /\ c.stack = b.stack /\ Apart(b, c) /\ Len(c.meta) = n + 1
             /\ c.meta[n + 1] = Node(Outset(b, from), last)
             /\ \A i \in 1 .. n : c.meta[i] = b.meta[i]
<1> DEFINE o == Outset(b, from)
           m == Node(o, last)
           c == [b EXCEPT !.meta = Append(@, m)]
<1>1. o \in LineOr(t)
  BY OutsetType
<1>2. NewNode(b, from, last) = c
  BY DEF NewNode
<1> HIDE DEF o
<1>3. m \in NodeType(t)
  BY <1>1, NoneIsNoLine, BlanksAre DEF Node, NodeType
<1> HIDE DEF m
<1>4. b.meta \in Seq(NodeType(t)) /\ Len(b.meta) = n
  BY FieldTypes
<1>5. /\ c.stack = b.stack /\ Apart(b, c) /\ c.meta = Append(b.meta, m)
  BY DEF Sound, BuilderType, Apart
<1> HIDE DEF c
<1>6. /\ Len(c.meta) = n + 1 /\ c.meta[n + 1] = m
      /\ \A i \in 1 .. n : c.meta[i] = b.meta[i]
  BY <1>3, <1>4, <1>5, AppendProperties
<1>7. QED
  BY <1>2, <1>5, <1>6 DEF m, o

\* It has no comments.
LEMMA NodeIs ==
  ASSUME NEW o, NEW last
  PROVE  LET m == Node(o, last)
         IN  /\ m.before = {} /\ m.inline = NoLine /\ m.blanks = 0 /\ m.trailing = 0
             /\ m.first = o /\ m.last = last
BY DEF Node

LEMMA NewNodeTidy ==
  ASSUME NEW t, NEW n, NEW b, Sound(b, t, n), NEW from \in LineOr(t), NEW last \in Line(t),
         NEW h, NEW C, Tidy(b, h, n + 1, C)
  PROVE  Tidy(NewNode(b, from, last), h, n + 1, C)
<1> DEFINE c == NewNode(b, from, last)
           m == Node(Outset(b, from), last)
           v == n + 1
<1>1. /\ c.stack = b.stack /\ Apart(b, c) /\ Len(c.meta) = n + 1
      /\ c.meta[n + 1] = m /\ \A i \in 1 .. n : c.meta[i] = b.meta[i]
  BY NewNodeIs
<1>2. m.before = {} /\ m.inline = NoLine
  BY NodeIs
<1> HIDE DEF c, m
<1>3. Len(b.meta) = n /\ n \in Nat
  BY FieldTypes
<1>4. /\ \A i \in 1 .. Len(c.meta) :
           (i \in 1 .. Len(b.meta) /\ c.meta[i] = b.meta[i])
           \/ (c.meta[i].before = {} /\ c.meta[i].inline = NoLine)
      /\ c.stack = b.stack /\ c.before = b.before /\ c.inline = b.inline
  BY <1>1, <1>2, <1>3 DEF Apart
<1>5. \A x, j, i : At(c, h, x, j, i) => At(b, h, x, j, i)
  BY <1>4 DEF At
<1>6. \A x, r : Over(c, v, x, r) => Over(b, v, x, r)
  BY <1>4 DEF Over, Target
<1>7. KeysFirst(c) /\ v \in 1 .. Len(c.meta) + 1
  BY <1>1, <1>3 DEF Tidy, KeysFirst
<1> HIDE DEF v
<1>8. Tidy(b, h, v, C)
  BY DEF v
<1>9. QED
  BY <1>4, <1>5, <1>6, <1>7, <1>8, TidyFewer DEF c, v

\* The comments taken, before they are given to a node.
LEMMA TakesTidy ==
  ASSUME NEW b, NEW v, NEW C, Tidy(b, NoLine, v, C),
         NEW d, d.stack = b.stack, d.meta = b.meta, NEW own, NEW l, Takes(b, d, {}, own, l)
  PROVE  Tidy(d, l, v, C)
<1>1. \A x, j, i : At(d, l, x, j, i) =>
        \/ At(b, NoLine, x, j, i) /\ j # "deferred" /\ ~(j = "waiting" /\ x \in own)
        \/ j = "hand" /\ i = 0 /\ At(b, NoLine, x, "deferred", 0)
        \/ j = "hand" /\ i = 0 /\ At(b, NoLine, x, "waiting", 0) /\ x \in own
  BY DEF At, Takes
<1>2. Once(d, l)
  BY <1>1 DEF Tidy, Once
<1>3. Known(d, l, C)
  BY <1>1 DEF Tidy, Known
<1>4. \A x, r : Over(d, v, x, r) => Over(b, v, x, r)
  BY DEF Over, Target
<1>5. Sorted(d, v)
  BY <1>4 DEF Tidy, Sorted, Takes
<1>6. QED
  BY <1>2, <1>3, <1>5 DEF Tidy, KeysFirst

\* They are given to a new node, and no frame is waiting for it.
Becomes(b, d, n, claimed, own, l) ==
  /\ n \in Nat /\ Len(b.meta) = n /\ Len(b.stack) \in Nat
  /\ b.stack # <<>> => b.stack[Len(b.stack)].before = {}
  /\ b.stack = <<>> => Len(b.stack) = 0
  /\ Len(d.meta) = n + 1 /\ \A i \in 1 .. n : d.meta[i] = b.meta[i]
  /\ Takes(b, d, claimed, own, l)
  /\ d.meta[n + 1].before = claimed /\ d.meta[n + 1].inline = l
  /\ Len(d.stack) = Len(b.stack)
  /\ \A i \in 1 .. Len(b.stack) :
       d.stack[i].before = b.stack[i].before /\ d.stack[i].inline = b.stack[i].inline
       /\ d.stack[i].node = b.stack[i].node /\ b.stack[i].node \in 1 .. n
       /\ d.stack[i].kind = b.stack[i].kind /\ d.stack[i].key = b.stack[i].key

LEMMA TakenByNode ==
  ASSUME NEW b, NEW n, NEW C, Tidy(b, NoLine, n + 1, C), NEW d, NEW claimed, NEW own, NEW l,
         Becomes(b, d, n, claimed, own, l), NEW w \in 1 .. n + 2
  PROVE  Tidy(d, NoLine, w, C)
<1> SUFFICES ASSUME
         n \in Nat, Len(b.meta) = n, Len(b.stack) \in Nat,
         b.stack # <<>> => b.stack[Len(b.stack)].before = {}, b.stack = <<>> => Len(b.stack) = 0,
         Len(d.meta) = n + 1, \A i \in 1 .. n : d.meta[i] = b.meta[i],
         Takes(b, d, claimed, own, l),
         d.meta[n + 1].before = claimed, d.meta[n + 1].inline = l,
         Len(d.stack) = Len(b.stack),
         \A i \in 1 .. Len(b.stack) :
           d.stack[i].before = b.stack[i].before /\ d.stack[i].inline = b.stack[i].inline
           /\ d.stack[i].node = b.stack[i].node /\ b.stack[i].node \in 1 .. n
           /\ d.stack[i].kind = b.stack[i].kind /\ d.stack[i].key = b.stack[i].key
       PROVE  Tidy(d, NoLine, w, C)
  BY DEF Becomes
<1> DEFINE v == n + 1
           k == n + 1
<1>0. k \in Int /\ k \notin 1 .. n /\ \A i \in 1 .. k : i \in 1 .. n \/ i = k
  OBVIOUS
<1>1. \A i \in 1 .. Len(d.meta) :
        \/ i = k /\ d.meta[i].before = claimed /\ d.meta[i].inline = l
        \/ i \in 1 .. Len(b.meta) /\ d.meta[i] = b.meta[i]
  <2>1. Len(d.meta) = k /\ d.meta[k].before = claimed /\ d.meta[k].inline = l
    OBVIOUS
  <2> HIDE DEF k
  <2>2. QED
    BY <1>0, <2>1
<1> HIDE DEF k
<1>2. \A x, j, i : At(d, NoLine, x, j, i) =>
        \/ /\ At(b, NoLine, x, j, i) /\ j # "deferred"
           /\ ~(j = "waiting" /\ x \in claimed \cup own)
           /\ ~(j \in {"before", "inline"} /\ i = k)
        \/ j = "before" /\ i = k /\ At(b, NoLine, x, "waiting", 0) /\ x \in claimed
        \/ j = "inline" /\ i = k /\ At(b, NoLine, x, "deferred", 0)
        \/ j = "inline" /\ i = k /\ At(b, NoLine, x, "waiting", 0) /\ x \in own
  <2>1. k \notin 1 .. Len(b.meta)
    BY <1>0
  <2>2. QED
    BY <1>1, <2>1 DEF At, Takes
<1>3. Once(d, NoLine)
  BY <1>2 DEF Tidy, Once, Takes
<1>4. Known(d, NoLine, C)
  BY <1>2 DEF Tidy, Known
<1>5. \A x, r : Over(d, w, x, r) => Over(b, v, x, r) \/ (r = k /\ x \in claimed)
  <2>1. ASSUME NEW x, NEW r, Over(d, w, x, r) PROVE Over(b, v, x, r) \/ (r = k /\ x \in claimed)
    <3>1. CASE r \in 1 .. Len(d.meta) /\ x \in d.meta[r].before
      BY <1>1, <3>1 DEF Over
    <3>2. CASE \E i \in 1 .. Len(d.stack) : Target(d, w, i) = r /\ x \in d.stack[i].before
      <4>1. PICK i \in 1 .. Len(b.stack) : Target(d, w, i) = r /\ x \in d.stack[i].before
        BY <3>2
      <4>2. b.stack # <<>>
        BY <4>1
      <4>3. i # Len(b.stack) /\ i + 1 \in 1 .. Len(b.stack)
        BY <4>1, <4>2
      <4>4. Target(b, v, i) = r /\ x \in b.stack[i].before
        BY <4>1, <4>3 DEF Target
      <4>5. QED
        BY <4>4 DEF Over
    <3>3. QED
      BY <2>1, <3>1, <3>2 DEF Over
  <2>2. QED
    BY <2>1
<1>6. \A x, r : Over(b, v, x, r) => r \in Int /\ r <= k
  <2>1. ASSUME NEW x, NEW r, Over(b, v, x, r) PROVE r \in Int /\ r <= k
    <3>1. CASE r \in 1 .. Len(b.meta)
      BY <3>1 DEF k
    <3>2. CASE \E i \in 1 .. Len(b.stack) : Target(b, v, i) = r
      <4>1. PICK i \in 1 .. Len(b.stack) : Target(b, v, i) = r
        BY <3>2
      <4>2. CASE i = Len(b.stack)
        BY <4>1, <4>2 DEF Target, k
      <4>3. CASE i # Len(b.stack)
        <5>1. i + 1 \in 1 .. Len(b.stack) /\ r = b.stack[i + 1].node
          BY <4>1, <4>3 DEF Target
        <5>2. r \in 1 .. n
          BY <5>1
        <5>3. QED
          BY <5>2 DEF k
      <4>4. QED
        BY <4>2, <4>3
    <3>3. QED
      BY <2>1, <3>1, <3>2 DEF Over
  <2>2. QED
    BY <2>1
<1>7. Sorted(d, w)
  <2>1. ASSUME NEW x, NEW y, NEW r, NEW s, Over(d, w, x, r), Over(d, w, y, s), r < s PROVE x < y
    <3>1. CASE Over(b, v, x, r) /\ Over(b, v, y, s)
      BY <2>1, <3>1 DEF Tidy, Sorted
    <3>2. CASE Over(b, v, x, r) /\ s = k /\ y \in claimed
      BY <3>2 DEF Tidy, Sorted, Takes
    <3>3. CASE r = k
      <4>1. CASE s = k
        BY <1>0, <2>1, <3>3, <4>1
      <4>2. CASE Over(b, v, y, s)
        <5>1. s \in Int /\ s <= k /\ k < s /\ k \in Int
          BY <1>0, <1>6, <2>1, <3>3, <4>2
        <5>2. QED
          BY <5>1
      <4>3. QED
        BY <1>5, <2>1, <4>1, <4>2
    <3>4. QED
      BY <1>5, <2>1, <3>1, <3>2, <3>3
  <2>2. ASSUME NEW x, NEW y \in d.before, NEW r, Over(d, w, x, r) PROVE x < y
    BY <1>5, <2>2 DEF Tidy, Sorted, Takes
  <2>3. QED
    BY <2>1, <2>2 DEF Sorted
<1>8. KeysFirst(d)
  BY DEF Tidy, KeysFirst
<1>9. w \in 1 .. Len(d.meta) + 1
  OBVIOUS
<1>10. QED
  BY <1>3, <1>4, <1>7, <1>8, <1>9 DEF Tidy


\* What changes when only the frame on top does.
TopOnly(b, d) ==
  /\ d.meta = b.meta /\ Len(d.stack) = Len(b.stack)
  /\ \A i \in 1 .. Len(b.stack) : i # Len(b.stack) => d.stack[i] = b.stack[i]
  /\ LET f == b.stack[Len(b.stack)]
         g == d.stack[Len(b.stack)]
     IN  g.node = f.node /\ g.kind = f.kind

\* Whatever is over a node is not over one that comes after the next.
LEMMA OverIs ==
  ASSUME NEW b, NEW n \in Nat, Len(b.meta) = n, Len(b.stack) \in Nat,
         \A i \in 1 .. Len(b.stack) : b.stack[i].node \in 1 .. n, NEW x, NEW r, Over(b, n + 1, x, r)
  PROVE  r \in Int /\ r <= n + 1
<1> DEFINE v == n + 1
<1>1. CASE r \in 1 .. Len(b.meta)
  BY <1>1
<1>2. CASE \E i \in 1 .. Len(b.stack) : Target(b, v, i) = r
  <2>1. PICK i \in 1 .. Len(b.stack) : Target(b, v, i) = r
    BY <1>2
  <2>2. CASE i = Len(b.stack)
    BY <2>1, <2>2 DEF Target
  <2>3. CASE i # Len(b.stack)
    <3>1. i + 1 \in 1 .. Len(b.stack) /\ r = b.stack[i + 1].node
      BY <2>1, <2>3 DEF Target
    <3>2. r \in 1 .. n
      BY <3>1
    <3>3. QED
      BY <3>2
  <2>4. QED
    BY <2>2, <2>3
<1>3. QED
  BY <1>1, <1>2 DEF Over

\* The comments claimed go to the frame on top, for the node that comes next.
LEMMA TakenByTop ==
  ASSUME NEW b, NEW n \in Nat, Len(b.meta) = n, Len(b.stack) \in Nat \ {0}, NEW C,
         Tidy(b, NoLine, n + 1, C), \A i \in 1 .. Len(b.stack) : b.stack[i].node \in 1 .. n,
         NEW d, TopOnly(b, d), NEW claimed,
         claimed \subseteq b.before, \A x \in claimed, y \in d.before : x < y,
         d.stack[Len(b.stack)].before = claimed,
         d.stack[Len(b.stack)].kind = "map" /\ d.stack[Len(b.stack)].key = NoKey => claimed = {},
         d.before \subseteq b.before,
         Once(d, NoLine), Known(d, NoLine, C)
  PROVE  Tidy(d, NoLine, n + 1, C)
<1> DEFINE v == n + 1
           z == Len(b.stack)
<1>0. d.meta = b.meta /\ Len(d.stack) = Len(b.stack) /\ z \in 1 .. Len(b.stack) /\ v \in Int
  BY DEF TopOnly
<1>1. \A i \in 1 .. Len(b.stack) : Target(d, v, i) = Target(b, v, i) /\ (i # z => d.stack[i] = b.stack[i])
  <2>1. ASSUME NEW i \in 1 .. Len(b.stack), i # z PROVE d.stack[i + 1].node = b.stack[i + 1].node
    <3>1. i + 1 \in 1 .. Len(b.stack)
      BY <2>1
    <3>2. QED
      BY <3>1 DEF TopOnly
  <2> HIDE DEF v
  <2>2. QED
    BY <1>0, <2>1 DEF Target, TopOnly
<1>2. d.stack[z].before = claimed /\ Target(b, v, z) = v
  BY DEF Target
<1>3. \A x, r : Over(b, v, x, r) => r \in Int /\ r <= v
  BY OverIs
<1> HIDE DEF v, z
<1>4. \A x, r : Over(d, v, x, r) => Over(b, v, x, r) \/ (r = v /\ x \in claimed)
  BY <1>0, <1>1, <1>2 DEF Over
<1>5. Sorted(d, v)
  <2>1. ASSUME NEW x, NEW y, NEW r, NEW s, Over(d, v, x, r), Over(d, v, y, s), r < s PROVE x < y
    <3>1. CASE Over(b, v, x, r) /\ Over(b, v, y, s)
      BY <2>1, <3>1 DEF Tidy, Sorted, v
    <3>2. CASE Over(b, v, x, r) /\ s = v /\ y \in claimed
      BY <3>2 DEF Tidy, Sorted, v
    <3>3. CASE r = v
      <4>1. CASE s = v
        BY <1>0, <2>1, <3>3, <4>1
      <4>2. CASE Over(b, v, y, s)
        <5>1. s \in Int /\ s <= v /\ v < s /\ v \in Int
          BY <1>0, <1>3, <2>1, <3>3, <4>2
        <5>2. QED
          BY <5>1
      <4>3. QED
        BY <1>4, <2>1, <4>1, <4>2
    <3>4. QED
      BY <1>4, <2>1, <3>1, <3>2, <3>3
  <2>2. ASSUME NEW x, NEW y \in d.before, NEW r, Over(d, v, x, r) PROVE x < y
    BY <1>4, <2>2 DEF Tidy, Sorted, v
  <2>3. QED
    BY <2>1, <2>2 DEF Sorted
<1>6. KeysFirst(d)
  BY <1>0, <1>1 DEF Tidy, KeysFirst, z
<1>7. QED
  BY <1>0, <1>5, <1>6 DEF Tidy, v

\* A pending key takes its comments,
LEMMA TakenByKey ==
  ASSUME NEW b, Len(b.stack) \in Nat \ {0}, NEW C, NEW v, Tidy(b, NoLine, v, C),
         NEW d, TopOnly(b, d), NEW claimed, NEW own, NEW l, Takes(b, d, claimed, own, l),
         d.stack[Len(b.stack)].before = claimed, d.stack[Len(b.stack)].inline = l
  PROVE  Once(d, NoLine) /\ Known(d, NoLine, C)
<1> DEFINE z == Len(b.stack)
<1>1. d.meta = b.meta /\ Len(d.stack) = Len(b.stack) /\ \A i \in 1 .. Len(b.stack) : i # z => d.stack[i] = b.stack[i]
  BY DEF TopOnly
<1>2. d.stack[z].before = claimed /\ d.stack[z].inline = l
  OBVIOUS
<1> HIDE DEF z
<1>3. \A x, j, i : At(d, NoLine, x, j, i) =>
        \/ /\ At(b, NoLine, x, j, i) /\ j # "deferred"
           /\ ~(j = "waiting" /\ x \in claimed \cup own)
           /\ ~(j \in {"frame", "key"} /\ i = z)
        \/ j = "frame" /\ i = z /\ At(b, NoLine, x, "waiting", 0) /\ x \in claimed
        \/ j = "key" /\ i = z /\ At(b, NoLine, x, "deferred", 0)
        \/ j = "key" /\ i = z /\ At(b, NoLine, x, "waiting", 0) /\ x \in own
  BY <1>1, <1>2 DEF At, Takes
<1>4. Once(d, NoLine)
  BY <1>3 DEF Tidy, Once, Takes
<1>5. QED
  BY <1>3, <1>4 DEF Tidy, Known

\* and so does the sequence whose item is a collection.
LEMMA TakenByItem ==
  ASSUME NEW b, Len(b.stack) \in Nat \ {0}, NEW C, NEW v, Tidy(b, NoLine, v, C),
         NEW d, TopOnly(b, d), NEW claimed, claimed \subseteq b.before,
         d.before = b.before \ claimed, d.inline = b.inline,
         d.stack[Len(b.stack)].before = claimed, d.stack[Len(b.stack)].inline = b.stack[Len(b.stack)].inline
  PROVE  Once(d, NoLine) /\ Known(d, NoLine, C)
<1> DEFINE z == Len(b.stack)
<1>1. d.meta = b.meta /\ Len(d.stack) = Len(b.stack) /\ \A i \in 1 .. Len(b.stack) : i # z => d.stack[i] = b.stack[i]
  BY DEF TopOnly
<1>2. d.stack[z].before = claimed /\ d.stack[z].inline = b.stack[z].inline
  OBVIOUS
<1> HIDE DEF z
<1>3. \A x, j, i : At(d, NoLine, x, j, i) =>
        \/ /\ At(b, NoLine, x, j, i)
           /\ ~(j = "waiting" /\ x \in claimed)
           /\ ~(j = "frame" /\ i = z)
        \/ j = "frame" /\ i = z /\ At(b, NoLine, x, "waiting", 0) /\ x \in claimed
  BY <1>1, <1>2 DEF At
<1>4. Once(d, NoLine)
  BY <1>3 DEF Tidy, Once
<1>5. QED
  BY <1>3, <1>4 DEF Tidy, Known

\* A collection is opened: its node has been made, and the comment on its line is own.
LEMMA OpenedTidy ==
  ASSUME NEW b, NEW n \in Nat, Len(b.meta) = n + 1, Len(b.stack) \in Nat, NEW C, Tidy(b, NoLine, n + 1, C),
         NEW d, Len(d.meta) = n + 1, \A i \in 1 .. n : d.meta[i] = b.meta[i],
         NEW own, NEW l, own \subseteq b.before, l = NoLine \/ l \in own,
         d.before = b.before \ own, d.inline = b.inline,
         d.meta[n + 1].before = b.meta[n + 1].before, d.meta[n + 1].inline = l,
         NEW f, d.stack = Append(b.stack, f), Len(d.stack) = Len(b.stack) + 1,
         d.stack[Len(b.stack) + 1] = f, \A i \in 1 .. Len(b.stack) : d.stack[i] = b.stack[i],
         f.node = n + 1, f.before = {}, f.inline = NoLine
  PROVE  Tidy(d, NoLine, n + 2, C)
<1> DEFINE v == n + 1
           w == n + 2
           z == Len(b.stack) + 1
<1>0. /\ z \in Int /\ z \notin 1 .. Len(b.stack) /\ \A i \in 1 .. z : i \in 1 .. Len(b.stack) \/ i = z
      /\ v \in Int /\ v \in 1 .. Len(b.meta) /\ Len(d.meta) = Len(b.meta)
      /\ \A i \in 1 .. Len(b.meta) : i # v => d.meta[i] = b.meta[i]
  OBVIOUS
<1>1. \A i \in 1 .. Len(d.stack) : \/ i = z /\ d.stack[i].before = {} /\ d.stack[i].inline = NoLine
                                   \/ i # z /\ i \in 1 .. Len(b.stack) /\ d.stack[i] = b.stack[i]
  <2>1. Len(d.stack) = z /\ d.stack[z] = f
    OBVIOUS
  <2> HIDE DEF z
  <2>2. QED
    BY <1>0, <2>1
<1>2. d.meta[v].before = b.meta[v].before /\ d.meta[v].inline = l
  OBVIOUS
<1>3. \A i \in 1 .. Len(b.stack) : Target(d, w, i) = Target(b, v, i)
  <2>1. ASSUME NEW i \in 1 .. Len(b.stack) PROVE Target(d, w, i) = Target(b, v, i)
    <3>1. CASE i = Len(b.stack)
      <4>1. Target(b, v, i) = v
        BY <3>1 DEF Target
      <4>2. i # Len(d.stack) /\ i + 1 = z
        BY <3>1
      <4>3. d.stack[i + 1].node = v
        BY <4>2
      <4>4. Target(d, w, i) = v
        BY <4>2, <4>3 DEF Target
      <4>5. QED
        BY <4>1, <4>4
    <3>2. CASE i # Len(b.stack)
      <4>1. i + 1 \in 1 .. Len(b.stack) /\ i # Len(d.stack)
        BY <3>2
      <4>2. d.stack[i + 1] = b.stack[i + 1]
        BY <4>1
      <4> HIDE DEF v, w
      <4>3. QED
        BY <3>2, <4>1, <4>2 DEF Target
    <3>3. QED
      BY <3>1, <3>2
  <2>2. QED
    BY <2>1
<1>4. w \in 1 .. Len(d.meta) + 1
  OBVIOUS
<1> HIDE DEF v, w, z
<1>5. \A x, j, i : At(d, NoLine, x, j, i) =>
        \/ /\ At(b, NoLine, x, j, i) /\ ~(j = "waiting" /\ x \in own) /\ ~(j = "inline" /\ i = v)
        \/ j = "inline" /\ i = v /\ At(b, NoLine, x, "waiting", 0) /\ x \in own
  <2>1. ASSUME NEW x, NEW j, NEW i, At(d, NoLine, x, j, i), j \in {"before", "inline"}
        PROVE  \/ At(b, NoLine, x, j, i) /\ ~(j = "inline" /\ i = v)
               \/ j = "inline" /\ i = v /\ At(b, NoLine, x, "waiting", 0) /\ x \in own
    <3>1. i \in 1 .. Len(b.meta) /\ (i # v => d.meta[i] = b.meta[i])
      BY <1>0, <2>1 DEF At
    <3>2. QED
      BY <1>2, <2>1, <3>1 DEF At
  <2>2. ASSUME NEW x, NEW j, NEW i, At(d, NoLine, x, j, i), j \notin {"before", "inline"}
        PROVE  At(b, NoLine, x, j, i) /\ ~(j = "waiting" /\ x \in own)
    BY <1>1, <2>2 DEF At
  <2>3. QED
    BY <2>1, <2>2
<1>6. Once(d, NoLine)
  BY <1>5 DEF Tidy, Once
<1>7. Known(d, NoLine, C)
  BY <1>5 DEF Tidy, Known
<1>8. \A x, r : Over(d, w, x, r) => Over(b, v, x, r)
  BY <1>0, <1>1, <1>2, <1>3 DEF Over
<1>9. Sorted(d, w)
  BY <1>8 DEF Tidy, Sorted, v
<1>10. KeysFirst(d)
  BY <1>1 DEF Tidy, KeysFirst
<1>11. QED
  BY <1>4, <1>6, <1>7, <1>9, <1>10 DEF Tidy, w

\* A frame is popped: the node of its collection is the next to complete.
LEMMA PoppedTidy ==
  ASSUME NEW b, NEW n \in Nat, Len(b.meta) = n, Len(b.stack) \in Nat \ {0}, NEW C, NEW v,
         Tidy(b, NoLine, v, C),
         NEW d, Len(d.meta) = n,
         \A i \in 1 .. n : d.meta[i].before = b.meta[i].before /\ d.meta[i].inline = b.meta[i].inline,
         d.before = b.before, d.inline = b.inline,
         Len(d.stack) = Len(b.stack) - 1, \A i \in 1 .. Len(b.stack) - 1 : d.stack[i] = b.stack[i],
         NEW k \in 1 .. n, b.stack[Len(b.stack)].node = k
  PROVE  Tidy(d, NoLine, k, C)
<1>1. \A i \in 1 .. Len(d.stack) : i \in 1 .. Len(b.stack) /\ d.stack[i] = b.stack[i]
  OBVIOUS
<1>2. /\ Len(d.meta) = Len(b.meta)
      /\ \A i \in 1 .. Len(b.meta) : d.meta[i].before = b.meta[i].before /\ d.meta[i].inline = b.meta[i].inline
  OBVIOUS
<1>3. \A i \in 1 .. Len(d.stack) : Target(d, k, i) = Target(b, v, i)
  <2>1. ASSUME NEW i \in 1 .. Len(d.stack) PROVE Target(d, k, i) = Target(b, v, i)
    <3>1. i # Len(b.stack) /\ Target(b, v, i) = b.stack[i + 1].node
      BY DEF Target
    <3>2. CASE i = Len(d.stack)
      <4>1. i + 1 = Len(b.stack) /\ Target(d, k, i) = k
        BY <3>2 DEF Target
      <4>2. QED
        BY <3>1, <4>1
    <3>3. CASE i # Len(d.stack)
      <4>1. i + 1 \in 1 .. Len(b.stack) - 1 /\ Target(d, k, i) = d.stack[i + 1].node
        BY <3>3 DEF Target
      <4>2. QED
        BY <3>1, <4>1
    <3>4. QED
      BY <3>2, <3>3
  <2>2. QED
    BY <2>1
<1>4. \A x, j, i : At(d, NoLine, x, j, i) => At(b, NoLine, x, j, i)
  <2>1. ASSUME NEW x, NEW j, NEW i, At(d, NoLine, x, j, i) PROVE At(b, NoLine, x, j, i)
    <3>1. CASE i \in 1 .. Len(d.meta) /\ j \in {"before", "inline"}
      <4>1. /\ i \in 1 .. Len(b.meta) /\ d.meta[i].before = b.meta[i].before
            /\ d.meta[i].inline = b.meta[i].inline
        BY <1>2, <3>1
      <4>2. QED
        BY <2>1, <3>1, <4>1 DEF At
    <3>2. CASE ~(i \in 1 .. Len(d.meta) /\ j \in {"before", "inline"})
      BY <1>1, <2>1, <3>2 DEF At
    <3>3. QED
      BY <3>1, <3>2
  <2>2. QED
    BY <2>1
<1>5. \A x, r : Over(d, k, x, r) => Over(b, v, x, r)
  BY <1>1, <1>2, <1>3 DEF Over
<1>6. KeysFirst(d)
  <2>1. KeysFirst(b)
    BY DEF Tidy
  <2>2. QED
    BY <1>1, <2>1 DEF KeysFirst
<1>7. k \in 1 .. Len(d.meta) + 1 /\ d.before \subseteq b.before
  OBVIOUS
<1>8. QED
  BY <1>4, <1>5, <1>6, <1>7, TidyFewer

\* The fields after a scalar has been read, and those of a node that takes comments or lines.
HasRead(b, c, claimed, p) ==
  /\ c.stack = b.stack /\ c.meta = b.meta
  /\ c.before = b.before \ claimed /\ c.inline = NoLine
  /\ c.lastLine = p /\ c.blockEnd = b.blockEnd

\* Only node k differs, and it is m.
NodeOnly(b, c, n, k, m) ==
  /\ c.stack = b.stack /\ Apart(b, c) /\ c.meta[k] = m
  /\ \A i \in 1 .. n : i # k => c.meta[i] = b.meta[i]

LEMMA ReadIs ==
  ASSUME NEW t, NEW n, NEW b, Sound(b, t, n), NEW claimed, NEW p \in LineOr(t),
         NEW anchor \in t.anchors \cup {None}
  PROVE  /\ Sound(Read(b, claimed, p, anchor), t, n)
         /\ HasRead(b, Read(b, claimed, p, anchor), claimed, p)
<1> DEFINE c == Read(b, claimed, p, anchor)
<1>1. Sound(c, t, n)
  BY ReadKeeps
<1>2. /\ c.stack = b.stack /\ c.meta = b.meta
      /\ c.before = b.before \ claimed /\ c.inline = NoLine
      /\ c.lastLine = p /\ c.blockEnd = b.blockEnd
  BY DEF Read, With, Sound, BuilderType
<1>3. QED
  BY <1>1, <1>2 DEF HasRead

LEMMA DescribedIs ==
  ASSUME NEW t, NEW n, NEW b, Sound(b, t, n), NEW k \in 1 .. n,
         NEW w \in SUBSET Line(t), NEW l \in LineOr(t)
  PROVE  /\ Sound(Described(b, k, w, l), t, n)
         /\ NodeOnly(b, Described(b, k, w, l), n, k, [b.meta[k] EXCEPT !.before = w, !.inline = l])
<1> DEFINE m == [b.meta[k] EXCEPT !.before = w, !.inline = l]
           c == [b EXCEPT !.meta[k] = m]
<1>1. b.meta \in Seq(NodeType(t)) /\ Len(b.meta) = n /\ b.meta[k] \in NodeType(t)
  BY FieldTypes
<1>2. m \in NodeType(t)
  BY <1>1, DescribedType
<1>3. Described(b, k, w, l) = c
  <2>1. k \in DOMAIN b.meta
    BY <1>1
  <2>2. QED
    BY <1>1, <2>1 DEF Sound, BuilderType, Described
<1> HIDE DEF m
<1>4. /\ Sound(c, t, n) /\ c.stack = b.stack /\ Rest(b, c)
      /\ c.lastLine = b.lastLine /\ c.before = b.before
      /\ c.inline = b.inline /\ c.blockEnd = b.blockEnd /\ c.table = b.table
      /\ c.meta[k] = m /\ \A i \in 1 .. n : i # k => c.meta[i] = b.meta[i]
  BY <1>2, NewMeta
<1> HIDE DEF c
<1>5. QED
  BY <1>3, <1>4 DEF m, Apart, NodeOnly

LEMMA SpacedIs ==
  ASSUME NEW t, NEW n, NEW b, Sound(b, t, n), NEW k \in 1 .. n, NEW j \in BlankLines
  PROVE  /\ Sound(Spaced(b, k, j), t, n)
         /\ NodeOnly(b, Spaced(b, k, j), n, k, [b.meta[k] EXCEPT !.blanks = j])
<1> DEFINE m == [b.meta[k] EXCEPT !.blanks = j]
           c == [b EXCEPT !.meta[k] = m]
<1>1. b.meta[k] \in NodeType(t)
  BY FieldTypes
<1>2. m \in NodeType(t)
  BY <1>1, SpacedType
<1> HIDE DEF m
<1>4. /\ Sound(c, t, n) /\ c.stack = b.stack /\ Rest(b, c)
      /\ c.lastLine = b.lastLine /\ c.before = b.before
      /\ c.inline = b.inline /\ c.blockEnd = b.blockEnd /\ c.table = b.table
      /\ c.meta[k] = m /\ \A i \in 1 .. n : i # k => c.meta[i] = b.meta[i]
  BY <1>2, NewMeta
<1>5. Spaced(b, k, j) = c
  BY DEF m, Spaced
<1> HIDE DEF c
<1>6. QED
  BY <1>4, <1>5 DEF m, Apart, NodeOnly

\* The parts of a scalar are comments that it takes.
LEMMA PartsTaken ==
  ASSUME NEW t, Text(t), NEW n, NEW b, Sound(b, t, n), NEW form, NEW line \in Line(t), NEW end \in Line(t),
         NEW d, d.inline = NoLine,
         d.before = b.before \ (Claimed(b, line) \cup OwnLine(b, form, line, end))
  PROVE  Takes(b, d, Claimed(b, line), OwnLine(b, form, line, end), Deferred(b, form, line, end))
<1> DEFINE claimed == Claimed(b, line)
           own == OwnLine(b, form, line, end)
           l == Deferred(b, form, line, end)
<1>1. claimed \subseteq b.before /\ own \subseteq b.before /\ claimed \cap own = {}
  BY DEF Claimed, Above, OwnLine
<1>2. l = NoLine \/ l = b.inline \/ l \in own
  BY DEF Deferred, OwnLine
<1>3. \A x \in claimed, y \in d.before : x < y
  <2>1. ASSUME NEW x \in claimed, NEW y \in d.before PROVE x < y
    <3>1. x \in Above(b, line) /\ claimed = Above(b, line)
      BY DEF Claimed
    <3>2. x < line /\ y \in b.before /\ y \notin Above(b, line)
      BY <2>1, <3>1 DEF Above
    <3>3. ~(y < line)
      BY <3>2 DEF Above
    <3>4. x \in Int /\ y \in Int /\ line \in Int
      <4>1. b.before \in SUBSET Line(t) /\ x \in b.before
        BY <1>1, FieldTypes
      <4>2. QED
        BY <3>2, <4>1 DEF Line
    <3>5. QED
      BY <3>2, <3>3, <3>4
  <2>2. QED
    BY <2>1
<1>4. QED
  BY <1>1, <1>2, <1>3 DEF Takes

\* The nodes of the frames are nodes.
LEMMA FrameNodes ==
  ASSUME NEW t, NEW n, NEW b, Sound(b, t, n)
  PROVE  /\ n \in Nat /\ Len(b.meta) = n /\ Len(b.stack) \in Nat
         /\ \A i \in 1 .. Len(b.stack) : b.stack[i].node \in 1 .. n
         /\ b.stack = <<>> => Len(b.stack) = 0
         /\ b.stack # <<>> => Len(b.stack) \in Nat \ {0} /\ TopOf(b) = b.stack[Len(b.stack)]
<1>1. b.stack \in Seq(FrameType(t, n)) /\ n \in Nat /\ Len(b.meta) = n /\ Len(b.stack) \in Nat
  BY FieldTypes, StackLen
<1>2. ASSUME NEW i \in 1 .. Len(b.stack) PROVE b.stack[i].node \in 1 .. n
  <2>1. b.stack[i] \in FrameType(t, n)
    BY <1>1
  <2>2. QED
    BY <2>1 DEF FrameType
<1>3. b.stack # <<>> => Len(b.stack) \in Nat \ {0}
  BY <1>1
<1>4. QED
  BY <1>1, <1>2, <1>3 DEF TopOf

\* A scalar.
LEMMA ScalarSettled ==
  ASSUME NEW t, Text(t), NEW n, NEW b, Sound(b, t, n), NEW C, Settled(b, C),
         NEW form, NEW line, NEW end, NEW last,
         NEW from, NEW key, NEW anchor, Placeable(b, t, line, end, last, from, key, anchor)
  PROVE  Settled(PlaceScalar(b, form, line, end, last, key, anchor, from), C)
<1> DEFINE claimed == Claimed(b, line)
           own == OwnLine(b, form, line, end)
           both == claimed \cup own
           l == Deferred(b, form, line, end)
           blanks == Blanks(b, form, line)
           p == LastLineRead(form, line, end)
           b1 == Read(b, both, p, anchor)
           b2 == NewNode(b1, from, last)
           k == Len(b2.meta)
           item == Described(b2, k, claimed, l)
           c == Placed(b, b1, form, line, end, last, key, from)
<1>0. /\ line \in Line(t) /\ end \in Line(t) /\ last \in Line(t) /\ from \in Line(t)
      /\ key \in Key(t) /\ anchor \in t.anchors \cup {None} /\ from \in LineOr(t)
      /\ (b.stack # <<>> /\ ~InSequence(b) /\ ~HasKey(b)) => key # NoKey
  BY NoneIsNoLine DEF Placeable
<1>1. PlaceScalar(b, form, line, end, last, key, anchor, from) = c
  BY PlaceScalarIs
<1>2. claimed \in SUBSET Line(t) /\ l \in LineOr(t) /\ blanks \in BlankLines /\ blanks \in Nat /\ p \in LineOr(t)
  BY <1>0, PartTypes, LastLineReadType
<1> HIDE DEF p, blanks, both
<1>3. /\ Sound(b1, t, n) /\ b1.stack = b.stack /\ b1.meta = b.meta
      /\ b1.before = b.before \ both /\ b1.inline = NoLine
  <2>1. Sound(b1, t, n) /\ HasRead(b, b1, both, p)
    BY <1>0, <1>2, ReadIs
  <2> HIDE DEF b1
  <2>2. QED
    BY <2>1 DEF HasRead
<1> HIDE DEF b1
<1>4. /\ Sound(b2, t, n + 1) /\ b2.stack = b.stack /\ Apart(b1, b2) /\ k = n + 1
      /\ b2.meta[n + 1] = Node(Outset(b1, from), last)
      /\ \A i \in 1 .. n : b2.meta[i] = b.meta[i]
  <2>1. /\ b2.stack = b1.stack /\ Apart(b1, b2) /\ Len(b2.meta) = n + 1
        /\ b2.meta[n + 1] = Node(Outset(b1, from), last)
        /\ \A i \in 1 .. n : b2.meta[i] = b1.meta[i]
    BY <1>0, <1>3, NewNodeIs
  <2>2. Sound(b2, t, n + 1)
    BY <1>0, <1>3, NewNodeKeeps
  <2> HIDE DEF b2
  <2>3. QED
    BY <1>3, <2>1, <2>2
<1> HIDE DEF b2, k, claimed, l
<1>5. /\ n \in Nat /\ k \in 1 .. n + 1 /\ Len(b.meta) = n /\ Len(b.stack) \in Nat
      /\ \A i \in 1 .. Len(b.stack) : b.stack[i].node \in 1 .. n
      /\ b.stack = <<>> => Len(b.stack) = 0
      /\ b.stack # <<>> => Len(b.stack) \in Nat \ {0} /\ TopOf(b) = b.stack[Len(b.stack)]
  BY <1>4, FrameNodes
<1>6. /\ Sound(item, t, n + 1) /\ item.stack = b.stack /\ Apart(b2, item)
      /\ item.meta[k] = [b2.meta[k] EXCEPT !.before = claimed, !.inline = l]
      /\ \A i \in 1 .. n + 1 : i # k => item.meta[i] = b2.meta[i]
  <2>1. /\ Sound(item, t, n + 1)
        /\ NodeOnly(b2, item, n + 1, k, [b2.meta[k] EXCEPT !.before = claimed, !.inline = l])
    BY <1>2, <1>4, <1>5, DescribedIs
  <2> HIDE DEF item
  <2>2. QED
    BY <1>4, <2>1 DEF NodeOnly
<1> HIDE DEF item
<1>7. /\ item.before = b.before \ both /\ item.inline = NoLine
      /\ item.meta[n + 1].before = claimed /\ item.meta[n + 1].inline = l
      /\ \A i \in 1 .. n : item.meta[i] = b.meta[i]
      /\ Len(item.meta) = n + 1
  <2>1. b2.meta[k] \in NodeType(t) /\ Len(item.meta) = n + 1
    BY <1>4, <1>5, <1>6, FieldTypes
  <2>2. item.meta[n + 1].before = claimed /\ item.meta[n + 1].inline = l
    BY <1>4, <1>6, <2>1 DEF NodeType
  <2>3. \A i \in 1 .. n : item.meta[i] = b.meta[i]
    BY <1>4, <1>5, <1>6
  <2>4. QED
    BY <1>3, <1>4, <1>6, <2>1, <2>2, <2>3 DEF Apart
<1>8. Tidy(b, NoLine, n + 1, C) /\ (InSequence(b) => TopOf(b).before = {})
  BY <1>5 DEF Settled
<1>9. ASSUME NEW d, d.inline = NoLine, d.before = b.before \ both
      PROVE  Takes(b, d, claimed, own, l)
  BY <1>0, <1>9, PartsTaken DEF both, claimed, l
<1>10. CASE b.stack = <<>>
  <2>0. ~InSequence(b) /\ ~HasKey(b)
    BY <1>10 DEF InSequence, HasKey
  <2>1. c = PushNode(item, k)
    BY <1>10, <2>0 DEF Placed, b2, k, item, claimed, l
  <2> HIDE DEF c
  <2>2. Takes(b, item, claimed, own, l)
    BY <1>7, <1>9
  <2> HIDE DEF own
  <2> DEFINE w == n + 1
  <2>3. w \in 1 .. n + 2 /\ w = k /\ item.stack = b.stack
    BY <1>4, <1>5, <1>6
  <2> HIDE DEF w
  <2>4. Tidy(item, NoLine, w, C)
    <3>1. Becomes(b, item, n, claimed, own, l)
      BY <1>5, <1>7, <1>8, <1>10, <2>2, <2>3 DEF Becomes
    <3>2. QED
      BY <1>8, <2>3, <3>1, TakenByNode
  <2>5. Tidy(c, NoLine, Len(c.meta) + 1, C) /\ (InSequence(c) => TopOf(c).before = {})
    BY <1>5, <1>6, <2>1, <2>3, <2>4, PushNodeTidy
  <2>6. QED
    BY <1>1, <2>5 DEF Settled, c
<1>11. CASE b.stack # <<>> /\ InSequence(b)
  <2> DEFINE d == Spaced(item, k, blanks)
             e == [key |-> NoKey, node |-> k]
             f == TopOf(b)
             g == Itemed(f, e)
             z == Len(b.stack)
  <2>0. ~HasKey(b)
    BY <1>11 DEF InSequence, HasKey
  <2>1. c = SetTop(d, g)
    BY <1>11, <2>0 DEF Placed, b2, k, item, claimed, l, blanks
  <2> HIDE DEF c
  <2>2. /\ Sound(d, t, n + 1) /\ d.stack = item.stack /\ Apart(item, d)
        /\ d.meta[k] = [item.meta[k] EXCEPT !.blanks = blanks]
        /\ \A i \in 1 .. n + 1 : i # k => d.meta[i] = item.meta[i]
    <3>1. /\ Sound(d, t, n + 1)
          /\ NodeOnly(item, d, n + 1, k, [item.meta[k] EXCEPT !.blanks = blanks])
      BY <1>2, <1>5, <1>6, SpacedIs
    <3> HIDE DEF d
    <3>2. QED
      BY <3>1 DEF NodeOnly
  <2> HIDE DEF d
  <2>3. e \in EntryType(t, n + 1)
    BY <1>5, NoneIsNoLine DEF EntryType
  <2>4. f \in FrameType(t, n + 1)
    BY <1>5, <1>11, TopIs, TypesGrow
  <2> HIDE DEF e, f
  <2>5. /\ g \in FrameType(t, n + 1) /\ g.kind = f.kind /\ g.key = f.key
    BY <2>3, <2>4, ItemedType
  <2>6. g.before = f.before /\ g.inline = f.inline /\ g.node = f.node
    BY <2>4 DEF FrameType, Itemed
  <2> HIDE DEF g
  <2>7. /\ c.meta = d.meta /\ Apart(d, c) /\ Len(c.stack) = z /\ c.stack[z] = g
        /\ \A i \in 1 .. z : i # z => c.stack[i] = b.stack[i]
    BY <1>6, <1>11, <2>1, <2>2, <2>5, NewTop DEF Apart
  <2>8. /\ Len(c.meta) = n + 1 /\ \A i \in 1 .. n : c.meta[i] = b.meta[i]
        /\ c.meta[n + 1].before = claimed /\ c.meta[n + 1].inline = l
    <3>1. Len(d.meta) = n + 1 /\ item.meta[k] \in NodeType(t)
      BY <1>5, <1>6, <2>2, FieldTypes
    <3>2. d.meta[k].before = claimed /\ d.meta[k].inline = l
      BY <1>4, <1>7, <2>2, <3>1 DEF NodeType
    <3>3. \A i \in 1 .. n : d.meta[i] = b.meta[i]
      BY <1>4, <1>5, <1>7, <2>2
    <3>4. QED
      BY <1>4, <2>7, <3>1, <3>2, <3>3
  <2>9. c.before = b.before \ both /\ c.inline = NoLine
    BY <1>7, <2>2, <2>7 DEF Apart
  <2>10. Takes(b, c, claimed, own, l)
    BY <1>9, <2>9
  <2>11. f = b.stack[z] /\ f.before = {} /\ z \in 1 .. z
    BY <1>5, <1>8, <1>11 DEF f
  <2>12. \A i \in 1 .. Len(b.stack) :
           c.stack[i].before = b.stack[i].before /\ c.stack[i].inline = b.stack[i].inline
           /\ c.stack[i].node = b.stack[i].node /\ b.stack[i].node \in 1 .. n
           /\ c.stack[i].kind = b.stack[i].kind /\ c.stack[i].key = b.stack[i].key
    BY <1>5, <2>5, <2>6, <2>7, <2>11
  <2> DEFINE w == n + 2
  <2>13. w \in 1 .. n + 2 /\ w = Len(c.meta) + 1
    BY <1>5, <2>8
  <2> HIDE DEF w, own
  <2>14. Len(c.stack) = Len(b.stack) /\ b.stack[Len(b.stack)].before = {}
    BY <2>7, <2>11
  <2> HIDE DEF z
  <2>15. Tidy(c, NoLine, w, C)
    <3>1. /\ n \in Nat /\ Len(b.meta) = n /\ Len(b.stack) \in Nat /\ Tidy(b, NoLine, n + 1, C)
          /\ (b.stack # <<>> => b.stack[Len(b.stack)].before = {})
          /\ (b.stack = <<>> => Len(b.stack) = 0)
      BY <1>5, <1>8, <1>11, <2>14
    <3>2. /\ Len(c.meta) = n + 1 /\ c.meta[n + 1].before = claimed /\ c.meta[n + 1].inline = l
          /\ Len(c.stack) = Len(b.stack)
      BY <2>8, <2>14
    <3>3. w \in 1 .. n + 2 /\ \A i \in 1 .. n : c.meta[i] = b.meta[i]
      BY <2>8, <2>13
    <3>4. Becomes(b, c, n, claimed, own, l)
      BY <2>10, <2>12, <3>1, <3>2, <3>3 DEF Becomes
    <3>5. QED
      BY <3>1, <3>3, <3>4, TakenByNode
  <2>16. TopOf(c).before = {}
    BY <2>6, <2>7, <2>11 DEF TopOf, z
  <2>17. QED
    BY <1>1, <2>13, <2>15, <2>16 DEF Settled, c
<1>12. CASE b.stack # <<>> /\ ~InSequence(b) /\ HasKey(b)
  <2> DEFINE b3 == PushNode(b2, k)
             entries == TopOf(b3).entries
             j == entries[Len(entries)].node
             d == IF l = NoLine THEN b3 ELSE SetInline(b3, j, l)
             v == n + 1
  <2>1. c = d
    BY <1>12 DEF Placed, b2, k, l
  <2> HIDE DEF c
  <2>2. HasKey(b2)
    BY <1>4, <1>12 DEF HasKey, TopOf
  <2>3. claimed = {} /\ Takes(b, b1, claimed, own, l)
    BY <1>3, <1>9, <1>12 DEF Claimed, claimed
  <2>4. Tidy(b1, l, v, C)
    BY <1>3, <1>8, <2>3, TakesTidy
  <2>5. Tidy(b2, l, v, C)
    BY <1>0, <1>3, <2>4, NewNodeTidy DEF b2
  <2>6. k = v
    BY <1>4
  <2> HIDE DEF v
  <2>7. Tidy(b3, l, Len(b3.meta) + 1, C) /\ (InSequence(b3) => TopOf(b3).before = {})
    BY <1>4, <1>5, <2>5, <2>6, PushNodeTidy
  <2>8. Sound(b3, t, n + 1) /\ Completes(b2, b3) /\ entries # <<>>
    BY <1>4, <1>5, <2>2, PushNodeKeeps
  <2>9. Len(b3.stack) = Len(b.stack)
    <3>1. Pushed(b2, b3, k, n + 1)
      BY <1>4, <1>5, PushNodeIs
    <3> HIDE DEF b3
    <3>2. QED
      BY <1>4, <3>1 DEF Pushed
  <2> HIDE DEF b3
  <2>10. b3.stack # <<>>
    BY <1>5, <1>12, <2>8, <2>9, StackLen
  <2>11. entries \in Seq(EntryType(t, n + 1))
    BY <2>8, <2>10, TopIs DEF FrameType
  <2> HIDE DEF entries
  <2>12. j \in 1 .. n + 1
    <3>1. Len(entries) \in 1 .. Len(entries)
      BY <2>8, <2>11
    <3>2. entries[Len(entries)] \in EntryType(t, n + 1)
      BY <2>11, <3>1
    <3>3. QED
      BY <3>2 DEF EntryType
  <2> HIDE DEF j
  <2>13. CASE l = NoLine
    BY <1>1, <2>1, <2>7, <2>13 DEF Settled, c
  <2>14. CASE l # NoLine
    <3> DEFINE e == SetInline(b3, j, l)
               w == Len(b3.meta) + 1
    <3>1. Tidy(e, NoLine, w, C)
      BY <1>2, <2>7, <2>8, <2>12, SetInlineTidy
    <3>2. e.stack = b3.stack /\ Len(e.meta) = n + 1 /\ Len(b3.meta) = n + 1
      <4>1. e.stack = b3.stack /\ Len(e.meta) = n + 1
        BY <1>2, <2>8, <2>12, SetInlineStack
      <4> HIDE DEF e
      <4>2. Len(b3.meta) = n + 1
        BY <2>8, FieldTypes
      <4>3. QED
        BY <4>1, <4>2
    <3>3. c = e
      BY <2>1, <2>14
    <3> HIDE DEF e
    <3>4. Settled(c, C)
      BY <2>7, <3>1, <3>2, <3>3 DEF Settled, InSequence, TopOf
    <3>5. QED
      BY <1>1, <3>4 DEF c
  <2>15. QED
    BY <2>13, <2>14
<1>13. CASE b.stack # <<>> /\ ~InSequence(b) /\ ~HasKey(b)
  <2> DEFINE f == TopOf(b)
             o == Outset(b, from)
             g == Keyed(f, key, claimed, l, blanks, o)
             z == Len(b.stack)
  <2>1. c = SetTop(b1, g)
    BY <1>13 DEF Placed, claimed, l, blanks
  <2> HIDE DEF c
  <2>2. f \in FrameType(t, n) /\ o \in LineOr(t)
    BY <1>0, <1>13, TopIs, OutsetType
  <2> HIDE DEF f, o
  <2>3. g \in FrameType(t, n) /\ g.kind = f.kind /\ g.key = key
    BY <1>0, <1>2, <2>2, KeyedType
  <2>4. g.before = claimed /\ g.inline = l /\ g.node = f.node
    BY <2>2 DEF Keyed, FrameType
  <2> HIDE DEF g
  <2>5. /\ c.meta = b.meta /\ c.before = b.before \ both /\ c.inline = NoLine
        /\ Len(c.stack) = z /\ c.stack[z] = g
        /\ \A i \in 1 .. z : i # z => c.stack[i] = b.stack[i]
    BY <1>3, <1>13, <2>1, <2>3, NewTop
  <2>6. z \in Nat \ {0} /\ f = b.stack[z]
    BY <1>5, <1>13 DEF f
  <2>7. TopOnly(b, c) /\ c.stack[Len(b.stack)].before = claimed /\ c.stack[Len(b.stack)].inline = l
        /\ c.stack[Len(b.stack)].key # NoKey
    BY <1>0, <1>13, <2>3, <2>4, <2>5, <2>6 DEF TopOnly
  <2>8. Takes(b, c, claimed, own, l)
    BY <1>9, <2>5
  <2> DEFINE v == n + 1
  <2>9. Once(c, NoLine) /\ Known(c, NoLine, C)
    <3> HIDE DEF own
    <3>1. Tidy(b, NoLine, v, C)
      BY <1>8
    <3>2. QED
      BY <2>6, <2>7, <2>8, <3>1, TakenByKey
  <2>10. /\ claimed \subseteq b.before /\ c.before \subseteq b.before
         /\ \A x \in claimed, y \in c.before : x < y
    BY <2>8 DEF Takes
  <2>11. Tidy(c, NoLine, n + 1, C)
    BY <1>5, <1>8, <2>6, <2>7, <2>9, <2>10, TakenByTop
  <2>12. ~InSequence(c)
    <3>1. TopOf(c).kind = f.kind /\ f.kind # "seq"
      BY <1>13, <2>3, <2>5 DEF TopOf, InSequence, f
    <3>2. QED
      BY <3>1 DEF InSequence
  <2>13. Settled(c, C)
    BY <1>5, <2>5, <2>11, <2>12 DEF Settled
  <2>14. QED
    BY <1>1, <2>13 DEF c
<1>14. QED
  BY <1>10, <1>11, <1>12, <1>13

\* A builder with the same places is as tidy.
Like(b, c) ==
  /\ Len(c.meta) = Len(b.meta) /\ Len(c.stack) = Len(b.stack)
  /\ \A i \in 1 .. Len(b.meta) : c.meta[i].before = b.meta[i].before /\ c.meta[i].inline = b.meta[i].inline
  /\ \A i \in 1 .. Len(b.stack) :
       c.stack[i].before = b.stack[i].before /\ c.stack[i].inline = b.stack[i].inline
       /\ c.stack[i].node = b.stack[i].node
  /\ c.before = b.before /\ c.inline = b.inline

LEMMA LikeTidy ==
  ASSUME NEW b, NEW c, NEW h, NEW v, NEW C, Tidy(b, h, v, C), Like(b, c), KeysFirst(c)
  PROVE  Tidy(c, h, v, C)
<1>1. /\ Len(c.meta) = Len(b.meta) /\ Len(c.stack) = Len(b.stack)
      /\ \A i \in 1 .. Len(b.meta) : c.meta[i].before = b.meta[i].before /\ c.meta[i].inline = b.meta[i].inline
      /\ \A i \in 1 .. Len(b.stack) :
           c.stack[i].before = b.stack[i].before /\ c.stack[i].inline = b.stack[i].inline
           /\ c.stack[i].node = b.stack[i].node
      /\ c.before = b.before /\ c.inline = b.inline
  BY DEF Like
<1>2. /\ \A x, k, i : At(c, h, x, k, i) <=> At(b, h, x, k, i)
      /\ \A x, r : Over(c, v, x, r) <=> Over(b, v, x, r)
  BY <1>1, SamePlaces
<1>3. v \in 1 .. Len(c.meta) + 1 /\ c.before \subseteq b.before
  BY <1>1 DEF Tidy
<1>4. QED
  BY <1>2, <1>3, TidyFewer

\* An alias.
LEMMA AliasSettled ==
  ASSUME NEW t, NEW n, NEW b, Sound(b, t, n), NEW C, Settled(b, C),
         NEW line \in Line(t), NEW key \in Key(t), NEW from \in Line(t),
         (b.stack # <<>> /\ ~InSequence(b) /\ ~HasKey(b)) => key # NoKey
  PROVE  Settled(PlaceAlias(b, line, key, from), C)
<1> DEFINE b1 == [b EXCEPT !.lastLine = line]
           b2 == NewNode(b1, from, line)
           k == Len(b2.meta)
           c == PlaceAlias(b, line, key, from)
           v == n + 1
<1>1. b1 = With(b, b.before, b.inline, line, b.blockEnd, b.table)
  BY DEF With, Sound, BuilderType
<1>2. /\ b.before \in SUBSET Line(t) /\ b.inline \in LineOr(t) /\ line \in LineOr(t)
      /\ b.blockEnd \in BOOLEAN /\ b.table \in SUBSET t.anchors
      /\ from \in LineOr(t) /\ Outset(b, from) \in LineOr(t)
  BY FieldTypes, NoneIsNoLine, OutsetType
<1>3. /\ Sound(b1, t, n) /\ b1.stack = b.stack /\ b1.meta = b.meta
      /\ b1.before = b.before /\ b1.inline = b.inline
  BY <1>1, <1>2, NewFields
<1>4. /\ n \in Nat /\ Len(b.meta) = n /\ Len(b.stack) \in Nat
      /\ b.stack = <<>> => Len(b.stack) = 0
      /\ b.stack # <<>> => Len(b.stack) \in Nat \ {0} /\ TopOf(b) = b.stack[Len(b.stack)]
  BY FrameNodes
<1>5. Tidy(b, NoLine, v, C) /\ (InSequence(b) => TopOf(b).before = {})
  BY <1>4 DEF Settled
<1>6. CASE b.stack # <<>> /\ ~InSequence(b) /\ ~HasKey(b)
  <2> DEFINE f == TopOf(b)
             o == Outset(b, from)
             g == [f EXCEPT !.key = key, !.from = o]
             z == Len(b.stack)
  <2>1. c = SetTop(b1, g)
    BY <1>6 DEF PlaceAlias
  <2> HIDE DEF b1, c
  <2>2. f \in FrameType(t, n) /\ o \in LineOr(t)
    BY <1>2, <1>6, TopIs
  <2> HIDE DEF f, o
  <2>3. /\ g \in FrameType(t, n) /\ g.kind = f.kind /\ g.key = key
        /\ g.before = f.before /\ g.inline = f.inline /\ g.node = f.node
    BY <2>2 DEF FrameType
  <2> HIDE DEF g
  <2>4. /\ c.meta = b.meta /\ c.before = b.before /\ c.inline = b.inline
        /\ Len(c.stack) = z /\ c.stack[z] = g /\ TopOf(c) = g
        /\ \A i \in 1 .. z : i # z => c.stack[i] = b.stack[i]
    BY <1>3, <1>6, <2>1, <2>3, NewTop
  <2>5. z \in Nat \ {0} /\ f = b.stack[z]
    BY <1>4, <1>6 DEF f
  <2> HIDE DEF z
  <2>6. Like(b, c)
    BY <2>3, <2>4, <2>5 DEF Like, z
  <2>7. KeysFirst(c)
    BY <1>5, <1>6, <2>3, <2>4, <2>5 DEF KeysFirst, Tidy, z
  <2>8. Tidy(c, NoLine, v, C)
    BY <1>5, <2>6, <2>7, LikeTidy
  <2>9. ~InSequence(c)
    BY <1>6, <2>3, <2>4 DEF InSequence, f
  <2>10. QED
    BY <1>4, <2>4, <2>8, <2>9 DEF Settled, c
<1>7. CASE ~(b.stack # <<>> /\ ~InSequence(b) /\ ~HasKey(b))
  <2>1. c = PushNode(b2, k)
    BY <1>7 DEF PlaceAlias
  <2> HIDE DEF c, b1
  <2>2. Like(b, b1) /\ KeysFirst(b1)
    BY <1>3, <1>5 DEF Like, KeysFirst, Tidy
  <2>3. Tidy(b1, NoLine, v, C)
    BY <1>5, <2>2, LikeTidy
  <2>4. Tidy(b2, NoLine, v, C)
    BY <1>2, <1>3, <2>3, NewNodeTidy
  <2>5. Sound(b2, t, n + 1)
    BY <1>2, <1>3, NewNodeKeeps
  <2> HIDE DEF b2
  <2>6. k = v /\ k \in 1 .. n + 1
    <3>1. Len(b2.meta) = n + 1
      BY <2>5, FieldTypes
    <3>2. QED
      BY <1>4, <3>1
  <2> HIDE DEF v, k
  <2>7. Tidy(b2, NoLine, k, C)
    BY <2>4, <2>6
  <2>8. Tidy(c, NoLine, Len(c.meta) + 1, C) /\ (InSequence(c) => TopOf(c).before = {})
    BY <2>1, <2>5, <2>6, <2>7, PushNodeTidy
  <2>9. QED
    BY <2>8 DEF Settled, c
<1>8. QED
  BY <1>6, <1>7

\* The item of a sequence takes the comments above it.
HasPreceded(b, c, mark) ==
  /\ TopOnly(b, c) /\ c.before = b.before \ Above(b, mark) /\ c.inline = b.inline
  /\ c.lastLine = mark /\ c.blockEnd = b.blockEnd
  /\ c.stack[Len(b.stack)] = [TopOf(b) EXCEPT !.before = Above(b, mark), !.blanks = CountBlankLines(b, mark)]

LEMMA PrecededIs ==
  ASSUME NEW t, Text(t), NEW n, NEW b, Sound(b, t, n), b.stack # <<>>, NEW mark \in Line(t)
  PROVE  HasPreceded(b, Preceded(b, mark), mark)
<1> DEFINE w == Above(b, mark)
           j == CountBlankLines(b, mark)
           f == TopOf(b)
           g == [f EXCEPT !.before = w, !.blanks = j]
           d == SetTop(b, g)
           v == d.before \ w
           c == [d EXCEPT !.before = v, !.lastLine = mark]
           z == Len(b.stack)
<1>1. w \in SUBSET Line(t) /\ j \in BlankLines /\ f \in FrameType(t, n)
  <2>1. b.before \in SUBSET Line(t)
    BY FieldTypes
  <2>2. w \in SUBSET Line(t)
    BY <2>1 DEF Above
  <2>3. QED
    BY <2>2, CountType, TopIs
<1>2. Preceded(b, mark) = c
  BY DEF Preceded
<1>3. f = b.stack[z]
  BY TopIs
<1> HIDE DEF w, j, f
<1>4. g \in FrameType(t, n) /\ g.kind = f.kind /\ g.node = f.node
  BY <1>1 DEF FrameType
<1> DEFINE g1 == g
<1>5. g1 = g
  OBVIOUS
<1> HIDE DEF g1
<1>6. /\ Sound(d, t, n)
      /\ d.meta = b.meta /\ d.before = b.before /\ d.inline = b.inline /\ d.blockEnd = b.blockEnd
      /\ Len(d.stack) = z /\ d.stack[z] = g
      /\ \A i \in 1 .. z : i # z => d.stack[i] = b.stack[i]
  BY <1>4, NewTop
<1> HIDE DEF d, g
<1>7. /\ c.meta = d.meta /\ c.before = v /\ c.inline = d.inline /\ c.lastLine = mark
      /\ c.blockEnd = d.blockEnd /\ c.stack = d.stack
  BY <1>6 DEF Sound, BuilderType
<1> HIDE DEF c
<1>8. TopOnly(b, c)
  BY <1>3, <1>4, <1>6, <1>7 DEF TopOnly
<1>9. c.before = b.before \ w
  BY <1>6, <1>7
<1>10. QED
  BY <1>2, <1>6, <1>7, <1>8, <1>9 DEF HasPreceded, g, w, j, f

LEMMA PrecededTidy ==
  ASSUME NEW t, Text(t), NEW n, NEW b, Sound(b, t, n), InSequence(b), NEW mark \in Line(t),
         NEW C, Tidy(b, NoLine, n + 1, C)
  PROVE  Tidy(Preceded(b, mark), NoLine, n + 1, C)
<1> DEFINE c == Preceded(b, mark)
           w == Above(b, mark)
           z == Len(b.stack)
           v == n + 1
<1>1. b.stack # <<>>
  BY DEF InSequence
<1>2. HasPreceded(b, c, mark)
  BY <1>1, PrecededIs
<1> HIDE DEF c
<1>3. /\ n \in Nat /\ Len(b.meta) = n /\ z \in Nat \ {0}
      /\ \A i \in 1 .. Len(b.stack) : b.stack[i].node \in 1 .. n
      /\ TopOf(b) = b.stack[z]
  BY <1>1, FrameNodes
<1>4. w \subseteq b.before
  BY DEF Above
<1>5. \A x \in w, y \in b.before \ w : x < y
  <2>1. ASSUME NEW x \in w, NEW y \in b.before \ w PROVE x < y
    <3>1. x < mark /\ y \in b.before /\ ~(y < mark)
      BY <2>1 DEF Above
    <3>2. x \in Int /\ y \in Int /\ mark \in Int
      <4>1. b.before \in SUBSET Line(t) /\ x \in b.before
        BY <1>4, FieldTypes
      <4>2. QED
        BY <3>1, <4>1 DEF Line
    <3>3. QED
      BY <3>1, <3>2
  <2>2. QED
    BY <2>1
<1> HIDE DEF w
<1>6. b.stack[z] \in FrameType(t, n)
  BY <1>1, <1>3, TopIs
<1>7. /\ c.stack[z].before = w /\ c.stack[z].inline = b.stack[z].inline /\ c.stack[z].kind = b.stack[z].kind
  BY <1>2, <1>3, <1>6 DEF HasPreceded, FrameType, w
<1>8. c.before = b.before \ w /\ c.inline = b.inline /\ TopOnly(b, c)
  BY <1>2 DEF HasPreceded, w
<1>9. Once(c, NoLine) /\ Known(c, NoLine, C)
  <2>1. Tidy(b, NoLine, v, C)
    OBVIOUS
  <2> HIDE DEF v
  <2>2. QED
    BY <1>3, <1>4, <1>7, <1>8, <2>1, TakenByItem
<1>10. c.stack[z].kind # "map"
  BY <1>3, <1>7 DEF InSequence
<1>11. /\ \A x \in w, y \in c.before : x < y
       /\ c.before \subseteq b.before /\ TopOnly(b, c)
  BY <1>5, <1>8
<1>12. /\ c.stack[Len(b.stack)].before = w
       /\ (c.stack[Len(b.stack)].kind = "map" /\ c.stack[Len(b.stack)].key = NoKey => w = {})
  BY <1>7, <1>10
<1>13. Len(b.stack) \in Nat \ {0} /\ Tidy(b, NoLine, n + 1, C)
  BY <1>3
<1> HIDE DEF z
<1>14. Tidy(c, NoLine, n + 1, C)
  BY <1>3, <1>4, <1>9, <1>11, <1>12, <1>13, TakenByTop
<1>15. QED
  BY <1>14 DEF c

HasOpened(b, c, own, k, l, f) ==
  /\ Len(c.meta) = Len(b.meta) /\ c.before = b.before \ own /\ c.inline = b.inline
  /\ c.lastLine = b.lastLine /\ c.blockEnd = b.blockEnd
  /\ c.stack = Append(b.stack, f)
  /\ c.meta[k] = [b.meta[k] EXCEPT !.inline = l]
  /\ \A i \in 1 .. Len(b.meta) : i # k => c.meta[i] = b.meta[i]

LEMMA OpenedIs ==
  ASSUME NEW t, NEW n, NEW b, Sound(b, t, n), NEW own, NEW k \in 1 .. n, NEW l \in LineOr(t), NEW f
  PROVE  HasOpened(b, Opened(b, own, k, l, f), own, k, l, f)
<1> DEFINE w == b.before \ own
           m == [b.meta[k] EXCEPT !.inline = l]
           ms == [b.meta EXCEPT ![k] = m]
           s == Append(b.stack, f)
           c == [b EXCEPT !.before = w, !.meta = ms, !.stack = s]
<1>1. b.meta[k] \in NodeType(t) /\ b.meta \in Seq(NodeType(t)) /\ Len(b.meta) = n
  BY FieldTypes
<1>2. m \in NodeType(t)
  BY <1>1, NoneIsNoLine, DescribedType
<1>3. Opened(b, own, k, l, f) = c
  BY DEF Sound, BuilderType, Opened
<1> HIDE DEF m
<1>4. /\ Len(ms) = n /\ ms[k] = m /\ \A i \in 1 .. n : i # k => ms[i] = b.meta[i]
  BY <1>1, <1>2, ExceptSeq
<1> HIDE DEF w, ms, s
<1>5. /\ c.meta = ms /\ c.stack = s /\ c.before = w /\ c.inline = b.inline
      /\ c.lastLine = b.lastLine /\ c.blockEnd = b.blockEnd
  BY DEF Sound, BuilderType
<1> HIDE DEF c
<1>6. QED
  BY <1>1, <1>3, <1>4, <1>5 DEF HasOpened, m, s, w

\* A collection begins.
LEMMA StartSettled ==
  ASSUME NEW t, Text(t), NEW n, NEW b, Sound(b, t, n), NEW C, Settled(b, C),
         NEW kind \in {"map", "seq"}, NEW flow \in BOOLEAN, NEW mark \in Line(t),
         NEW anchor \in t.anchors \cup {None}, NEW props, NEW from \in Line(t)
  PROVE  Settled(StartContainer(b, kind, flow, mark, anchor, props, from), C)
<1> DEFINE b1 == IF b.stack = <<>> /\ props THEN [b EXCEPT !.lastLine = mark] ELSE b
           b2 == IF ~InSequence(b1) THEN b1 ELSE Preceded(b1, mark)
           own == {c \in b2.before : HasKey(b2) /\ c = mark}
           b3 == NewNode(b2, from, mark)
           k == Len(b3.meta)
           l == IF own = {} THEN NoLine ELSE mark
           f == Frame(kind, flow, k, anchor)
           c == Opened(b3, own, k, l, f)
           v == n + 1
<1>0. StartContainer(b, kind, flow, mark, anchor, props, from) = c
  BY Zenon DEF StartContainer, Opened, Preceded
<1>1. /\ mark \in LineOr(t) /\ from \in LineOr(t) /\ n \in Nat /\ Len(b.meta) = n
  BY NoneIsNoLine, FieldTypes
<1>2. Sound(b1, t, n) /\ b1.stack = b.stack /\ b1.meta = b.meta /\ b1.before = b.before /\ b1.inline = b.inline
  <2>1. CASE b.stack = <<>> /\ props
    <3> DEFINE d == [b EXCEPT !.lastLine = mark]
    <3>1. d = With(b, b.before, b.inline, mark, b.blockEnd, b.table)
      BY DEF Sound, BuilderType, With
    <3>2. /\ b.before \in SUBSET Line(t) /\ b.inline \in LineOr(t)
          /\ b.blockEnd \in BOOLEAN /\ b.table \in SUBSET t.anchors
      BY FieldTypes
    <3>3. b1 = d
      BY <2>1
    <3> HIDE DEF d
    <3>4. Sound(d, t, n) /\ d.stack = b.stack /\ d.meta = b.meta /\ d.before = b.before /\ d.inline = b.inline
      BY <1>1, <3>1, <3>2, NewFields
    <3>5. QED
      BY <3>3, <3>4
  <2>2. CASE ~(b.stack = <<>> /\ props)
    <3>1. b1 = b
      BY <2>2
    <3>2. QED
      BY <3>1
  <2>3. QED
    BY <2>1, <2>2
<1>3. Tidy(b, NoLine, v, C)
  BY <1>1 DEF Settled
<1> HIDE DEF b1
<1>4. Tidy(b1, NoLine, v, C)
  <2>1. Like(b, b1) /\ KeysFirst(b1)
    BY <1>2, <1>3 DEF Like, KeysFirst, Tidy
  <2>2. QED
    BY <1>3, <2>1, LikeTidy
<1>5. Sound(b2, t, n) /\ Tidy(b2, NoLine, v, C)
  <2>1. CASE ~InSequence(b1)
    BY <1>2, <1>4, <2>1
  <2>2. CASE InSequence(b1)
    <3> DEFINE d == Preceded(b1, mark)
    <3>1. b1.stack # <<>>
      BY <2>2 DEF InSequence
    <3>2. Sound(d, t, n)
      BY <1>2, <3>1, PrecededKeeps
    <3>3. Tidy(d, NoLine, v, C)
      BY <1>2, <1>4, <2>2, PrecededTidy
    <3>4. b2 = d
      BY <2>2
    <3> HIDE DEF d
    <3>5. QED
      BY <3>2, <3>3, <3>4
  <2>3. QED
    BY <2>1, <2>2
<1> HIDE DEF b2
<1>6. own \subseteq b2.before /\ own \subseteq {mark}
  OBVIOUS
<1> HIDE DEF own
<1>7. l \in LineOr(t) /\ (l = NoLine \/ l \in own)
  BY <1>1, <1>6, NoneIsNoLine
<1> HIDE DEF l
<1>8. Sound(b3, t, n + 1)
  BY <1>1, <1>5, NewNodeKeeps
<1>9. Tidy(b3, NoLine, v, C)
  BY <1>1, <1>5, NewNodeTidy
<1>10. b3.before = b2.before
  <2>1. Apart(b2, b3)
    BY <1>1, <1>5, NewNodeIs
  <2> HIDE DEF b3
  <2>2. QED
    BY <2>1 DEF Apart
<1> HIDE DEF b3
<1>11. Len(b3.meta) = v /\ b3.stack \in Seq(FrameType(t, v)) /\ b3.meta[v] \in NodeType(t)
  <2>1. v \in 1 .. v
    BY <1>1
  <2> HIDE DEF v
  <2>2. Sound(b3, t, v)
    BY <1>8 DEF v
  <2>3. QED
    BY <2>1, <2>2, FieldTypes
<1>12. k = v /\ k \in 1 .. n + 1
  BY <1>1, <1>11
<1> HIDE DEF k
<1>13. f.node = k /\ f.before = {} /\ f.inline = NoLine /\ f \in FrameType(t, v)
  <2>1. f \in FrameType(t, n + 1)
    BY <1>1, <1>12, FrameIs
  <2>2. QED
    BY <2>1 DEF Frame
<1> HIDE DEF f
<1>14. HasOpened(b3, c, own, k, l, f)
  BY <1>7, <1>8, <1>12, OpenedIs
<1> HIDE DEF c
<1>15. /\ Len(c.stack) = Len(b3.stack) + 1 /\ Len(b3.stack) \in Nat
       /\ c.stack[Len(b3.stack) + 1] = f /\ \A i \in 1 .. Len(b3.stack) : c.stack[i] = b3.stack[i]
  BY <1>11, <1>13, <1>14 DEF HasOpened
<1>16. /\ Len(c.meta) = n + 1 /\ c.before = b3.before \ own /\ c.inline = b3.inline
       /\ c.meta[n + 1].before = b3.meta[n + 1].before /\ c.meta[n + 1].inline = l
       /\ \A i \in 1 .. n : c.meta[i] = b3.meta[i]
       /\ c.stack = Append(b3.stack, f)
  <2>1. c.meta[v].before = b3.meta[v].before /\ c.meta[v].inline = l
    BY <1>11, <1>12, <1>14 DEF HasOpened, NodeType
  <2>2. \A i \in 1 .. n : i \in 1 .. Len(b3.meta) /\ i # k
    BY <1>1, <1>11, <1>12
  <2>3. QED
    BY <1>11, <1>14, <2>1, <2>2 DEF HasOpened
<1>17. Tidy(c, NoLine, n + 2, C)
  <2>1. own \subseteq b3.before /\ Len(b3.meta) = n + 1 /\ f.node = n + 1
    BY <1>6, <1>10, <1>11, <1>12, <1>13
  <2>2. Tidy(b3, NoLine, n + 1, C)
    BY <1>9
  <2>3. QED
    BY <1>1, <1>7, <1>13, <1>15, <1>16, <2>1, <2>2, OpenedTidy
<1>18. n + 2 = Len(c.meta) + 1 /\ TopOf(c) = f
  BY <1>1, <1>15, <1>16 DEF TopOf
<1>19. Tidy(c, NoLine, Len(c.meta) + 1, C)
  BY <1>17, <1>18
<1>20. QED
  BY <1>0, <1>13, <1>18, <1>19 DEF Settled

\* The end of a collection, but for the node it completes.
HasClosed(b, d, mark, last, f, n) ==
  /\ Len(d.meta) = n /\ d.before = b.before /\ d.inline = b.inline
  /\ d.lastLine = mark /\ d.blockEnd = ~f.flow
  /\ d.meta[f.node] = [b.meta[f.node] EXCEPT !.trailing = CountBlankLines(b, mark), !.last = last]
  /\ \A i \in 1 .. n : i # f.node => d.meta[i] = b.meta[i]
  /\ Len(d.stack) = Len(b.stack) - 1 /\ \A i \in 1 .. Len(b.stack) - 1 : d.stack[i] = b.stack[i]

LEMMA ClosedIs ==
  ASSUME NEW t, Text(t), NEW n, NEW b, Sound(b, t, n), b.stack # <<>>, NEW mark \in Line(t),
         NEW last \in Line(t), NEW f \in FrameType(t, n)
  PROVE  HasClosed(b, Closed(b, mark, last, f), mark, last, f, n)
<1> DEFINE k == f.node
           j == CountBlankLines(b, mark)
           m == [b.meta[k] EXCEPT !.trailing = j, !.last = last]
           ms == [b.meta EXCEPT ![k] = m]
           s == SubSeq(b.stack, 1, Len(b.stack) - 1)
           e == ~f.flow
           a == b.table \cup Named(f.anchor)
           d == [b EXCEPT !.stack = s, !.meta = ms, !.lastLine = mark, !.blockEnd = e, !.table = a]
<1>1. k \in 1 .. n /\ f.flow \in BOOLEAN
  BY DEF FrameType
<1>2. /\ b.meta[k] \in NodeType(t) /\ b.meta \in Seq(NodeType(t)) /\ Len(b.meta) = n
      /\ b.stack \in Seq(FrameType(t, n))
  BY <1>1, FieldTypes
<1>3. k \in DOMAIN b.meta
  BY <1>1, <1>2
<1>4. Closed(b, mark, last, f) = d
  <2> DEFINE ns == [[b.meta EXCEPT ![k].trailing = j] EXCEPT ![k].last = last]
  <2>1. ns = ms
    <3> HIDE DEF j, k
    <3>1. QED
      BY <1>2, <1>3
  <2> HIDE DEF ms
  <2> DEFINE x == [b EXCEPT !.stack = SubSeq(@, 1, Len(@) - 1),
                            !.meta[k].trailing = j,
                            !.meta[k].last = last,
                            !.lastLine = mark,
                            !.blockEnd = e]
             y == [b EXCEPT !.stack = s, !.meta = ns, !.lastLine = mark, !.blockEnd = e]
  <2>2. Closed(b, mark, last, f) = Registered(x, f.anchor)
    BY DEF Closed
  <2>3. x = y
    <3> DEFINE x1 == [b EXCEPT !.stack = SubSeq(@, 1, Len(@) - 1)]
               x2 == [x1 EXCEPT !.meta[k].trailing = j, !.meta[k].last = last]
    <3>1. x1 = [b EXCEPT !.stack = s]
      BY DEF Sound, BuilderType
    <3>2. x1.meta = b.meta /\ x1 = [x1 EXCEPT !.meta = b.meta]
      BY DEF Sound, BuilderType
    <3>3. x = [x2 EXCEPT !.lastLine = mark, !.blockEnd = e]
      OBVIOUS
    <3> HIDE DEF x1, j, k, e
    <3>4. x2 = [x1 EXCEPT !.meta = ns]
      BY <3>2
    <3>5. x2 = [b EXCEPT !.stack = s, !.meta = ns]
      <4> HIDE DEF x2, ns, s
      <4>1. QED
        BY <3>1, <3>4
    <3> HIDE DEF x2, ns, s
    <3>6. QED
      BY <3>3, <3>5
  <2> HIDE DEF ns
  <2>4. Registered(y, f.anchor)
          = [b EXCEPT !.stack = s, !.meta = ns, !.lastLine = mark, !.blockEnd = e, !.table = a]
    <3> HIDE DEF s, e
    <3>1. QED
      BY DEF Registered, Named, Sound, BuilderType
  <2> HIDE DEF x, y
  <2> HIDE DEF ns
  <2>5. QED
    BY <2>1, <2>2, <2>3, <2>4
<1>5. j \in BlankLines
  BY CountType
<1> HIDE DEF j
<1>6. m \in NodeType(t)
  BY <1>2, <1>5 DEF NodeType
<1> HIDE DEF k, m
<1>7. Len(ms) = n /\ ms[k] = m /\ \A i \in 1 .. n : i # k => ms[i] = b.meta[i]
  BY <1>1, <1>2, <1>6, ExceptSeq
<1>8. Len(s) = Len(b.stack) - 1 /\ \A i \in 1 .. Len(b.stack) - 1 : s[i] = b.stack[i]
  <2> DEFINE l == Len(b.stack) - 1
  <2>1. l \in Nat /\ l \in Int /\ 1 \in Int /\ \A i \in 1 .. l : b.stack[i] \in FrameType(t, n)
    BY <1>2
  <2>2. /\ Len(SubSeq(b.stack, 1, l)) = IF 1 <= l THEN l - 1 + 1 ELSE 0
        /\ \A i \in 1 .. l - 1 + 1 : SubSeq(b.stack, 1, l)[i] = b.stack[1 + i - 1]
    <3> HIDE DEF l
    <3>1. QED
      BY <2>1, SubSeqProperties
  <2>3. QED
    BY <2>1, <2>2
<1> HIDE DEF ms, s, e, a
<1>9. /\ d.meta = ms /\ d.stack = s /\ d.before = b.before /\ d.inline = b.inline
      /\ d.lastLine = mark /\ d.blockEnd = e
  BY DEF Sound, BuilderType
<1> HIDE DEF d
<1>10. QED
  BY <1>4, <1>7, <1>8, <1>9 DEF HasClosed, k, m, j, e

\* A collection ends.
LEMMA EndSettled ==
  ASSUME NEW t, Text(t), NEW n, NEW b, Sound(b, t, n), b.stack # <<>>, NEW C, Settled(b, C),
         NEW mark \in Line(t)
  PROVE  Settled(EndContainer(b, mark), C)
<1> DEFINE f == TopOf(b)
           last == LastLineOf(b, mark)
           d == Closed(b, mark, last, f)
           c == EndContainer(b, mark)
           k == f.node
           v == Len(b.meta) + 1
<1>1. f \in FrameType(t, n) /\ last \in Line(t)
  BY TopIs, LastLineOfType
<1>2. c = PushNode(d, k)
  BY DEF EndContainer, Closed
<1> HIDE DEF f, last
<1>3. Sound(d, t, n) /\ HasClosed(b, d, mark, last, f, n)
  BY <1>1, ClosedKeeps, ClosedIs
<1> HIDE DEF d, c
<1>4. k \in 1 .. n
  BY <1>1 DEF FrameType
<1>5. /\ n \in Nat /\ Len(b.meta) = n /\ Len(b.stack) \in Nat \ {0} /\ b.stack[Len(b.stack)].node = k
  BY FrameNodes DEF f
<1> HIDE DEF k
<1>6. Tidy(b, NoLine, v, C)
  BY DEF Settled
<1> HIDE DEF v
<1>7. \A i \in 1 .. n : d.meta[i].before = b.meta[i].before /\ d.meta[i].inline = b.meta[i].inline
  <2>1. b.meta[k] \in NodeType(t)
    BY <1>4, FieldTypes
  <2>2. d.meta[k].before = b.meta[k].before /\ d.meta[k].inline = b.meta[k].inline
    BY <1>3, <2>1 DEF HasClosed, NodeType, k
  <2>3. QED
    BY <1>3, <2>2 DEF HasClosed, k
<1>8. /\ Len(d.meta) = n /\ d.before = b.before /\ d.inline = b.inline
      /\ Len(d.stack) = Len(b.stack) - 1 /\ \A i \in 1 .. Len(b.stack) - 1 : d.stack[i] = b.stack[i]
  BY <1>3 DEF HasClosed
<1>9. Tidy(d, NoLine, k, C)
  BY <1>4, <1>5, <1>6, <1>7, <1>8, PoppedTidy
<1>10. Tidy(c, NoLine, Len(c.meta) + 1, C) /\ (InSequence(c) => TopOf(c).before = {})
  BY <1>2, <1>3, <1>4, <1>9, PushNodeTidy
<1>11. QED
  BY <1>10 DEF Settled, c

\* A document begins: the comment on its own line is deferred to its first scalar.
LEMMA StartedSettled ==
  ASSUME NEW t, NEW n, NEW b, Sound(b, t, n), NEW C, Settled(b, C), NEW l \in Line(t)
  PROVE  Settled(Started(b, l), C)
<1> DEFINE w == b.before \ (b.before \cap {l})
           i == IF b.before \cap {l} = {} THEN b.inline ELSE l
           c == [b EXCEPT !.hasRoot = FALSE, !.nextMeta = b.docEnds + 1, !.lastLine = l, !.before = w, !.inline = i]
           v == Len(b.meta) + 1
<1>1. Started(b, l) = c
  BY DEF Started
<1>2. w \subseteq b.before /\ (i = b.inline \/ (i \in b.before /\ i \notin w))
  OBVIOUS
<1> HIDE DEF w, i
<1>3. c.meta = b.meta /\ c.stack = b.stack /\ c.before = w /\ c.inline = i
  BY DEF Sound, BuilderType
<1> HIDE DEF c
<1>4. Tidy(b, NoLine, v, C)
  BY DEF Settled
<1>5. \A x, j, k : At(c, NoLine, x, j, k) =>
        \/ At(b, NoLine, x, j, k) /\ (i = b.inline \/ (j # "deferred" /\ (j = "waiting" => x # i)))
        \/ /\ j = "deferred" /\ k = 0 /\ x = i /\ i # b.inline
           /\ At(b, NoLine, x, "waiting", 0)
  BY <1>2, <1>3 DEF At
<1>6. Once(c, NoLine)
  BY <1>4, <1>5 DEF Tidy, Once
<1>7. Known(c, NoLine, C)
  BY <1>4, <1>5 DEF Tidy, Known
<1>8. \A x, r : Over(c, v, x, r) => Over(b, v, x, r)
  BY <1>3 DEF Over, Target
<1>9. Sorted(c, v)
  BY <1>2, <1>3, <1>4, <1>8 DEF Tidy, Sorted
<1>10. KeysFirst(c) /\ v \in 1 .. Len(c.meta) + 1 /\ v = Len(c.meta) + 1
  BY <1>3, <1>4 DEF Tidy, KeysFirst
<1>11. Tidy(c, NoLine, v, C)
  BY <1>6, <1>7, <1>9, <1>10 DEF Tidy
<1>12. InSequence(c) => TopOf(c).before = {}
  BY <1>3 DEF Settled, InSequence, TopOf
<1>13. QED
  BY <1>1, <1>10, <1>11, <1>12 DEF Settled

\* A document ends.
LEMMA EndedSettled ==
  ASSUME NEW t, NEW n, NEW b, Sound(b, t, n), NEW C, Settled(b, C), NEW explicit
  PROVE  Settled(Ended(b, explicit), C)
<1> DEFINE c == Ended(b, explicit)
           v == Len(b.meta) + 1
<1>1. c.meta = b.meta /\ c.stack = b.stack /\ c.before = b.before /\ c.inline = b.inline
  BY DEF Ended, Sound, BuilderType
<1> HIDE DEF c
<1>2. Tidy(b, NoLine, v, C)
  BY DEF Settled
<1>3. Like(b, c) /\ KeysFirst(c) /\ v = Len(c.meta) + 1
  BY <1>1, <1>2 DEF Like, KeysFirst, Tidy
<1>4. Tidy(c, NoLine, v, C)
  BY <1>2, <1>3, LikeTidy
<1>5. InSequence(c) => TopOf(c).before = {}
  BY <1>1 DEF Settled, InSequence, TopOf
<1>6. QED
  BY <1>3, <1>4, <1>5 DEF Settled, c

(***************************************************************************)
(* The comments stay in place at every step.                               *)
(***************************************************************************)
Neat == Settled(builder, src.comments)

\* The comments a call brings are below all that were read before.
Fresh(cs) == \A x \in src.comments, y \in cs : x < y

LEMMA ReadFresh ==
  ASSUME IInv, NEW l \in Lines, NEW r \in Lines, NEW cs \in Comments(l), NEW trail \in Trails(r),
         Readable(l, r, cs, trail)
  PROVE  Fresh(cs \cup trail)
<1>1. src.comments \in SUBSET Lines
  BY TextIs DEF IInv, SrcType
<1>2. Fresh(cs)
  BY DEF Fresh, Readable, Later
<1>3. Fresh(trail)
  <2>1. ASSUME NEW x \in src.comments, NEW y \in trail PROVE x < y
    <3>1. y = r /\ src.peeked = NoLine /\ l <= r
      BY <2>1 DEF Readable
    <3>2. x < l
      BY <3>1 DEF Readable, Later
    <3>3. x \in Int /\ l \in Int /\ r \in Int
      BY <1>1 DEF Lines
    <3>4. QED
      BY <3>1, <3>2, <3>3
  <2>2. QED
    BY <2>1 DEF Fresh
<1>4. QED
  BY <1>2, <1>3 DEF Fresh

LEMMA AbsorbsNeat ==
  ASSUME IInv, Neat, NEW cs \in SUBSET Lines, Fresh(cs)
  PROVE  LET b == Absorb(builder, cs)
         IN  Settled(b, src.comments \cup cs) /\ Sound(b, text, Len(b.meta))
<1> DEFINE n == Len(builder.meta)
<1>1. Sound(builder, text, n) /\ cs \in SUBSET Line(text) /\ src.comments \in SUBSET Lines
  BY TextIs DEF IInv, Good, SrcType
<1>2. (\A x \in src.comments : x \in Int) /\ \A x \in src.comments, y \in cs : x < y
  BY <1>1 DEF Lines, Fresh
<1> HIDE DEF n
<1>3. Settled(Absorb(builder, cs), src.comments \cup cs)
  BY <1>1, <1>2, AbsorbSettled DEF Neat
<1>4. Good(Absorb(builder, cs), text, nest, anchors)
  BY AbsorbsGood
<1>5. QED
  BY <1>3, <1>4 DEF Good

LEMMA ScalarNeat ==
  ASSUME IInv, Neat, NEW cs \in SUBSET Lines, Fresh(cs), src'.comments = src.comments \cup cs,
         NEW form, NEW line \in Lines, NEW end \in Lines, NEW last \in Lines,
         NEW k \in KeyTexts, NEW a, a \in text.anchors \cup {None},
         builder' = PlaceScalar(Absorb(builder, cs), form, line, end, last, k, a, src.at)
  PROVE  Neat'
<1> DEFINE b == Absorb(builder, cs)
           n == Len(b.meta)
           C == src.comments \cup cs
<1>1. Text(text) /\ Lines = Line(text) /\ src.at \in Lines
  BY TextIs
<1>2. /\ InSequence(b) <=> InSequence(builder)
      /\ HasKey(b) <=> HasKey(builder)
      /\ b.stack = <<>> <=> builder.stack = <<>>
  BY AbsorbsGood
<1>3. Settled(b, C) /\ Sound(b, text, n)
  BY AbsorbsNeat
<1> HIDE DEF b
<1>4. Placeable(b, text, line, end, last, src.at, k, a)
  <2>1. k \in Key(text) /\ (builder.stack # <<>> /\ ~InSequence(builder) /\ ~HasKey(builder) => k # NoKey)
    BY KeysAre
  <2>2. QED
    BY <1>1, <1>2, <2>1 DEF Placeable
<1> HIDE DEF C, n
<1>5. Settled(PlaceScalar(b, form, line, end, last, k, a, src.at), C)
  BY <1>1, <1>3, <1>4, ScalarSettled
<1>6. QED
  BY <1>5 DEF Neat, b, C

\* One lemma per action.
LEMMA PlainNeat ==
  ASSUME IInv, Neat, Plain
  PROVE  Neat'
<1>1. PICK l \in Begins, r \in Lines, a \in text.anchors \cup {None}, k \in KeyTexts :
        \E cs \in Comments(l) :
          /\ ReadTo(l, r, cs, {}, l, FALSE)
          /\ builder' = PlaceScalar(Absorb(builder, cs), "plain", l, r, r, k, a, src.at)
  BY DEF Plain
<1>2. PICK cs \in Comments(l) :
          /\ ReadTo(l, r, cs, {}, l, FALSE)
          /\ builder' = PlaceScalar(Absorb(builder, cs), "plain", l, r, r, k, a, src.at)
  BY <1>1
<1>3. l \in Lines /\ cs \in SUBSET Lines /\ {} \in Trails(r)
  BY BeginsAre, CommentsAre DEF Trails
<1>4. Readable(l, r, cs, {}) /\ src'.comments = src.comments \cup (cs \cup {})
  BY <1>2 DEF ReadTo, Advance
<1>5. Fresh(cs \cup {})
  BY <1>3, <1>4, ReadFresh
<1>6. cs \cup {} = cs
  OBVIOUS
<1>7. QED
  BY <1>2, <1>3, <1>4, <1>5, <1>6, ScalarNeat

LEMMA QuotedNeat ==
  ASSUME IInv, Neat, Quoted
  PROVE  Neat'
<1>1. PICK l \in Begins, r \in Lines, a \in text.anchors \cup {None}, k \in KeyTexts :
        \E cs \in Comments(l), trail \in Trails(r) :
          /\ ReadTo(l, r, cs, trail, l, FALSE)
          /\ builder' = PlaceScalar(Absorb(builder, cs \cup trail), "quoted", l, l, r, k, a, src.at)
  BY DEF Quoted
<1>2. PICK cs \in Comments(l), trail \in Trails(r) :
          /\ ReadTo(l, r, cs, trail, l, FALSE)
          /\ builder' = PlaceScalar(Absorb(builder, cs \cup trail), "quoted", l, l, r, k, a, src.at)
  BY <1>1
<1> DEFINE both == cs \cup trail
<1>3. l \in Lines /\ both \in SUBSET Lines
  BY BeginsAre, CommentsAre, TrailsAre
<1>4. Readable(l, r, cs, trail) /\ src'.comments = src.comments \cup both
  BY <1>2 DEF ReadTo, Advance
<1>5. Fresh(both)
  BY <1>3, <1>4, ReadFresh
<1>6. builder' = PlaceScalar(Absorb(builder, both), "quoted", l, l, r, k, a, src.at)
  BY <1>2
<1> HIDE DEF both
<1>7. QED
  BY <1>3, <1>4, <1>5, <1>6, ScalarNeat

LEMMA BlockNeat ==
  ASSUME IInv, Neat, Block
  PROVE  Neat'
<1>1. PICK l \in Begins, end \in Lines, a \in text.anchors \cup {None}, k \in KeyTexts :
        \E cs \in Comments(l), trail \in Trails(l) :
          /\ l < end
          /\ Readable(l, l, cs, trail) /\ Declare(a)
          /\ Advance(end, end, cs \cup trail, l .. end - 1, FALSE, NoLine)
          /\ builder' = PlaceScalar(Absorb(builder, cs \cup trail), "block", l, end, end - 1, k, a, src.at)
  BY Zenon DEF Block
<1>2. PICK cs \in Comments(l), trail \in Trails(l) :
          /\ l < end /\ Readable(l, l, cs, trail)
          /\ Advance(end, end, cs \cup trail, l .. end - 1, FALSE, NoLine)
          /\ builder' = PlaceScalar(Absorb(builder, cs \cup trail), "block", l, end, end - 1, k, a, src.at)
  BY <1>1
<1> DEFINE both == cs \cup trail
           last == end - 1
<1>3. l \in Lines /\ both \in SUBSET Lines
  BY BeginsAre, CommentsAre, TrailsAre
<1>4. Readable(l, l, cs, trail) /\ src'.comments = src.comments \cup both
  BY <1>2 DEF Advance
<1>5. Fresh(both)
  BY <1>3, <1>4, ReadFresh
<1>6. last \in Lines
  <2>1. last \in l .. end - 1
    BY <1>2, <1>3 DEF Lines
  <2>2. QED
    BY <1>3, <2>1, Between
<1>7. builder' = PlaceScalar(Absorb(builder, both), "block", l, end, last, k, a, src.at)
  BY <1>2
<1> HIDE DEF both, last
<1>8. QED
  BY <1>3, <1>4, <1>5, <1>6, <1>7, ScalarNeat

LEMMA EmptyNeat ==
  ASSUME IInv, Neat, Empty
  PROVE  Neat'
<1>1. PICK l \in Lines, a \in text.anchors \cup {None}, k \in KeyTexts :
        \E cs \in Comments(l), trail \in Trails(l), mark \in src.at .. l :
          /\ ReadTo(l, l, cs, trail, mark, ~InFlow)
          /\ builder' = PlaceScalar(Absorb(builder, cs \cup trail), "empty", mark, mark, mark, k, a, src.at)
  BY DEF Empty
<1>2. PICK cs \in Comments(l), trail \in Trails(l), mark \in src.at .. l :
          /\ ReadTo(l, l, cs, trail, mark, ~InFlow)
          /\ builder' = PlaceScalar(Absorb(builder, cs \cup trail), "empty", mark, mark, mark, k, a, src.at)
  BY <1>1
<1> DEFINE both == cs \cup trail
<1>3. both \in SUBSET Lines /\ mark \in Lines
  BY CommentsAre, TrailsAre, Between, TextIs
<1>4. Readable(l, l, cs, trail) /\ src'.comments = src.comments \cup both
  BY <1>2 DEF ReadTo, Advance
<1>5. Fresh(both)
  BY <1>3, <1>4, ReadFresh
<1>6. builder' = PlaceScalar(Absorb(builder, both), "empty", mark, mark, mark, k, a, src.at)
  BY <1>2
<1> HIDE DEF both
<1>7. QED
  BY <1>3, <1>4, <1>5, <1>6, ScalarNeat

LEMMA AliasNeat ==
  ASSUME IInv, Neat, Alias
  PROVE  Neat'
<1>1. PICK l \in Begins, k \in KeyTexts :
        \E cs \in Comments(l) :
          /\ ReadTo(l, l, cs, {}, l, FALSE)
          /\ builder' = PlaceAlias(Absorb(builder, cs), l, k, src.at)
  BY DEF Alias
<1>2. PICK cs \in Comments(l) :
          /\ ReadTo(l, l, cs, {}, l, FALSE)
          /\ builder' = PlaceAlias(Absorb(builder, cs), l, k, src.at)
  BY <1>1
<1>3. l \in Lines /\ cs \in SUBSET Lines /\ {} \in Trails(l) /\ cs \cup {} = cs
  BY BeginsAre, CommentsAre DEF Trails
<1>4. Readable(l, l, cs, {}) /\ src'.comments = src.comments \cup (cs \cup {})
  BY <1>2 DEF ReadTo, Advance
<1>5. Fresh(cs \cup {})
  BY <1>3, <1>4, ReadFresh
<1>6. Fresh(cs)
  BY <1>3, <1>5
<1> DEFINE b == Absorb(builder, cs)
           n == Len(b.meta)
           C == src.comments \cup cs
<1>7. /\ InSequence(b) <=> InSequence(builder)
      /\ HasKey(b) <=> HasKey(builder)
      /\ b.stack = <<>> <=> builder.stack = <<>>
  BY <1>3, AbsorbsGood
<1>8. Settled(b, C) /\ Sound(b, text, n)
  BY <1>3, <1>6, AbsorbsNeat
<1>9. l \in Line(text) /\ src.at \in Line(text) /\ k \in Key(text)
  BY <1>3, TextIs, KeysAre
<1> HIDE DEF b, n, C
<1>10. b.stack # <<>> /\ ~InSequence(b) /\ ~HasKey(b) => k # NoKey
  BY <1>7, KeysAre
<1>11. Settled(PlaceAlias(b, l, k, src.at), C)
  BY <1>8, <1>9, <1>10, AliasSettled
<1>12. QED
  BY <1>2, <1>3, <1>4, <1>11 DEF Neat, b, C

LEMMA StartNeat ==
  ASSUME IInv, Neat, NEW kind \in {"map", "seq"}, Start(kind)
  PROVE  Neat'
<1> DEFINE A(flow, props, l, a, cs, trail, mark) ==
             /\ flow => "flow" \in text.forms
             /\ src.peeked # NoLine => flow
             /\ a # None => props
             /\ trail # {} => flow \/ (kind = "seq" /\ builder.stack # <<>> /\ ~InSequence(builder))
             /\ ReadTo(l, l, cs, trail, mark, ~flow) /\ Declare(a)
             /\ builder' = StartContainer(Absorb(builder, cs \cup trail), kind, flow, mark,
                                          a, props, src.at)
<1>1. \E flow \in BOOLEAN, props \in BOOLEAN, l \in Begins, a \in text.anchors \cup {None} :
      \E cs \in Comments(l), trail \in Trails(l), mark \in Marks(l, flow, props) :
        A(flow, props, l, a, cs, trail, mark)
  BY Zenon DEF Start
<1> HIDE DEF A
<1>2. PICK flow \in BOOLEAN, props \in BOOLEAN, l \in Begins, a \in text.anchors \cup {None} :
      \E cs \in Comments(l), trail \in Trails(l), mark \in Marks(l, flow, props) :
        A(flow, props, l, a, cs, trail, mark)
  BY <1>1
<1>3. PICK cs \in Comments(l), trail \in Trails(l), mark \in Marks(l, flow, props) :
        A(flow, props, l, a, cs, trail, mark)
  BY <1>2
<1> USE DEF A
<1> DEFINE both == cs \cup trail
           b == Absorb(builder, both)
           n == Len(b.meta)
           C == src.comments \cup both
<1>4. l \in Lines /\ both \in SUBSET Lines /\ mark \in Lines
  <2>1. l \in Lines
    BY BeginsAre
  <2>2. QED
    BY <2>1, CommentsAre, TrailsAre, MarksAre
<1>5. Readable(l, l, cs, trail) /\ src'.comments = C
  BY <1>3 DEF ReadTo, Advance
<1>6. Fresh(both)
  BY <1>4, <1>5, ReadFresh
<1>7. builder' = StartContainer(b, kind, flow, mark, a, props, src.at)
  BY <1>3
<1> HIDE DEF both
<1>8. Settled(b, C) /\ Sound(b, text, n)
  BY <1>4, <1>6, AbsorbsNeat
<1>9. Text(text) /\ mark \in Line(text) /\ src.at \in Line(text)
  BY <1>4, TextIs
<1> HIDE DEF b, n, C
<1>10. Settled(StartContainer(b, kind, flow, mark, a, props, src.at), C)
  BY <1>8, <1>9, StartSettled
<1>11. QED
  BY <1>5, <1>7, <1>10 DEF Neat

LEMMA EndNeat ==
  ASSUME IInv, Neat, NEW kind \in {"map", "seq"}, End(kind)
  PROVE  Neat'
<1>1. PICK l \in Ends, pair \in BOOLEAN :
        \E cs \in Comments(l) :
          /\ Readable(l, l, cs, {})
          /\ src'.comments = src.comments \cup cs
          /\ builder' = EndContainer(Absorb(builder, cs), l)
  BY DEF End, Advance
<1>2. PICK cs \in Comments(l) :
          /\ Readable(l, l, cs, {})
          /\ src'.comments = src.comments \cup cs
          /\ builder' = EndContainer(Absorb(builder, cs), l)
  BY <1>1
<1>3. l \in Lines /\ cs \in SUBSET Lines /\ {} \in Trails(l) /\ cs \cup {} = cs
  BY BeginsAre, CommentsAre DEF Trails
<1>4. Fresh(cs \cup {})
  BY <1>2, <1>3, ReadFresh
<1>5. Fresh(cs)
  BY <1>3, <1>4
<1> DEFINE b == Absorb(builder, cs)
           n == Len(b.meta)
           C == src.comments \cup cs
<1>6. Settled(b, C) /\ Sound(b, text, n)
  BY <1>3, <1>5, AbsorbsNeat
<1>7. b.stack # <<>>
  <2>1. Good(builder, text, nest, anchors)
    BY DEF IInv
  <2>2. builder.stack # <<>>
    <3>1. Awaits(nest) /\ nest[Len(nest)] \in {"seq", "key"}
      <4>1. CASE kind = "map"
        <5>1. ES!MappingEnd
          BY <4>1 DEF End
        <5>2. QED
          BY <5>1, AwaitsNodeIs DEF ES!MappingEnd, ES!Outer, ES!Top
      <4>2. CASE kind = "seq"
        <5>1. ES!SequenceEnd
          BY <4>2 DEF End
        <5>2. QED
          BY <5>1, AwaitsNodeIs DEF ES!SequenceEnd, ES!Outer, ES!Top
      <4>3. QED
        BY <4>1, <4>2
    <3>2. Shape(nest) /\ Follows(builder, nest)
      BY <2>1 DEF Good
    <3>3. Len(nest) \in Nat /\ Len(nest) >= 1 /\ nest[1] = "root"
      BY <3>1, <3>2, ShapeTypes, AwaitsIs DEF Awaits
    <3>4. Len(nest) # 1
      BY <3>1, <3>3
    <3>5. Len(builder.stack) = Len(nest) - 1
      BY <3>1, <3>2 DEF Follows, Awaits
    <3>6. Len(builder.stack) # 0
      BY <3>3, <3>4, <3>5
    <3>7. QED
      BY <3>6
  <2>3. QED
    BY <1>3, <2>2, AbsorbsGood
<1>8. Text(text) /\ l \in Line(text)
  BY <1>3, TextIs
<1> HIDE DEF b, n, C
<1>9. Settled(EndContainer(b, l), C)
  BY <1>6, <1>7, <1>8, EndSettled
<1>10. QED
  BY <1>2, <1>9 DEF Neat, b, C

LEMMA DocumentStartNeat ==
  ASSUME IInv, Neat, DocumentStart
  PROVE  Neat'
<1> DEFINE A(explicit, l, r, cs, trail) ==
             /\ Readable(l, r, cs, trail)
             /\ l \notin src.content /\ (src.held => l = src.at)
             /\ ~explicit /\ builder.docEnds > 0 => builder.docsMeta[builder.docEnds].explicit_end
             /\ IF trail = {}
                THEN r = l /\ Advance(l, l, cs, {l}, ~explicit, NoLine)
                ELSE /\ ~explicit /\ {"quoted", "flow", "wrapped"} \cap text.forms # {}
                     /\ r = l \/ "wrapped" \in text.forms
                     /\ Advance(l, l, cs \cup trail, l .. r, TRUE, r)
             /\ LET b == Absorb(builder, cs \cup trail)
                    own == b.before \cap {l}
                IN  builder' = [b EXCEPT !.hasRoot = FALSE, !.nextMeta = b.docEnds + 1,
                                         !.lastLine = l, !.before = @ \ own,
                                         !.inline = IF own = {} THEN @ ELSE l]
<1>1. \E explicit \in BOOLEAN, l \in Lines, r \in Lines :
      \E cs \in Comments(l), trail \in Trails(r) : A(explicit, l, r, cs, trail)
  BY Zenon DEF DocumentStart
<1> HIDE DEF A
<1>2. PICK explicit \in BOOLEAN, l \in Lines, r \in Lines :
        \E cs \in Comments(l), trail \in Trails(r) : A(explicit, l, r, cs, trail)
  BY <1>1
<1>3. PICK cs \in Comments(l), trail \in Trails(r) : A(explicit, l, r, cs, trail)
  BY <1>2
<1> DEFINE both == cs \cup trail
           b == Absorb(builder, both)
           n == Len(b.meta)
           C == src.comments \cup both
<1>4. both \in SUBSET Lines
  BY CommentsAre, TrailsAre
<1>5. Readable(l, r, cs, trail) /\ src'.comments = C
  BY <1>3 DEF A, Advance
<1>6. Fresh(both)
  BY <1>5, ReadFresh
<1>7. builder' = Started(b, l)
  BY <1>3 DEF A, Started
<1> HIDE DEF both
<1>8. Settled(b, C) /\ Sound(b, text, n)
  BY <1>4, <1>6, AbsorbsNeat
<1>9. l \in Line(text)
  BY TextIs
<1> HIDE DEF b, n, C
<1>10. Settled(Started(b, l), C)
  BY <1>8, <1>9, StartedSettled
<1>11. QED
  BY <1>5, <1>7, <1>10 DEF Neat

LEMMA DocumentEndNeat ==
  ASSUME IInv, Neat, DocumentEnd
  PROVE  Neat'
<1> DEFINE A(explicit, l, cs) ==
             /\ Readable(l, l, cs, {})
             /\ Advance(l, l, cs, IF explicit THEN {l} ELSE {}, ~explicit, NoLine)
             /\ LET b == Absorb(builder, cs)
                    n == Len(b.docsMeta)
                    own == [start |-> IF n = 0 THEN 0 ELSE b.docsMeta[n].start,
                            end |-> b.docEnds + 1, explicit_end |-> explicit]
                IN  builder' = [b EXCEPT !.docEnds = @ + 1, !.hasRoot = FALSE,
                                         !.docsMeta = IF n = 0 THEN <<own>> ELSE [@ EXCEPT ![n] = own]]
<1>1. \E explicit \in BOOLEAN, l \in Ends : \E cs \in Comments(l) : A(explicit, l, cs)
  BY Zenon DEF DocumentEnd
<1> HIDE DEF A
<1>2. PICK explicit \in BOOLEAN, l \in Ends : \E cs \in Comments(l) : A(explicit, l, cs)
  BY <1>1
<1>3. PICK cs \in Comments(l) : A(explicit, l, cs)
  BY <1>2
<1>4. l \in Lines /\ cs \in SUBSET Lines /\ {} \in Trails(l) /\ cs \cup {} = cs
  BY BeginsAre, CommentsAre DEF Trails
<1> DEFINE b == Absorb(builder, cs)
           n == Len(b.meta)
           C == src.comments \cup cs
<1>5. Readable(l, l, cs, {}) /\ src'.comments = C
  BY <1>3 DEF A, Advance
<1>6. Fresh(cs \cup {})
  BY <1>4, <1>5, ReadFresh
<1>7. builder' = Ended(b, explicit)
  BY <1>3, Zenon DEF A, Ended
<1>8. Settled(b, C) /\ Sound(b, text, n)
  <2>1. Fresh(cs)
    BY <1>4, <1>6
  <2>2. QED
    BY <1>4, <2>1, AbsorbsNeat
<1> HIDE DEF b, n, C
<1>9. Settled(Ended(b, explicit), C)
  BY <1>8, EndedSettled
<1>10. QED
  BY <1>5, <1>7, <1>9 DEF Neat

LEMMA StreamStartNeat ==
  ASSUME IInv, Neat, StreamStart
  PROVE  Neat'
<1>1. src' = src /\ builder' = Absorb(builder, {})
  BY DEF StreamStart
<1>2. {} \in SUBSET Lines /\ Fresh({}) /\ src.comments \cup {} = src.comments
  BY DEF Fresh
<1>3. Settled(Absorb(builder, {}), src.comments \cup {})
  BY <1>2, AbsorbsNeat
<1>4. QED
  BY <1>1, <1>2, <1>3 DEF Neat

LEMMA StreamEndNeat ==
  ASSUME IInv, Neat, StreamEnd
  PROVE  Neat'
<1>1. PICK l \in Ends : \E cs \in Comments(l) :
        ReadTo(l, l, cs, {}, l, FALSE) /\ builder' = Absorb(builder, cs)
  BY DEF StreamEnd
<1>2. PICK cs \in Comments(l) : ReadTo(l, l, cs, {}, l, FALSE) /\ builder' = Absorb(builder, cs)
  BY <1>1
<1>3. l \in Lines /\ cs \in SUBSET Lines /\ {} \in Trails(l) /\ cs \cup {} = cs
  BY BeginsAre, CommentsAre DEF Trails
<1>4. Readable(l, l, cs, {}) /\ src'.comments = src.comments \cup (cs \cup {})
  BY <1>2 DEF ReadTo, Advance
<1>5. Fresh(cs \cup {})
  BY <1>3, <1>4, ReadFresh
<1>6. Fresh(cs)
  BY <1>3, <1>5
<1>7. Settled(Absorb(builder, cs), src.comments \cup cs)
  BY <1>3, <1>6, AbsorbsNeat
<1>8. QED
  BY <1>2, <1>3, <1>4, <1>7 DEF Neat

LEMMA InitNeat == Init => Neat
<1> SUFFICES ASSUME Init PROVE Neat
  OBVIOUS
<1>1. /\ builder.stack = <<>> /\ builder.meta = <<>> /\ builder.before = {} /\ builder.inline = NoLine
      /\ Len(builder.stack) = 0 /\ Len(builder.meta) = 0
  BY DEF Init
<1>2. \A x, k, i : ~At(builder, NoLine, x, k, i)
  BY <1>1 DEF At
<1>3. \A x, r : ~Over(builder, 1, x, r)
  BY <1>1 DEF Over
<1>4. Once(builder, NoLine) /\ Known(builder, NoLine, src.comments)
  BY <1>2 DEF Once, Known
<1>5. Sorted(builder, 1) /\ KeysFirst(builder)
  BY <1>1, <1>3 DEF Sorted, KeysFirst
<1>6. Tidy(builder, NoLine, 1, src.comments) /\ ~InSequence(builder)
  BY <1>1, <1>4, <1>5 DEF Tidy, InSequence
<1>7. QED
  BY <1>1, <1>6 DEF Neat, Settled

LEMMA NextNeat == IInv /\ Neat /\ [Next]_vars => Neat'
<1> SUFFICES ASSUME IInv, Neat, [Next]_vars PROVE Neat'
  OBVIOUS
<1>1. CASE UNCHANGED vars
  BY <1>1 DEF vars, Neat
<1>2. CASE Next
  <2>1. CASE StreamStart
    BY <2>1, StreamStartNeat
  <2>2. CASE DocumentStart
    BY <2>2, DocumentStartNeat
  <2>3. CASE DocumentEnd
    BY <2>3, DocumentEndNeat
  <2>4. CASE StreamEnd
    BY <2>4, StreamEndNeat
  <2>5. CASE Plain
    BY <2>5, PlainNeat
  <2>6. CASE Quoted
    BY <2>6, QuotedNeat
  <2>7. CASE Block
    BY <2>7, BlockNeat
  <2>8. CASE Empty
    BY <2>8, EmptyNeat
  <2>9. CASE Alias
    BY <2>9, AliasNeat
  <2>10. CASE MappingStart \/ SequenceStart
    BY <2>10, StartNeat DEF MappingStart, SequenceStart
  <2>11. CASE MappingEnd \/ SequenceEnd
    BY <2>11, EndNeat DEF MappingEnd, SequenceEnd
  <2>12. QED
    BY <1>2, <2>1, <2>2, <2>3, <2>4, <2>5, <2>6, <2>7, <2>8, <2>9, <2>10, <2>11 DEF Next
<1>3. QED
  BY <1>1, <1>2

\* A set whose members are all the same has at most one.
LEMMA AtMostOne ==
  ASSUME NEW S, \A x, y \in S : x = y
  PROVE  Cardinality(S) <= 1
<1>1. CASE S = {}
  BY <1>1, FS_EmptySet
<1>2. CASE S # {}
  <2>1. PICK x \in S : TRUE
    BY <1>2
  <2>2. S = {x}
    BY <2>1
  <2>3. QED
    BY <2>2, FS_Singleton
<1>3. QED
  BY <1>1, <1>2

\* The invariant implies the property.
LEMMA NeatComments == IInv /\ Neat => CommentsOnceInOrder
<1> SUFFICES ASSUME IInv, Neat PROVE CommentsOnceInOrder
  OBVIOUS
<1> DEFINE n == Len(builder.meta)
           v == n + 1
<1>1. Sound(builder, text, n) /\ src.comments \in SUBSET Lines
  BY TextIs DEF IInv, Good, SrcType
<1>2. /\ builder.meta \in Seq(NodeType(text)) /\ builder.stack \in Seq(FrameType(text, n))
      /\ n \in Nat
  BY <1>1, FieldTypes
<1>3. Nodes = 1 .. n /\ DOMAIN builder.stack = 1 .. Len(builder.stack)
  BY <1>2 DEF Nodes
<1>4. Tidy(builder, NoLine, v, src.comments)
  BY DEF Neat, Settled
<1>5. ASSUME NEW c \in src.comments PROVE Cardinality(Places(c)) <= 1
  <2>1. c # NoLine
    BY <1>1 DEF Lines, NoLine
  <2>2. ASSUME NEW p \in Places(c)
        PROVE  \E k, i : At(builder, NoLine, c, k, i)
                 /\ p = <<CASE k = "waiting" -> "pending" [] k = "deferred" -> "pending" [] OTHER -> k,
                          CASE k = "waiting" -> "before" [] k = "deferred" -> "inline" [] OTHER -> i>>
    <3>1. CASE p \in {<<"before", m>> : m \in {m \in Nodes : c \in builder.meta[m].before}}
      <4>1. PICK m \in Nodes : c \in builder.meta[m].before /\ p = <<"before", m>>
        BY <3>1
      <4>2. At(builder, NoLine, c, "before", m)
        BY <1>3, <4>1 DEF At
      <4>3. QED
        BY <4>1, <4>2
    <3>2. CASE p \in {<<"inline", m>> : m \in {m \in Nodes : c = builder.meta[m].inline}}
      <4>1. PICK m \in Nodes : c = builder.meta[m].inline /\ p = <<"inline", m>>
        BY <3>2
      <4>2. At(builder, NoLine, c, "inline", m)
        BY <1>3, <2>1, <4>1 DEF At
      <4>3. QED
        BY <4>1, <4>2
    <3>3. CASE p \in {<<"frame", i>> : i \in {j \in DOMAIN builder.stack : c \in builder.stack[j].before}}
      <4>1. PICK m \in DOMAIN builder.stack : c \in builder.stack[m].before /\ p = <<"frame", m>>
        BY <3>3
      <4>2. At(builder, NoLine, c, "frame", m)
        BY <1>3, <4>1 DEF At
      <4>3. QED
        BY <4>1, <4>2
    <3>4. CASE p \in {<<"key", i>> : i \in {j \in DOMAIN builder.stack : c = builder.stack[j].inline}}
      <4>1. PICK m \in DOMAIN builder.stack : c = builder.stack[m].inline /\ p = <<"key", m>>
        BY <3>4
      <4>2. At(builder, NoLine, c, "key", m)
        BY <1>3, <2>1, <4>1 DEF At
      <4>3. QED
        BY <4>1, <4>2
    <3>5. CASE p = <<"pending", "before">> /\ c \in builder.before
      <4>1. At(builder, NoLine, c, "waiting", 0)
        BY <3>5 DEF At
      <4>2. QED
        BY <3>5, <4>1
    <3>6. CASE p = <<"pending", "inline">> /\ c = builder.inline
      <4>1. At(builder, NoLine, c, "deferred", 0)
        BY <2>1, <3>6 DEF At
      <4>2. QED
        BY <3>6, <4>1
    <3>7. QED
      BY <3>1, <3>2, <3>3, <3>4, <3>5, <3>6, Zenon DEF Places
  <2>3. Once(builder, NoLine)
    BY <1>4 DEF Tidy
  <2> DEFINE S == Places(c)
  <2>4. ASSUME NEW p \in S, NEW q \in S PROVE p = q
    <3>1. PICK k, i : At(builder, NoLine, c, k, i)
                 /\ p = <<CASE k = "waiting" -> "pending" [] k = "deferred" -> "pending" [] OTHER -> k,
                          CASE k = "waiting" -> "before" [] k = "deferred" -> "inline" [] OTHER -> i>>
      BY <2>2
    <3>2. PICK l, j : At(builder, NoLine, c, l, j)
                 /\ q = <<CASE l = "waiting" -> "pending" [] l = "deferred" -> "pending" [] OTHER -> l,
                          CASE l = "waiting" -> "before" [] l = "deferred" -> "inline" [] OTHER -> j>>
      BY <2>2
    <3>3. k = l /\ i = j
      BY <2>3, <3>1, <3>2 DEF Once
    <3>4. QED
      BY <3>1, <3>2, <3>3
  <2> HIDE DEF S
  <2>5. Cardinality(S) <= 1
    BY <2>4, AtMostOne
  <2>6. QED
    BY <2>5 DEF S
<1>6. ASSUME NEW i \in Nodes, NEW m \in Nodes, i < m,
             NEW c \in builder.meta[i].before, NEW d \in builder.meta[m].before
      PROVE  c < d
  <2>1. Over(builder, v, c, i) /\ Over(builder, v, d, m)
    BY <1>3 DEF Over
  <2>2. QED
    BY <1>4, <1>6, <2>1 DEF Tidy, Sorted
<1>7. QED
  BY <1>5, <1>6 DEF CommentsOnceInOrder

\* A comment that has been read is in one place, however many nodes, frames and slots it
\* passes, and the comments above nodes are in the order of the nodes.
THEOREM CommentsKeepTheirPlace == Spec => []CommentsOnceInOrder
<1>1. Init => IInv /\ Neat
  BY InitGood, InitNeat
<1>2. IInv /\ Neat /\ [Next]_vars => IInv' /\ Neat'
  BY NextKeeps, NextNeat
<1>3. IInv /\ Neat => CommentsOnceInOrder
  BY NeatComments
<1>4. QED
  BY <1>1, <1>2, <1>3, PTL DEF Spec

(***************************************************************************)
(* Where the blank lines are.  A blank line is recorded above or below a   *)
(* node, or it is kept in the frame of an entry that has begun.            *)
(***************************************************************************)
HasBlank(b, k, i, j) ==
  \/ k = "above" /\ i \in 1 .. Len(b.meta) /\ j \in 1 .. b.meta[i].blanks
  \/ k = "below" /\ i \in 1 .. Len(b.meta) /\ j \in 1 .. b.meta[i].trailing
  \/ k = "frame" /\ i \in 1 .. Len(b.stack) /\ j \in 1 .. b.stack[i].blanks

Kept(b) == {p \in ({"above", "below", "frame"} \X Nat) \X Nat : HasBlank(b, p[1][1], p[1][2], p[2])}

\* From b to c at most j more blank lines are kept.
Pays(b, c, j) ==
  IsFiniteSet(Kept(b)) =>
    IsFiniteSet(Kept(c)) /\ Cardinality(Kept(c)) <= Cardinality(Kept(b)) + j

\* The places of j blank lines that are kept together.
Run(q, j) == {q} \X (1 .. j)

\* The blank lines at one place are as many as are counted there.
LEMMA RunIs ==
  ASSUME NEW q, NEW j \in Nat
  PROVE  IsFiniteSet(Run(q, j)) /\ Cardinality(Run(q, j)) = j
<1> DEFINE Q == {q}
           J == 1 .. j
<1>1. IsFiniteSet(Q) /\ Cardinality(Q) = 1
  BY FS_Singleton
<1>2. IsFiniteSet(J) /\ Cardinality(J) = j
  BY FS_Interval
<1>3. Run(q, j) = Q \X J
  BY DEF Run
<1> HIDE DEF Q, J
<1>4. IsFiniteSet(Q \X J) /\ Cardinality(Q \X J) = 1 * j
  BY <1>1, <1>2, FS_Product
<1>5. 1 * j = j
  OBVIOUS
<1>6. QED
  BY <1>3, <1>4, <1>5

\* A set that gains one run gains that many elements.
LEMMA RunJoins ==
  ASSUME NEW S, IsFiniteSet(S), NEW q, NEW j \in Nat, NEW T, T \subseteq S \cup Run(q, j)
  PROVE  IsFiniteSet(T) /\ Cardinality(T) <= Cardinality(S) + j
<1> DEFINE R == Run(q, j)
<1>1. IsFiniteSet(R) /\ Cardinality(R) = j
  BY RunIs
<1> HIDE DEF R
<1>2. IsFiniteSet(S \cup R) /\ Cardinality(S \cup R) = Cardinality(S) + j - Cardinality(S \cap R)
  BY <1>1, FS_Union
<1>3. Cardinality(S \cap R) \in Nat /\ Cardinality(S) \in Nat
  BY FS_Subset, FS_CardinalityType
<1>4. T \in SUBSET (S \cup R)
  BY DEF R
<1>5. IsFiniteSet(T) /\ Cardinality(T) <= Cardinality(S \cup R)
  BY <1>2, <1>4, FS_Subset
<1>6. Cardinality(T) \in Nat
  BY <1>5, FS_CardinalityType
<1>7. QED
  BY <1>2, <1>3, <1>5, <1>6

\* A run that moves from one place to another adds nothing.
LEMMA RunMoves ==
  ASSUME NEW S, IsFiniteSet(S), NEW p, NEW q, NEW j \in Nat, Run(p, j) \subseteq S,
         NEW T, T \subseteq (S \ Run(p, j)) \cup Run(q, j)
  PROVE  IsFiniteSet(T) /\ Cardinality(T) <= Cardinality(S)
<1> DEFINE R == Run(p, j)
           U == S \ R
<1>1. IsFiniteSet(R) /\ Cardinality(R) = j
  BY RunIs
<1>2. IsFiniteSet(U) /\ Cardinality(U) = Cardinality(S) - Cardinality(S \cap R)
  BY FS_Difference
<1>3. S \cap R = R
  OBVIOUS
<1> HIDE DEF R
<1>4. T \subseteq U \cup Run(q, j)
  BY DEF R
<1> HIDE DEF U
<1>5. IsFiniteSet(T) /\ Cardinality(T) <= Cardinality(U) + j
  BY <1>2, <1>4, RunJoins
<1>6. Cardinality(S) \in Nat /\ Cardinality(T) \in Nat
  BY <1>5, FS_CardinalityType
<1>7. Cardinality(S \cap R) = j
  BY <1>1, <1>3
<1>8. QED
  BY <1>2, <1>5, <1>6, <1>7

\* Blank lines are kept at the same places, and at one more.
LEMMA PaysMore ==
  ASSUME NEW b, NEW c, NEW k \in {"above", "below", "frame"}, NEW i \in Nat, NEW j \in Nat,
         \A l, m, x : HasBlank(c, l, m, x) => HasBlank(b, l, m, x) \/ (l = k /\ m = i /\ x \in 1 .. j)
  PROVE  Pays(b, c, j)
<1> DEFINE q == <<k, i>>
<1>1. Kept(c) \subseteq Kept(b) \cup Run(q, j)
  <2>1. ASSUME NEW p \in Kept(c) PROVE p \in Kept(b) \cup Run(q, j)
    <3>1. /\ p \in ({"above", "below", "frame"} \X Nat) \X Nat
          /\ HasBlank(c, p[1][1], p[1][2], p[2])
      BY DEF Kept
    <3>2. CASE HasBlank(b, p[1][1], p[1][2], p[2])
      BY <3>1, <3>2 DEF Kept
    <3>3. CASE p[1][1] = k /\ p[1][2] = i /\ p[2] \in 1 .. j
      BY <3>1, <3>3 DEF Run
    <3>4. QED
      BY <3>1, <3>2, <3>3
  <2>2. QED
    BY <2>1
<1> HIDE DEF q
<1>2. QED
  BY <1>1, RunJoins DEF Pays

\* Blank lines are kept at the same places.
LEMMA PaysNothing ==
  ASSUME NEW b, NEW c, \A l, m, x : HasBlank(c, l, m, x) => HasBlank(b, l, m, x)
  PROVE  Pays(b, c, 0)
BY PaysMore

\* The blank lines of frame i are handed to node r.
LEMMA PaysNode ==
  ASSUME NEW b, NEW c, NEW i \in 1 .. Len(b.stack), NEW r \in Nat, NEW j \in Nat, j = b.stack[i].blanks,
         Len(b.stack) \in Nat,
         \A l, m, x : HasBlank(c, l, m, x) =>
            \/ HasBlank(b, l, m, x) /\ ~(l = "frame" /\ m = i)
            \/ l = "above" /\ m = r /\ x \in 1 .. j
  PROVE  Pays(b, c, 0)
<1> DEFINE p == <<"frame", i>>
           q == <<"above", r>>
<1>1. Run(p, j) \subseteq Kept(b)
  BY DEF Kept, HasBlank, Run
<1>2. Kept(c) \subseteq (Kept(b) \ Run(p, j)) \cup Run(q, j)
  <2>1. ASSUME NEW u \in Kept(c) PROVE u \in (Kept(b) \ Run(p, j)) \cup Run(q, j)
    <3>1. /\ u \in ({"above", "below", "frame"} \X Nat) \X Nat
          /\ HasBlank(c, u[1][1], u[1][2], u[2])
      BY DEF Kept
    <3>2. CASE HasBlank(b, u[1][1], u[1][2], u[2]) /\ ~(u[1][1] = "frame" /\ u[1][2] = i)
      BY <3>1, <3>2 DEF Kept, Run
    <3>3. CASE u[1][1] = "above" /\ u[1][2] = r /\ u[2] \in 1 .. j
      BY <3>1, <3>3 DEF Run
    <3>4. QED
      BY <3>1, <3>2, <3>3
  <2>2. QED
    BY <2>1
<1> HIDE DEF p, q
<1>3. ASSUME IsFiniteSet(Kept(b)) PROVE IsFiniteSet(Kept(c)) /\ Cardinality(Kept(c)) <= Cardinality(Kept(b))
  <2> DEFINE S == Kept(b)
             T == Kept(c)
  <2>1. IsFiniteSet(S) /\ Run(p, j) \subseteq S /\ T \subseteq (S \ Run(p, j)) \cup Run(q, j)
    BY <1>1, <1>2, <1>3
  <2> HIDE DEF S, T
  <2>2. IsFiniteSet(T) /\ Cardinality(T) <= Cardinality(S)
    BY <2>1, RunMoves
  <2>3. QED
    BY <2>2 DEF S, T
<1>4. IsFiniteSet(Kept(b)) => Cardinality(Kept(b)) \in Nat
  BY FS_CardinalityType
<1>5. QED
  BY <1>3, <1>4 DEF Pays

LEMMA PaysBoth ==
  ASSUME NEW b, NEW c, NEW d, NEW i \in Nat, NEW j \in Nat, Pays(b, c, i), Pays(c, d, j)
  PROVE  Pays(b, d, i + j)
<1>1. ASSUME IsFiniteSet(Kept(b))
      PROVE  IsFiniteSet(Kept(d)) /\ Cardinality(Kept(d)) <= Cardinality(Kept(b)) + (i + j)
  <2>1. IsFiniteSet(Kept(c)) /\ Cardinality(Kept(c)) <= Cardinality(Kept(b)) + i
    BY <1>1 DEF Pays
  <2>2. IsFiniteSet(Kept(d)) /\ Cardinality(Kept(d)) <= Cardinality(Kept(c)) + j
    BY <2>1 DEF Pays
  <2>3. Cardinality(Kept(b)) \in Nat /\ Cardinality(Kept(c)) \in Nat /\ Cardinality(Kept(d)) \in Nat
    BY <1>1, <2>1, <2>2, FS_CardinalityType
  <2>4. QED
    BY <2>1, <2>2, <2>3
<1>2. QED
  BY <1>1 DEF Pays

(***************************************************************************)
(* The lines of the source that hold something, and those that do not.     *)
(***************************************************************************)
Full(s) == s.comments \cup s.content

Gap(p, line, s) == ((p + 1) .. (line - 1)) \ Full(s)

\* The blank lines behind the builder.
Free(p, s) == {i \in 1 .. p : i < s.at /\ i \notin Full(s)}

\* What is counted between the last line read and `line' are blank lines, if every
\* comment between them waits to be placed.
LEMMA CountIsReal ==
  ASSUME NEW t, Text(t), NEW n, NEW b, Sound(b, t, n), NEW line \in Line(t), NEW s,
         \A x \in Full(s) : b.lastLine < x /\ x < line => x \in b.before
  PROVE  /\ CountBlankLines(b, line) \in Nat
         /\ CountBlankLines(b, line) <= Cardinality(Gap(b.lastLine, line, s))
<1> DEFINE p == b.lastLine
           I == (p + 1) .. (line - 1)
           A == Above(b, line)
           H == I \cap Full(s)
           G == Gap(p, line, s)
<1>1. CountBlankLines(b, line) \in Nat
  BY CountType
<1>2. p \in Nat /\ line \in Nat /\ b.before \in SUBSET Line(t) /\ t.lines \in Nat
  <2>1. b.before \in SUBSET Line(t) /\ p \in LineOr(t)
    BY FieldTypes
  <2>2. t.lines \in Nat
    BY DEF Text
  <2>3. QED
    BY <2>1, <2>2 DEF LineOr, Line, NoLine
<1>3. CountBlankLines(b, line) = IF p = NoLine \/ line <= p + 1 \/ line - p - 1 <= Cardinality(A)
                                 THEN 0 ELSE Min({BlankLimit, line - p - 1 - Cardinality(A)})
  BY DEF CountBlankLines
<1>4. IsFiniteSet(A) /\ Cardinality(A) \in Nat
  <2>1. IsFiniteSet(Line(t))
    BY <1>2, FS_Interval DEF Line
  <2>2. A \in SUBSET Line(t)
    BY <1>2 DEF Above
  <2> HIDE DEF A
  <2>3. QED
    BY <2>1, <2>2, FS_Subset, FS_CardinalityType
<1>5. IsFiniteSet(I) /\ (line > p + 1 => Cardinality(I) = line - p - 1)
  <2>1. p + 1 \in Int /\ line - 1 \in Int
    BY <1>2
  <2>2. /\ IsFiniteSet(I)
        /\ Cardinality(I) = IF p + 1 > line - 1 THEN 0 ELSE (line - 1) - (p + 1) + 1
    BY <2>1, FS_Interval
  <2> HIDE DEF I
  <2>3. QED
    BY <1>2, <2>2
<1>6. H \in SUBSET A
  BY <1>2 DEF Above
<1>7. G = I \ Full(s)
  BY DEF Gap
<1> HIDE DEF p, I, A
<1>8. IsFiniteSet(G) /\ Cardinality(G) = Cardinality(I) - Cardinality(H)
  BY <1>5, <1>7, FS_Difference
<1> HIDE DEF H, G
<1>9. Cardinality(H) <= Cardinality(A) /\ Cardinality(H) \in Nat /\ Cardinality(G) \in Nat
  BY <1>4, <1>6, <1>8, FS_Subset, FS_CardinalityType
<1>10. CountBlankLines(b, line) <= Cardinality(G)
  <2> DEFINE k == line - p - 1 - Cardinality(A)
             counts == ~(p = NoLine \/ line <= p + 1 \/ line - p - 1 <= Cardinality(A))
  <2>1. counts => k \in Nat /\ k <= Cardinality(G)
    BY <1>2, <1>4, <1>5, <1>8, <1>9
  <2>2. CountBlankLines(b, line) = IF ~counts THEN 0 ELSE Min({BlankLimit, k})
    BY <1>3
  <2> HIDE DEF k, counts
  <2>3. counts => Min({BlankLimit, k}) \in BlankLines /\ Min({BlankLimit, k}) <= k
    BY <2>1, Clamped
  <2> DEFINE q == Min({BlankLimit, k})
  <2> HIDE DEF q
  <2>4. counts => q \in Nat /\ q <= Cardinality(G)
    <3>1. counts => q \in Nat /\ q <= k /\ k \in Nat /\ k <= Cardinality(G)
      BY <2>1, <2>3, BlanksAre DEF q
    <3>2. QED
      BY <1>9, <3>1
  <2>5. CountBlankLines(b, line) = IF ~counts THEN 0 ELSE q
    BY <2>2 DEF q
  <2>6. QED
    BY <1>9, <2>4, <2>5
<1>11. QED
  BY <1>1, <1>10 DEF G, p

\* If no comment waits, all lines between are counted.
LEMMA CountIsGap ==
  ASSUME NEW t, Text(t), NEW n, NEW b, Sound(b, t, n), NEW line \in Line(t), b.before = {}, b.lastLine # NoLine
  PROVE  CountBlankLines(b, line)
           = IF line <= b.lastLine + 1 THEN 0 ELSE Min({BlankLimit, line - b.lastLine - 1})
<1>1. Above(b, line) = {} /\ Cardinality({}) = 0
  BY FS_EmptySet DEF Above
<1>2. b.lastLine \in Nat /\ line \in Nat
  <2>1. b.lastLine \in LineOr(t)
    BY FieldTypes
  <2>2. t.lines \in Nat
    BY DEF Text
  <2>3. QED
    BY <2>1, <2>2 DEF LineOr, Line, NoLine
<1>3. QED
  BY <1>1, <1>2 DEF CountBlankLines

Funded(b, s) == IsFiniteSet(Kept(b)) /\ Cardinality(Kept(b)) <= Cardinality(Free(b.lastLine, s))

\* What is paid comes out of the gap before `line'.
LEMMA Balanced ==
  ASSUME NEW b, NEW c, NEW s, NEW u, NEW j \in Nat, Pays(b, c, j), Funded(b, s),
         b.lastLine \in Nat, c.lastLine \in Nat, s.at \in Nat, u.at \in Nat, NEW line \in Nat,
         b.lastLine <= c.lastLine, s.at <= u.at, line <= u.at, line <= c.lastLine + 1,
         \A x \in Full(u) : x \in Full(s) \/ s.at <= x,
         j <= Cardinality(Gap(b.lastLine, line, u))
  PROVE  Funded(c, u)
<1> DEFINE p == b.lastLine
           F == Free(p, s)
           G == Gap(p, line, u)
           H == Free(c.lastLine, u)
           K == Kept(b)
           L == Kept(c)
<1>1. IsFiniteSet(K) /\ Cardinality(K) <= Cardinality(F) /\ IsFiniteSet(L) /\ Cardinality(L) <= Cardinality(K) + j
  BY DEF Funded, Pays
<1>2. IsFiniteSet(F) /\ IsFiniteSet(G) /\ IsFiniteSet(H)
  <2>1. IsFiniteSet(1 .. p) /\ IsFiniteSet((p + 1) .. (line - 1)) /\ IsFiniteSet(1 .. c.lastLine)
    <3>1. p + 1 \in Int /\ line - 1 \in Int /\ 1 \in Int /\ p \in Int /\ c.lastLine \in Int
      OBVIOUS
    <3> HIDE DEF p
    <3>2. QED
      BY <3>1, FS_Interval
  <2>2. F \in SUBSET (1 .. p) /\ G \in SUBSET ((p + 1) .. (line - 1)) /\ H \in SUBSET (1 .. c.lastLine)
    BY DEF Free, Gap
  <2> HIDE DEF F, G, H
  <2>3. QED
    BY <2>1, <2>2, FS_Subset
<1>3. F \cap G = {}
  BY DEF Free, Gap
<1>4. F \cup G \in SUBSET H
  BY DEF Free, Gap
<1>5. j <= Cardinality(G)
  OBVIOUS
<1> HIDE DEF F, G, H, K, L, p
<1>6. Cardinality(F \cup G) = Cardinality(F) + Cardinality(G)
  <2>1. Cardinality(F \cup G) = Cardinality(F) + Cardinality(G) - Cardinality(F \cap G)
    BY <1>2, FS_Union
  <2>2. Cardinality(F \cap G) = 0
    BY <1>3, FS_EmptySet
  <2>3. Cardinality(F) \in Nat /\ Cardinality(G) \in Nat
    BY <1>2, FS_CardinalityType
  <2>4. QED
    BY <2>1, <2>2, <2>3
<1>7. Cardinality(F \cup G) <= Cardinality(H)
  BY <1>2, <1>4, FS_Subset
<1>8. /\ Cardinality(F) \in Nat /\ Cardinality(G) \in Nat /\ Cardinality(H) \in Nat
      /\ Cardinality(K) \in Nat /\ Cardinality(L) \in Nat
  BY <1>1, <1>2, FS_CardinalityType
<1>9. IsFiniteSet(L) /\ Cardinality(L) <= Cardinality(H)
  BY <1>1, <1>5, <1>6, <1>7, <1>8
<1>10. QED
  BY <1>9 DEF Funded, H, L

(***************************************************************************)
(* What each operation keeps, and how far it moves the builder.            *)
(***************************************************************************)
\* In block context, and no key is a collection or an alias.
Blocks(b) ==
  \A i \in 1 .. Len(b.stack) :
    ~b.stack[i].flow /\ (i < Len(b.stack) /\ b.stack[i].kind = "map" => b.stack[i].key # NoKey)

\* Comments are absorbed: nothing else that matters here changes.
Absorbed(b, c, cs) ==
  /\ Len(c.meta) = Len(b.meta) /\ Len(c.stack) = Len(b.stack)
  /\ \A i \in 1 .. Len(b.meta) : c.meta[i].blanks = b.meta[i].blanks /\ c.meta[i].trailing = b.meta[i].trailing
  /\ \A i \in 1 .. Len(b.stack) :
       /\ c.stack[i].kind = b.stack[i].kind /\ c.stack[i].key = b.stack[i].key
       /\ c.stack[i].blanks = b.stack[i].blanks /\ c.stack[i].flow = b.stack[i].flow
  /\ c.lastLine = b.lastLine /\ b.before \subseteq c.before /\ c.before \subseteq b.before \cup cs
  /\ \A x \in cs : x \in c.before \/ x = b.lastLine

LEMMA AbsorbIs ==
  ASSUME NEW t, NEW n, NEW b, Sound(b, t, n), NEW C, Settled(b, C), NEW cs \in SUBSET Line(t),
         \A x \in C, y \in cs : x < y, \A x \in C : x \in Int
  PROVE  Absorbed(b, Absorb(b, cs), cs)
<1> DEFINE own == {c \in cs : ~b.blockEnd /\ c = b.lastLine}
           w == cs \ own
           d == IF own = {} THEN b ELSE AttachInline(b, b.lastLine)
           c == [d EXCEPT !.before = d.before \cup w, !.blockEnd = FALSE]
           v == Len(b.meta) + 1
           D == C \cup own
<1>1. Absorb(b, cs) = c
  BY DEF Absorb
<1>2. own \subseteq cs /\ own \subseteq {b.lastLine} /\ (\A x \in cs : x \notin C) /\ b.lastLine \in LineOr(t)
  <2>1. \A x \in cs : x \notin C
    <3>1. ASSUME NEW x \in cs, x \in C PROVE FALSE
      <4>1. x < x /\ x \in Int
        BY <3>1
      <4>2. QED
        BY <4>1
    <3>2. QED
      BY <3>1
  <2>2. QED
    BY <2>1, FieldTypes
<1>3. InlineOnly(b, d) /\ Sound(d, t, n)
  <2>1. CASE own = {}
    BY <2>1 DEF InlineOnly
  <2>2. CASE own # {}
    <3>1. b.lastLine \in cs /\ D = C \cup {b.lastLine} /\ d = AttachInline(b, b.lastLine)
      BY <1>2, <2>2
    <3> HIDE DEF d, D, own, v
    <3>2. Tidy(b, b.lastLine, v, D)
      BY <1>2, <3>1, TidyFresh DEF Settled, v
    <3>3. QED
      BY <1>2, <3>1, <3>2, AttachInlineTidy, AttachInlineKeeps
  <2>3. QED
    BY <2>1, <2>2
<1>4. \A x \in cs : x \in w \/ x = b.lastLine
  BY <1>2
<1>5. w \subseteq cs
  OBVIOUS
<1> HIDE DEF d, w
<1>6. c.meta = d.meta /\ c.stack = d.stack /\ c.before = d.before \cup w /\ c.lastLine = d.lastLine
  BY <1>3 DEF Sound, BuilderType
<1> HIDE DEF c
<1>7. QED
  BY <1>1, <1>3, <1>4, <1>5, <1>6 DEF Absorbed, InlineOnly

\* The same blank lines are kept, in the same context.
LEMMA AbsorbedSame ==
  ASSUME NEW t, NEW n, NEW b, Sound(b, t, n), NEW c, Sound(c, t, n), NEW cs, Absorbed(b, c, cs)
  PROVE  /\ Kept(c) = Kept(b) /\ (Blocks(b) => Blocks(c))
         /\ HasKey(c) <=> HasKey(b)
         /\ InSequence(c) <=> InSequence(b)
         /\ AwaitsKey(c) <=> AwaitsKey(b)
         /\ c.stack = <<>> <=> b.stack = <<>>
<1>1. Kept(c) = Kept(b)
  <2>1. \A k, i, j : HasBlank(c, k, i, j) <=> HasBlank(b, k, i, j)
    BY DEF HasBlank, Absorbed
  <2>2. QED
    BY <2>1 DEF Kept
<1>2. Blocks(b) => Blocks(c)
  BY DEF Blocks, Absorbed
<1>3. c.stack = <<>> <=> b.stack = <<>>
  BY StackLen DEF Absorbed
<1>4. b.stack # <<>> => TopOf(c).kind = TopOf(b).kind /\ TopOf(c).key = TopOf(b).key
  BY TopIs DEF Absorbed, TopOf
<1>5. QED
  BY <1>1, <1>2, <1>3, <1>4 DEF HasKey, InSequence, AwaitsKey

\* push_node hands the blank lines of the frame on top to the node.
LEMMA PushNodePays ==
  ASSUME NEW t, NEW n, NEW b, Sound(b, t, n), NEW k \in 1 .. n, Blocks(b)
  PROVE  LET c == PushNode(b, k)
         IN  /\ Pays(b, c, 0) /\ Blocks(c) /\ c.lastLine = b.lastLine /\ c.before = b.before
             /\ ~AwaitsKey(b) => ~HasKey(c)
             /\ Len(c.stack) = Len(b.stack)
<1> DEFINE c == PushNode(b, k)
           z == Len(b.stack)
<1>1. Pushed(b, c, k, n) /\ Sound(c, t, n)
  BY PushNodeIs, PushNodeKeeps
<1> HIDE DEF c
<1>2. n \in Nat /\ Len(b.meta) = n /\ Len(c.meta) = n /\ z \in Nat /\ Len(c.stack) = z
  BY <1>1, FrameNodes DEF Pushed
<1>3. c.lastLine = b.lastLine /\ c.before = b.before
  BY <1>1 DEF Pushed, Apart
<1>4. b.stack = <<>> <=> z = 0
  BY <1>2, StackLen
<1>5. /\ \A i \in 1 .. n : i # k => c.meta[i] = b.meta[i]
      /\ \A i \in 1 .. z : i # z => c.stack[i] = b.stack[i]
  BY <1>1 DEF Pushed
<1>6. CASE b.stack = <<>>
  <2>1. c.meta[k] = b.meta[k]
    BY <1>1, <1>6 DEF Pushed
  <2>2. \A l, m, x : HasBlank(c, l, m, x) => HasBlank(b, l, m, x)
    BY <1>2, <1>4, <1>5, <1>6, <2>1 DEF HasBlank
  <2>3. c.stack = <<>>
    BY <1>1, <1>2, <1>4, <1>6, StackLen
  <2>4. QED
    BY <1>2, <1>3, <1>4, <1>6, <2>2, <2>3, PaysNothing DEF c, Blocks, HasKey
<1>7. CASE b.stack # <<>> /\ AwaitsKey(b)
  <2>1. /\ c.meta[k] = b.meta[k]
        /\ TopOf(c) = [TopOf(b) EXCEPT !.key = ComplexKey, !.from = b.meta[k].first]
    BY <1>1, <1>7 DEF Pushed
  <2>2. TopOf(b) \in FrameType(t, n) /\ TopOf(b) = b.stack[z] /\ TopOf(c) = c.stack[z]
    BY <1>2, <1>7, TopIs DEF TopOf
  <2>3. c.stack[z].blanks = b.stack[z].blanks /\ c.stack[z].flow = b.stack[z].flow
        /\ c.stack[z].kind = b.stack[z].kind
    BY <2>1, <2>2 DEF FrameType
  <2>4. \A l, m, x : HasBlank(c, l, m, x) => HasBlank(b, l, m, x)
    BY <1>2, <1>5, <2>1, <2>3 DEF HasBlank
  <2>5. Blocks(c)
    BY <1>2, <1>5, <2>3 DEF Blocks
  <2>6. QED
    BY <1>2, <1>3, <1>7, <2>4, <2>5, PaysNothing DEF c
<1>8. CASE b.stack # <<>> /\ ~AwaitsKey(b)
  <2> DEFINE f == TopOf(b)
             s == Insert(f.entries, f.key, k)
             g == Emptied(f, s)
             m == Attached(b.meta[k], f)
  <2>1. c.meta[k] = m /\ TopOf(c) = g
    BY <1>1, <1>8 DEF Pushed
  <2>2. f \in FrameType(t, n) /\ f = b.stack[z] /\ TopOf(c) = c.stack[z] /\ z \in 1 .. z
    BY <1>2, <1>8, TopIs DEF TopOf
  <2>3. f.blanks \in Nat
    BY <2>2, BlanksAre DEF FrameType
  <2> HIDE DEF f, s
  <2>4. g.blanks = 0 /\ g.flow = f.flow /\ g.kind = f.kind /\ g.key = NoKey
    BY <2>2, EmptiedIs
  <2>5. b.meta[k] \in NodeType(t)
    BY FieldTypes
  <2>6. m.blanks = (IF f.blanks > 0 THEN f.blanks ELSE b.meta[k].blanks) /\ m.trailing = b.meta[k].trailing
    BY <2>5, AttachedIs
  <2> HIDE DEF g, m
  <2>7. \A l, i, x : HasBlank(c, l, i, x) =>
          \/ HasBlank(b, l, i, x) /\ ~(l = "frame" /\ i = z)
          \/ l = "above" /\ i = k /\ x \in 1 .. f.blanks
    <3>1. ASSUME NEW i, NEW x, HasBlank(c, "above", i, x)
          PROVE  HasBlank(b, "above", i, x) \/ (i = k /\ x \in 1 .. f.blanks)
      BY <1>2, <1>5, <2>1, <2>3, <2>6, <3>1 DEF HasBlank
    <3>2. ASSUME NEW i, NEW x, HasBlank(c, "below", i, x) PROVE HasBlank(b, "below", i, x)
      BY <1>2, <1>5, <2>1, <2>6, <3>2 DEF HasBlank
    <3>3. ASSUME NEW i, NEW x, HasBlank(c, "frame", i, x) PROVE HasBlank(b, "frame", i, x) /\ i # z
      BY <1>2, <1>5, <2>1, <2>2, <2>4, <3>3 DEF HasBlank
    <3>4. QED
      BY <3>1, <3>2, <3>3 DEF HasBlank
  <2>8. Pays(b, c, 0)
    <3>1. k \in Nat /\ f.blanks = b.stack[z].blanks
      BY <1>2, <2>2
    <3>2. QED
      BY <1>2, <2>2, <2>3, <2>7, <3>1, PaysNode
  <2>9. Blocks(c) /\ ~HasKey(c)
    BY <1>2, <1>5, <2>1, <2>2, <2>4 DEF Blocks, HasKey
  <2>10. QED
    BY <1>2, <1>3, <2>8, <2>9 DEF c
<1>9. QED
  BY <1>6, <1>7, <1>8

LEMMA PaysMoreStill ==
  ASSUME NEW b, NEW c, NEW j \in Nat, Pays(b, c, 0 + 0)
  PROVE  Pays(b, c, j)
<1>1. IsFiniteSet(Kept(b)) => Cardinality(Kept(b)) \in Nat
  BY FS_CardinalityType
<1>2. IsFiniteSet(Kept(c)) => Cardinality(Kept(c)) \in Nat
  BY FS_CardinalityType
<1>3. QED
  BY <1>1, <1>2 DEF Pays

\* A new node has no blank lines yet.
LEMMA NewNodePays ==
  ASSUME NEW t, NEW n, NEW b, Sound(b, t, n), NEW from \in LineOr(t), NEW last \in Line(t)
  PROVE  LET c == NewNode(b, from, last)
         IN  /\ Pays(b, c, 0) /\ c.lastLine = b.lastLine /\ c.before = b.before
             /\ c.stack = b.stack /\ c.meta[n + 1].blanks = 0 /\ c.meta[n + 1].trailing = 0
<1> DEFINE c == NewNode(b, from, last)
<1>1. /\ c.stack = b.stack /\ Apart(b, c) /\ Len(c.meta) = n + 1
      /\ c.meta[n + 1] = Node(Outset(b, from), last)
      /\ \A i \in 1 .. n : c.meta[i] = b.meta[i]
  BY NewNodeIs
<1> HIDE DEF c
<1>2. n \in Nat /\ Len(b.meta) = n
  BY FrameNodes
<1>3. c.meta[n + 1].blanks = 0 /\ c.meta[n + 1].trailing = 0
  BY <1>1, NodeIs
<1>4. \A l, m, x : HasBlank(c, l, m, x) => HasBlank(b, l, m, x)
  BY <1>1, <1>2, <1>3 DEF HasBlank
<1>5. QED
  BY <1>1, <1>3, <1>4, PaysNothing DEF Apart, c

\* The frame on top changes: blank lines that it holds are kept there.
LEMMA TopPays ==
  ASSUME NEW t, NEW n, NEW b, Sound(b, t, n), b.stack # <<>>, NEW g \in FrameType(t, n), NEW j \in Nat,
         g.blanks = j \/ g.blanks = TopOf(b).blanks, g.flow = TopOf(b).flow, Blocks(b)
  PROVE  LET c == SetTop(b, g)
         IN  Pays(b, c, j) /\ Blocks(c) /\ c.lastLine = b.lastLine /\ c.before = b.before
<1> DEFINE c == SetTop(b, g)
           z == Len(b.stack)
<1>1. /\ c.meta = b.meta /\ c.lastLine = b.lastLine /\ c.before = b.before
      /\ Len(c.stack) = z /\ c.stack[z] = g
      /\ \A i \in 1 .. z : i # z => c.stack[i] = b.stack[i]
  BY NewTop
<1> HIDE DEF c
<1>2. z \in Nat \ {0} /\ TopOf(b) = b.stack[z]
  BY FrameNodes
<1>3. \A l, m, x : HasBlank(c, l, m, x) => HasBlank(b, l, m, x) \/ (l = "frame" /\ m = z /\ x \in 1 .. j)
  BY <1>1, <1>2 DEF HasBlank
<1>4. Pays(b, c, j)
  BY <1>2, <1>3, PaysMore
<1>5. Blocks(c)
  BY <1>1, <1>2 DEF Blocks
<1>6. QED
  BY <1>1, <1>4, <1>5 DEF c

\* What a scalar does: it reads to its last line, takes the comments above it or on
\* its line, and records no more blank lines than lie above it.
Reads(b, c, form, line, end) ==
  /\ c.lastLine = LastLineRead(form, line, end)
  /\ c.before \subseteq b.before
  /\ Pays(b, c, Blanks(b, form, line))
  /\ Blocks(c)
  /\ HasKey(c) => AwaitsKey(b)
  /\ InSequence(b) => LET n == Len(c.meta) IN c.meta[n].blanks = Blanks(b, form, line)

LEMMA ScalarReads ==
  ASSUME NEW t, Text(t), NEW n, NEW b, Sound(b, t, n), Blocks(b),
         NEW form, NEW line, NEW end, NEW last,
         NEW from, NEW key, NEW anchor, Placeable(b, t, line, end, last, from, key, anchor)
  PROVE  Reads(b, PlaceScalar(b, form, line, end, last, key, anchor, from), form, line, end)
<1> DEFINE claimed == Claimed(b, line)
           own == OwnLine(b, form, line, end)
           both == claimed \cup own
           l == Deferred(b, form, line, end)
           blanks == Blanks(b, form, line)
           p == LastLineRead(form, line, end)
           b1 == Read(b, both, p, anchor)
           b2 == NewNode(b1, from, last)
           k == Len(b2.meta)
           item == Described(b2, k, claimed, l)
           c == Placed(b, b1, form, line, end, last, key, from)
<1>0. /\ line \in Line(t) /\ end \in Line(t) /\ last \in Line(t) /\ from \in Line(t)
      /\ key \in Key(t) /\ anchor \in t.anchors \cup {None} /\ from \in LineOr(t)
      /\ (b.stack # <<>> /\ ~InSequence(b) /\ ~HasKey(b)) => key # NoKey
  BY NoneIsNoLine DEF Placeable
<1>1. PlaceScalar(b, form, line, end, last, key, anchor, from) = c
  BY PlaceScalarIs
<1>2. claimed \in SUBSET Line(t) /\ l \in LineOr(t) /\ blanks \in BlankLines /\ blanks \in Nat /\ p \in LineOr(t)
  BY <1>0, PartTypes, LastLineReadType
<1> HIDE DEF p, blanks, both
<1>3. /\ Sound(b1, t, n) /\ b1.stack = b.stack /\ b1.meta = b.meta
      /\ b1.before = b.before \ both /\ b1.lastLine = p
  <2>1. Sound(b1, t, n) /\ HasRead(b, b1, both, p)
    BY <1>0, <1>2, ReadIs
  <2> HIDE DEF b1
  <2>2. QED
    BY <2>1 DEF HasRead
<1> HIDE DEF b1
<1>4. Pays(b, b1, 0) /\ Blocks(b1)
  <2>1. \A i, m, x : HasBlank(b1, i, m, x) => HasBlank(b, i, m, x)
    BY <1>3 DEF HasBlank
  <2>2. QED
    BY <1>3, <2>1, PaysNothing DEF Blocks
<1>5. /\ Sound(b2, t, n + 1) /\ b2.stack = b.stack /\ k = n + 1 /\ Pays(b1, b2, 0)
      /\ b2.lastLine = p /\ b2.before = b.before \ both
  <2>1. /\ Pays(b1, b2, 0) /\ b2.lastLine = b1.lastLine /\ b2.before = b1.before /\ b2.stack = b1.stack
    BY <1>0, <1>3, NewNodePays
  <2>2. Sound(b2, t, n + 1) /\ Len(b2.meta) = n + 1
    BY <1>0, <1>3, NewNodeKeeps
  <2> HIDE DEF b2
  <2>3. QED
    BY <1>3, <2>1, <2>2
<1> HIDE DEF b2, k, claimed, l
<1>6. Pays(b, b2, 0) /\ Blocks(b2)
  <2>1. Pays(b, b2, 0 + 0)
    BY <1>4, <1>5, PaysBoth
  <2>2. QED
    BY <1>5, <2>1 DEF Blocks
<1>7. /\ n \in Nat /\ k \in 1 .. n + 1 /\ Len(b.meta) = n /\ Len(b.stack) \in Nat
      /\ b.stack # <<>> => Len(b.stack) \in Nat \ {0} /\ TopOf(b) = b.stack[Len(b.stack)]
  BY <1>5, FrameNodes
<1>8. /\ Sound(item, t, n + 1) /\ item.stack = b.stack
      /\ item.meta[k] = [b2.meta[k] EXCEPT !.before = claimed, !.inline = l]
      /\ \A i \in 1 .. n + 1 : i # k => item.meta[i] = b2.meta[i]
      /\ item.lastLine = p /\ item.before = b.before \ both
  <2>1. /\ Sound(item, t, n + 1)
        /\ NodeOnly(b2, item, n + 1, k, [b2.meta[k] EXCEPT !.before = claimed, !.inline = l])
    BY <1>2, <1>5, <1>7, DescribedIs
  <2> HIDE DEF item
  <2>2. QED
    BY <1>5, <2>1 DEF NodeOnly, Apart
<1> HIDE DEF item
<1>9. Pays(b, item, 0) /\ Blocks(item)
  <2>1. b2.meta[k] \in NodeType(t) /\ Len(b2.meta) = n + 1 /\ Len(item.meta) = n + 1
    BY <1>5, <1>7, <1>8, FieldTypes
  <2>2. item.meta[k].blanks = b2.meta[k].blanks /\ item.meta[k].trailing = b2.meta[k].trailing
    BY <1>8, <2>1 DEF NodeType
  <2>3. \A i, m, x : HasBlank(item, i, m, x) => HasBlank(b2, i, m, x)
    BY <1>5, <1>7, <1>8, <2>1, <2>2 DEF HasBlank
  <2>4. Pays(b, item, 0 + 0)
    BY <1>6, <2>3, PaysNothing, PaysBoth
  <2>5. QED
    BY <1>6, <1>8, <2>4, <1>5 DEF Blocks
<1>10. CASE b.stack = <<>>
  <2>0. ~InSequence(b) /\ ~HasKey(b) /\ ~AwaitsKey(item)
    BY <1>8, <1>10 DEF InSequence, HasKey, AwaitsKey
  <2>1. c = PushNode(item, k)
    BY <1>10, <2>0 DEF Placed, b2, k, item, claimed, l
  <2> HIDE DEF c, own
  <2>2. /\ Pays(item, c, 0) /\ Blocks(c) /\ c.lastLine = item.lastLine /\ c.before = item.before
        /\ ~HasKey(c)
    BY <1>7, <1>8, <1>9, <2>0, <2>1, PushNodePays
  <2>3. Pays(b, c, blanks)
    <3>1. Pays(b, c, 0 + 0)
      BY <1>9, <2>2, PaysBoth
    <3>2. QED
      BY <1>2, <3>1, PaysMoreStill
  <2>4. QED
    BY <1>1, <1>8, <2>0, <2>2, <2>3 DEF Reads, p, blanks, c
<1>11. CASE b.stack # <<>> /\ InSequence(b)
  <2> DEFINE d == Spaced(item, k, blanks)
             e == [key |-> NoKey, node |-> k]
             f == TopOf(b)
             g == Itemed(f, e)
             z == Len(b.stack)
  <2>0. ~HasKey(b)
    BY <1>11 DEF InSequence, HasKey
  <2>1. c = SetTop(d, g)
    BY <1>11, <2>0 DEF Placed, b2, k, item, claimed, l, blanks
  <2> HIDE DEF c
  <2>2. /\ Sound(d, t, n + 1) /\ d.stack = item.stack /\ d.lastLine = item.lastLine /\ d.before = item.before
        /\ d.meta[k] = [item.meta[k] EXCEPT !.blanks = blanks]
        /\ \A i \in 1 .. n + 1 : i # k => d.meta[i] = item.meta[i]
    <3>1. /\ Sound(d, t, n + 1)
          /\ NodeOnly(item, d, n + 1, k, [item.meta[k] EXCEPT !.blanks = blanks])
      BY <1>2, <1>7, <1>8, SpacedIs
    <3> HIDE DEF d
    <3>2. QED
      BY <3>1 DEF NodeOnly, Apart
  <2> HIDE DEF d
  <2>3. /\ Len(d.meta) = n + 1 /\ Len(item.meta) = n + 1
        /\ d.meta[k].blanks = blanks /\ d.meta[k].trailing = item.meta[k].trailing
    <3>1. Len(d.meta) = n + 1 /\ Len(item.meta) = n + 1 /\ item.meta[k] \in NodeType(t)
      BY <1>7, <1>8, <2>2, FieldTypes
    <3>2. QED
      BY <2>2, <3>1 DEF NodeType
  <2>4. Pays(item, d, blanks) /\ Blocks(d)
    <3>1. \A i, m, x : HasBlank(d, i, m, x) =>
            HasBlank(item, i, m, x) \/ (i = "above" /\ m = k /\ x \in 1 .. blanks)
      BY <1>7, <2>2, <2>3 DEF HasBlank
    <3>2. k \in Nat
      BY <1>7
    <3>3. Pays(item, d, blanks)
      BY <1>2, <3>1, <3>2, PaysMore
    <3>4. QED
      BY <1>9, <2>2, <3>3 DEF Blocks
  <2>5. e \in EntryType(t, n + 1)
    BY <1>7, NoneIsNoLine DEF EntryType
  <2>6. f \in FrameType(t, n + 1)
    BY <1>7, <1>11, TopIs, TypesGrow
  <2>7. f = TopOf(d) /\ d.stack # <<>>
    BY <1>8, <1>11, <2>2 DEF TopOf
  <2> HIDE DEF e, f
  <2>8. /\ g \in FrameType(t, n + 1) /\ g.kind = f.kind /\ g.key = f.key
    BY <2>5, <2>6, ItemedType
  <2>9. g.blanks = f.blanks /\ g.flow = f.flow
    BY <2>6 DEF FrameType, Itemed
  <2> HIDE DEF g
  <2>10. Pays(d, c, 0) /\ Blocks(c) /\ c.lastLine = d.lastLine /\ c.before = d.before
    BY <2>1, <2>2, <2>4, <2>7, <2>8, <2>9, TopPays
  <2>11. c.meta = d.meta /\ TopOf(c) = g
    BY <2>1, <2>2, <2>7, <2>8, NewTop
  <2>12. Pays(b, c, blanks)
    <3>1. Pays(b, d, 0 + blanks) /\ 0 + blanks = blanks
      BY <1>2, <1>9, <2>4, PaysBoth
    <3>2. Pays(b, c, blanks + 0) /\ blanks + 0 = blanks
      BY <1>2, <2>10, <3>1, PaysBoth
    <3>3. QED
      BY <3>2
  <2>13. ~HasKey(c)
    <3>1. f.kind = "seq"
      BY <1>11 DEF InSequence, f
    <3>2. QED
      BY <2>8, <2>11, <3>1 DEF HasKey
  <2>14. Len(c.meta) = k /\ c.meta[k].blanks = blanks
    BY <1>5, <2>3, <2>11
  <2> HIDE DEF own
  <2>15. QED
    BY <1>1, <1>8, <2>2, <2>10, <2>12, <2>13, <2>14 DEF Reads, p, blanks, c
<1>12. CASE b.stack # <<>> /\ ~InSequence(b) /\ HasKey(b)
  <2> DEFINE b3 == PushNode(b2, k)
             entries == TopOf(b3).entries
             j == entries[Len(entries)].node
             d == IF l = NoLine THEN b3 ELSE SetInline(b3, j, l)
  <2>1. c = d
    BY <1>12 DEF Placed, b2, k, l
  <2> HIDE DEF c, own
  <2>2. HasKey(b2) /\ ~AwaitsKey(b2)
    BY <1>5, <1>12 DEF HasKey, AwaitsKey, TopOf
  <2>3. /\ Pays(b2, b3, 0) /\ Blocks(b3) /\ b3.lastLine = b2.lastLine /\ b3.before = b2.before
        /\ ~HasKey(b3) /\ Len(b3.stack) = Len(b2.stack)
    BY <1>5, <1>6, <1>7, <2>2, PushNodePays
  <2>4. Sound(b3, t, n + 1) /\ entries # <<>>
    BY <1>5, <1>7, <2>2, PushNodeKeeps
  <2> HIDE DEF b3
  <2>5. b3.stack # <<>>
    BY <1>5, <1>7, <1>12, <2>3, <2>4, StackLen
  <2>6. entries \in Seq(EntryType(t, n + 1))
    BY <2>4, <2>5, TopIs DEF FrameType
  <2> HIDE DEF entries
  <2>7. j \in 1 .. n + 1
    <3>1. Len(entries) \in 1 .. Len(entries)
      BY <2>4, <2>6
    <3>2. entries[Len(entries)] \in EntryType(t, n + 1)
      BY <2>6, <3>1
    <3>3. QED
      BY <3>2 DEF EntryType
  <2> HIDE DEF j
  <2>8. Pays(b3, d, 0) /\ Blocks(d) /\ d.lastLine = b3.lastLine /\ d.before = b3.before /\ ~HasKey(d)
    <3>1. CASE l = NoLine
      <4>1. Pays(b3, b3, 0)
        BY PaysNothing
      <4>2. d = b3
        BY <3>1
      <4> HIDE DEF d
      <4>3. QED
        BY <2>3, <4>1, <4>2
    <3>2. CASE l # NoLine
      <4> DEFINE s == SetInline(b3, j, l)
      <4>1. /\ s.stack = b3.stack /\ Len(s.meta) = n + 1 /\ Apart(b3, s)
            /\ s.meta[j] = [b3.meta[j] EXCEPT !.inline = IF b3.meta[j].inline = NoLine THEN l
                                                         ELSE b3.meta[j].inline]
            /\ \A i \in 1 .. n + 1 : i # j => s.meta[i] = b3.meta[i]
        BY <1>2, <2>4, <2>7, SetInlineIs
      <4>2. d = s
        BY <3>2
      <4> HIDE DEF d, s
      <4>3. b3.meta[j] \in NodeType(t) /\ Len(b3.meta) = n + 1
        BY <2>4, <2>7, FieldTypes
      <4>4. s.meta[j].blanks = b3.meta[j].blanks /\ s.meta[j].trailing = b3.meta[j].trailing
        BY <4>1, <4>3 DEF NodeType
      <4>5. \A i, m, x : HasBlank(s, i, m, x) => HasBlank(b3, i, m, x)
        BY <2>7, <4>1, <4>3, <4>4 DEF HasBlank
      <4>6. Pays(b3, s, 0) /\ Blocks(s) /\ ~HasKey(s)
        BY <2>3, <4>1, <4>5, PaysNothing DEF Blocks, HasKey, TopOf
      <4>7. QED
        BY <4>1, <4>2, <4>6 DEF Apart
    <3>3. QED
      BY <3>1, <3>2
  <2> HIDE DEF d
  <2>9. Pays(b, c, blanks)
    <3>1. Pays(b, b3, 0 + 0)
      BY <1>6, <2>3, PaysBoth
    <3>2. Pays(b, d, 0 + 0)
      BY <2>8, <3>1, PaysBoth
    <3>3. QED
      BY <1>2, <2>1, <3>2, PaysMoreStill
  <2>10. QED
    BY <1>1, <1>5, <1>12, <2>1, <2>3, <2>8, <2>9 DEF Reads, p, blanks, c
<1>13. CASE b.stack # <<>> /\ ~InSequence(b) /\ ~HasKey(b)
  <2> DEFINE f == TopOf(b)
             o == Outset(b, from)
             g == Keyed(f, key, claimed, l, blanks, o)
  <2>1. c = SetTop(b1, g)
    BY <1>13 DEF Placed, claimed, l, blanks
  <2> HIDE DEF c
  <2>2. f \in FrameType(t, n) /\ o \in LineOr(t)
    BY <1>0, <1>13, TopIs, OutsetType
  <2>3. AwaitsKey(b)
    <3>1. f.kind \in {"map", "seq"}
      BY <2>2 DEF FrameType
    <3>2. QED
      BY <1>13, <3>1 DEF AwaitsKey, InSequence, HasKey
  <2>4. f = TopOf(b1) /\ b1.stack # <<>>
    BY <1>3, <1>13 DEF TopOf
  <2> HIDE DEF f, o
  <2>5. g \in FrameType(t, n)
    BY <1>0, <1>2, <2>2, KeyedType
  <2>6. g.blanks = blanks /\ g.flow = f.flow
    BY <2>2 DEF Keyed, FrameType
  <2> HIDE DEF g, own
  <2>7. Pays(b1, c, blanks) /\ Blocks(c) /\ c.lastLine = b1.lastLine /\ c.before = b1.before
    BY <1>2, <1>3, <1>4, <2>1, <2>4, <2>5, <2>6, TopPays
  <2>8. Pays(b, c, blanks)
    <3>1. Pays(b, c, 0 + blanks) /\ 0 + blanks = blanks
      BY <1>2, <1>4, <2>7, PaysBoth
    <3>2. QED
      BY <3>1
  <2>9. QED
    BY <1>1, <1>3, <1>13, <2>3, <2>7, <2>8 DEF Reads, p, blanks, c
<1>14. QED
  BY <1>10, <1>11, <1>12, <1>13

\* What the start of a block collection does.
Starts(b, c, mark, props) ==
  /\ c.lastLine = (IF InSequence(b) \/ (b.stack = <<>> /\ props) THEN mark ELSE b.lastLine)
  /\ \A x \in b.before : x \in c.before \/ (InSequence(b) /\ x < mark) \/ (HasKey(b) /\ x = mark)
  /\ Pays(b, c, IF InSequence(b) THEN CountBlankLines(b, mark) ELSE 0)
  /\ ~HasKey(c) /\ Blocks(c)

LEMMA ContainerStarts ==
  ASSUME NEW t, Text(t), NEW n, NEW b, Sound(b, t, n), Blocks(b), ~AwaitsKey(b),
         NEW kind \in {"map", "seq"}, NEW flow \in BOOLEAN, flow = FALSE, NEW mark \in Line(t),
         NEW anchor \in t.anchors \cup {None}, NEW props, NEW from \in Line(t)
  PROVE  Starts(b, StartContainer(b, kind, flow, mark, anchor, props, from), mark, props)
<1> DEFINE b1 == IF b.stack = <<>> /\ props THEN [b EXCEPT !.lastLine = mark] ELSE b
           b2 == IF ~InSequence(b1) THEN b1 ELSE Preceded(b1, mark)
           own == {c \in b2.before : HasKey(b2) /\ c = mark}
           b3 == NewNode(b2, from, mark)
           k == Len(b3.meta)
           l == IF own = {} THEN NoLine ELSE mark
           f == Frame(kind, flow, k, anchor)
           c == Opened(b3, own, k, l, f)
           j == IF InSequence(b) THEN CountBlankLines(b, mark) ELSE 0
           v == n + 1
<1>0. StartContainer(b, kind, flow, mark, anchor, props, from) = c
  BY Zenon DEF StartContainer, Opened, Preceded
<1>1. /\ mark \in LineOr(t) /\ from \in LineOr(t) /\ n \in Nat /\ Len(b.meta) = n
      /\ Len(b.stack) \in Nat
  BY NoneIsNoLine, FieldTypes, FrameNodes
<1>2. /\ Sound(b1, t, n) /\ b1.stack = b.stack /\ b1.meta = b.meta /\ b1.before = b.before
      /\ b1.lastLine = (IF b.stack = <<>> /\ props THEN mark ELSE b.lastLine)
  <2>1. CASE b.stack = <<>> /\ props
    <3> DEFINE d == [b EXCEPT !.lastLine = mark]
    <3>1. d = With(b, b.before, b.inline, mark, b.blockEnd, b.table)
      BY DEF Sound, BuilderType, With
    <3>2. /\ b.before \in SUBSET Line(t) /\ b.inline \in LineOr(t)
          /\ b.blockEnd \in BOOLEAN /\ b.table \in SUBSET t.anchors
      BY FieldTypes
    <3>3. b1 = d
      BY <2>1
    <3> HIDE DEF d
    <3>4. Sound(d, t, n) /\ d.stack = b.stack /\ d.meta = b.meta /\ d.before = b.before /\ d.lastLine = mark
      BY <1>1, <3>1, <3>2, NewFields
    <3>5. QED
      BY <2>1, <3>3, <3>4
  <2>2. CASE ~(b.stack = <<>> /\ props)
    <3>1. b1 = b
      BY <2>2
    <3>2. QED
      BY <2>2, <3>1
  <2>3. QED
    BY <2>1, <2>2
<1> HIDE DEF b1
<1>3. /\ InSequence(b1) <=> InSequence(b)
      /\ HasKey(b1) <=> HasKey(b)
      /\ Pays(b, b1, 0) /\ Blocks(b1)
  <2>1. \A i, m, x : HasBlank(b1, i, m, x) => HasBlank(b, i, m, x)
    BY <1>2 DEF HasBlank
  <2>2. QED
    BY <1>2, <2>1, PaysNothing DEF InSequence, HasKey, TopOf, Blocks
<1>4. InSequence(b) => b.stack # <<>> /\ b1 = b /\ ~HasKey(b)
  BY DEF b1, InSequence, HasKey
<1>5. /\ Sound(b2, t, n) /\ Pays(b, b2, j) /\ Blocks(b2)
      /\ b2.lastLine = (IF InSequence(b) \/ (b.stack = <<>> /\ props) THEN mark ELSE b.lastLine)
      /\ b2.before = (IF InSequence(b) THEN b.before \ Above(b, mark) ELSE b.before)
      /\ HasKey(b2) <=> HasKey(b)
      /\ Len(b2.stack) = Len(b.stack)
      /\ \A i \in 1 .. Len(b.stack) : b2.stack[i].kind = b.stack[i].kind /\ b2.stack[i].key = b.stack[i].key
  <2>1. CASE ~InSequence(b)
    <3>1. b2 = b1
      BY <1>3, <2>1
    <3> HIDE DEF b2
    <3>2. QED
      BY <1>2, <1>3, <2>1, <3>1
  <2>2. CASE InSequence(b)
    <3> DEFINE d == Preceded(b, mark)
               z == Len(b.stack)
               q == CountBlankLines(b, mark)
    <3>1. b.stack # <<>> /\ b2 = d
      BY <1>3, <1>4, <2>2
    <3>2. Sound(d, t, n)
      BY <3>1, PrecededKeeps
    <3>3. HasPreceded(b, d, mark)
      BY <3>1, PrecededIs
    <3> HIDE DEF d, b2
    <3>4. z \in Nat \ {0} /\ TopOf(b) = b.stack[z] /\ TopOf(b) \in FrameType(t, n)
      BY <3>1, FrameNodes, TopIs
    <3>5. /\ d.meta = b.meta /\ Len(d.stack) = z
          /\ \A i \in 1 .. z : i # z => d.stack[i] = b.stack[i]
          /\ d.before = b.before \ Above(b, mark) /\ d.lastLine = mark
          /\ d.stack[z] = [TopOf(b) EXCEPT !.before = Above(b, mark), !.blanks = q]
      BY <3>3 DEF HasPreceded, TopOnly
    <3>6. d.stack[z].blanks = q /\ d.stack[z].flow = b.stack[z].flow
          /\ d.stack[z].kind = b.stack[z].kind /\ d.stack[z].key = b.stack[z].key
      BY <3>4, <3>5 DEF FrameType
    <3>7. q \in Nat
      BY CountType
    <3> HIDE DEF q
    <3>8. \A i, m, x : HasBlank(d, i, m, x) =>
            HasBlank(b, i, m, x) \/ (i = "frame" /\ m = z /\ x \in 1 .. q)
      BY <3>4, <3>5, <3>6 DEF HasBlank
    <3>9. Pays(b, d, q)
      BY <3>4, <3>7, <3>8, PaysMore
    <3>10. Blocks(d)
      <4>1. \A i \in 1 .. z : ~b.stack[i].flow /\ (i < z /\ b.stack[i].kind = "map" => b.stack[i].key # NoKey)
        BY DEF Blocks
      <4> HIDE DEF z
      <4>2. \A i \in 1 .. z : ~d.stack[i].flow
        BY <3>4, <3>5, <3>6, <4>1
      <4>3. \A i \in 1 .. z : i < z /\ d.stack[i].kind = "map" => d.stack[i].key # NoKey
        BY <3>4, <3>5, <4>1
      <4>4. QED
        BY <3>5, <4>2, <4>3 DEF Blocks
    <3>11. ~HasKey(d)
      <4>1. TopOf(d).kind = "seq"
        BY <2>2, <3>4, <3>5, <3>6 DEF TopOf, InSequence
      <4>2. QED
        BY <4>1 DEF HasKey
    <3>12. \A i \in 1 .. z : d.stack[i].kind = b.stack[i].kind /\ d.stack[i].key = b.stack[i].key
      BY <3>5, <3>6
    <3>13. j = q
      BY <2>2 DEF q
    <3> HIDE DEF j, z
    <3>14. QED
      BY <1>4, <2>2, <3>1, <3>2, <3>5, <3>9, <3>10, <3>11, <3>12, <3>13 DEF z
  <2>3. QED
    BY <2>1, <2>2
<1>6. j \in Nat
  BY CountType
<1> HIDE DEF b2, j
<1>7. \A x \in b.before : x \in b2.before \/ (InSequence(b) /\ x < mark)
  BY <1>5 DEF Above
<1>8. own \subseteq {mark} /\ (own # {} => HasKey(b))
  BY <1>5
<1> HIDE DEF own
<1>9. l \in LineOr(t)
  BY <1>1, NoneIsNoLine
<1> HIDE DEF l
<1>10. /\ Sound(b3, t, v) /\ Pays(b2, b3, 0) /\ b3.lastLine = b2.lastLine /\ b3.before = b2.before
       /\ b3.stack = b2.stack /\ b3.meta[v].blanks = 0 /\ b3.meta[v].trailing = 0
  BY <1>1, <1>5, NewNodeKeeps, NewNodePays
<1> HIDE DEF b3
<1>11. Len(b3.meta) = v /\ k = v /\ v \in 1 .. v /\ b3.meta[v] \in NodeType(t)
       /\ b3.stack \in Seq(FrameType(t, v))
  <2>1. v \in 1 .. v
    BY <1>1
  <2> HIDE DEF v
  <2>2. QED
    BY <1>10, <2>1, FieldTypes
<1> HIDE DEF k, v
<1>12. f.flow = FALSE /\ f.kind = kind /\ f.key = NoKey /\ f.blanks = 0
  BY DEF Frame
<1> HIDE DEF f
<1>13. HasOpened(b3, c, own, k, l, f)
  BY <1>9, <1>10, <1>11, OpenedIs
<1> HIDE DEF c
<1> DEFINE z == Len(b3.stack)
<1>14. /\ z \in Nat /\ Len(c.stack) = z + 1 /\ c.stack[z + 1] = f
       /\ \A i \in 1 .. z : c.stack[i] = b3.stack[i]
  BY <1>11, <1>13 DEF HasOpened
<1>15. /\ Len(c.meta) = Len(b3.meta) /\ c.meta[k].blanks = b3.meta[k].blanks
       /\ c.meta[k].trailing = b3.meta[k].trailing
       /\ \A i \in 1 .. Len(b3.meta) : i # k => c.meta[i] = b3.meta[i]
       /\ c.before = b3.before \ own /\ c.lastLine = b3.lastLine
  BY <1>11, <1>13 DEF HasOpened, NodeType
<1>16. z = Len(b.stack) /\ Blocks(b3)
  BY <1>5, <1>10 DEF Blocks
<1> HIDE DEF z
<1>17. \A i, m, x : HasBlank(c, i, m, x) => HasBlank(b3, i, m, x)
  <2>1. \A m, x : HasBlank(c, "above", m, x) => HasBlank(b3, "above", m, x)
    BY <1>15 DEF HasBlank
  <2>2. \A m, x : HasBlank(c, "below", m, x) => HasBlank(b3, "below", m, x)
    BY <1>15 DEF HasBlank
  <2>3. \A m, x : HasBlank(c, "frame", m, x) => HasBlank(b3, "frame", m, x)
    BY <1>12, <1>14 DEF HasBlank, z
  <2>4. QED
    BY <2>1, <2>2, <2>3 DEF HasBlank
<1>18. Pays(b, c, j)
  <2>0. Pays(b, b2, j) /\ Pays(b2, b3, 0) /\ 0 \in Nat
    BY <1>5, <1>10
  <2>1. Pays(b, b3, j + 0) /\ j + 0 = j
    BY <1>6, <2>0, PaysBoth
  <2>2. Pays(b3, c, 0)
    BY <1>17, PaysNothing
  <2>3. Pays(b, c, j + 0)
    BY <1>6, <2>1, <2>2, PaysBoth
  <2>4. QED
    BY <2>1, <2>3
<1>19. ~HasKey(c)
  BY <1>12, <1>14 DEF HasKey, TopOf
<1>20. Blocks(c)
  <2>1. ASSUME NEW i \in 1 .. z, b3.stack[i].kind = "map" PROVE b3.stack[i].key # NoKey
    <3>1. CASE i # z
      BY <1>14, <1>16, <2>1, <3>1 DEF Blocks, z
    <3>2. CASE i = z
      <4>1. b.stack # <<>> /\ TopOf(b) = b.stack[i]
        BY <1>1, <1>16, <2>1, <3>2, StackLen DEF TopOf
      <4>2. b.stack[i].kind = "map" /\ b3.stack[i].key = b.stack[i].key
        BY <1>5, <1>10, <1>16, <2>1
      <4>3. QED
        BY <4>1, <4>2 DEF AwaitsKey
    <3>3. QED
      BY <3>1, <3>2
  <2>2. \A i \in 1 .. z : ~b3.stack[i].flow
    BY <1>16 DEF Blocks, z
  <2>3. \A i \in 1 .. z + 1 : ~c.stack[i].flow
    BY <1>12, <1>14, <2>2
  <2>4. \A i \in 1 .. z + 1 : i < z + 1 /\ c.stack[i].kind = "map" => c.stack[i].key # NoKey
    BY <1>14, <2>1
  <2>5. QED
    BY <1>14, <2>3, <2>4 DEF Blocks
<1>21. \A x \in b.before : x \in c.before \/ (InSequence(b) /\ x < mark) \/ (HasKey(b) /\ x = mark)
  BY <1>7, <1>8, <1>10, <1>15
<1>22. QED
  BY <1>0, <1>5, <1>10, <1>15, <1>18, <1>19, <1>20, <1>21 DEF Starts, j

\* What the end of a block collection does.
EndsAt(b, c, mark) ==
  /\ c.lastLine = mark /\ c.before = b.before /\ Pays(b, c, CountBlankLines(b, mark))
  /\ ~HasKey(c) /\ Blocks(c)

LEMMA ContainerEnds ==
  ASSUME NEW t, Text(t), NEW n, NEW b, Sound(b, t, n), b.stack # <<>>, Blocks(b), NEW mark \in Line(t)
  PROVE  EndsAt(b, EndContainer(b, mark), mark)
<1> DEFINE f == TopOf(b)
           last == LastLineOf(b, mark)
           d == Closed(b, mark, last, f)
           c == EndContainer(b, mark)
           k == f.node
           j == CountBlankLines(b, mark)
           z == Len(b.stack)
<1>1. f \in FrameType(t, n) /\ last \in Line(t)
  BY TopIs, LastLineOfType
<1>2. c = PushNode(d, k)
  BY DEF EndContainer, Closed
<1> HIDE DEF f, last
<1>3. Sound(d, t, n) /\ HasClosed(b, d, mark, last, f, n)
  BY <1>1, ClosedKeeps, ClosedIs
<1> HIDE DEF d, c
<1>4. k \in 1 .. n
  BY <1>1 DEF FrameType
<1>5. n \in Nat /\ Len(b.meta) = n /\ z \in Nat \ {0}
  BY FrameNodes
<1>6. j \in Nat
  BY CountType
<1>7. /\ Len(d.meta) = n /\ d.before = b.before /\ d.lastLine = mark
      /\ d.meta[k] = [b.meta[k] EXCEPT !.trailing = j, !.last = last]
      /\ \A i \in 1 .. n : i # k => d.meta[i] = b.meta[i]
      /\ Len(d.stack) = z - 1 /\ \A i \in 1 .. z - 1 : d.stack[i] = b.stack[i]
  BY <1>3 DEF HasClosed
<1> HIDE DEF j, k, z
<1>8. d.meta[k].blanks = b.meta[k].blanks /\ d.meta[k].trailing = j
  <2>1. b.meta[k] \in NodeType(t)
    BY <1>4, FieldTypes
  <2>2. QED
    BY <1>7, <2>1 DEF NodeType
<1>9. Pays(b, d, j)
  <2>1. \A i, m, x : HasBlank(d, i, m, x) =>
          HasBlank(b, i, m, x) \/ (i = "below" /\ m = k /\ x \in 1 .. j)
    <3>1. \A m, x : HasBlank(d, "above", m, x) => HasBlank(b, "above", m, x)
      BY <1>4, <1>5, <1>7, <1>8 DEF HasBlank
    <3>2. \A m, x : HasBlank(d, "below", m, x) => HasBlank(b, "below", m, x) \/ (m = k /\ x \in 1 .. j)
      BY <1>4, <1>5, <1>7, <1>8 DEF HasBlank
    <3>3. \A m, x : HasBlank(d, "frame", m, x) => HasBlank(b, "frame", m, x)
      BY <1>5, <1>7 DEF HasBlank, z
    <3>4. QED
      BY <3>1, <3>2, <3>3 DEF HasBlank
  <2>2. k \in Nat
    BY <1>4, <1>5
  <2>3. QED
    BY <1>6, <2>1, <2>2, PaysMore
<1>10. Blocks(d) /\ ~AwaitsKey(d)
  <2>1. \A i \in 1 .. z - 1 : ~d.stack[i].flow /\ (d.stack[i].kind = "map" => d.stack[i].key # NoKey)
    BY <1>5, <1>7 DEF Blocks, z
  <2>2. d.stack # <<>> => z - 1 \in 1 .. z - 1 /\ TopOf(d) = d.stack[z - 1]
    BY <1>3, <1>7, <1>5, FrameNodes DEF TopOf
  <2>3. QED
    BY <1>5, <1>7, <2>1, <2>2 DEF Blocks, AwaitsKey
<1>11. /\ Pays(d, c, 0) /\ Blocks(c) /\ c.lastLine = d.lastLine /\ c.before = d.before /\ ~HasKey(c)
  BY <1>2, <1>3, <1>4, <1>10, PushNodePays
<1>12. Pays(b, c, j)
  <2>0. Pays(b, d, j) /\ Pays(d, c, 0) /\ 0 \in Nat
    BY <1>9, <1>11
  <2>1. Pays(b, c, j + 0) /\ j + 0 = j
    BY <1>6, <2>0, PaysBoth
  <2>2. QED
    BY <2>1
<1>13. QED
  BY <1>7, <1>11, <1>12 DEF EndsAt, c, j

(***************************************************************************)
(* How far the builder is behind the source.                               *)
(***************************************************************************)
\* The builder b has read no further than the source s; a pending key ends where
\* the source has been read to.
InStep(b, s) ==
  /\ s.ahead = s.at /\ b.lastLine <= s.at
  /\ \A x \in Full(s) : x <= s.at
  /\ HasKey(b) => b.lastLine = s.at /\ ~s.held
  /\ Blocks(b)

\* Between the last line that the builder has read and the source there is no content
\* but a token that is held, and the comments there wait to be placed.
Behind(b, s) ==
  /\ \A x \in s.content : x <= b.lastLine \/ (s.held /\ x = s.at)
  /\ \A x \in s.comments : x > b.lastLine => x \in b.before

\* The last line of a scalar has content, and there is none below it.
AtScalar(b, s) == b.lastLine \in s.content /\ \A x \in s.content : x <= b.lastLine

Levelled(b, s, p, e) ==
  /\ InStep(b, s) /\ Funded(b, s)
  /\ p # <<>> => Behind(b, s)
  /\ e = "Scalar" => AtScalar(b, s)

Level == Plainly => Levelled(builder, src, nest, event)

\* The source is read to line `at'; it brings the comments cs and the content `lines'.
Reaches(u, at, cs, lines, held) ==
  /\ at \in Lines /\ cs \subseteq Lines /\ lines \subseteq Lines /\ Fresh(cs)
  /\ src.at <= at
  /\ \A x \in cs \cup lines : src.at <= x /\ x <= at
  /\ u.at = at /\ u.ahead = at /\ u.held = held
  /\ u.comments = src.comments \cup cs /\ u.content = src.content \cup lines

LEMMA LinesAre ==
  ASSUME IInv
  PROVE  /\ Lines \subseteq Nat /\ src.at \in Lines /\ builder.lastLine \in Nat
         /\ Full(src) \subseteq Lines /\ src.comments \subseteq Lines /\ src.content \subseteq Lines
<1>1. /\ Text(text) /\ Lines = Line(text) /\ src.at \in Lines
  BY TextIs
<1>2. src.comments \subseteq Lines /\ src.content \subseteq Lines
  BY <1>1 DEF IInv, SrcType
<1>3. text.lines \in Nat
  BY <1>1 DEF Text
<1>4. Lines \subseteq Nat
  BY <1>3 DEF Lines
<1>5. builder.lastLine \in LineOr(text)
  BY FieldTypes DEF IInv, Good
<1>6. builder.lastLine \in Nat
  BY <1>1, <1>4, <1>5 DEF LineOr, NoLine
<1>7. QED
  BY <1>1, <1>2, <1>4, <1>6 DEF Full

LEMMA AbsorbsLevel ==
  ASSUME IInv, Neat, Levelled(builder, src, nest, event), NEW cs, cs \subseteq Lines, Fresh(cs)
  PROVE  LET b == Absorb(builder, cs)
         IN  /\ Sound(b, text, Len(b.meta)) /\ Absorbed(builder, b, cs) /\ Blocks(b) /\ Funded(b, src)
             /\ HasKey(b) <=> HasKey(builder)
             /\ InSequence(b) <=> InSequence(builder)
             /\ AwaitsKey(b) <=> AwaitsKey(builder)
             /\ b.stack = <<>> <=> builder.stack = <<>>
<1> DEFINE n == Len(builder.meta)
           b == Absorb(builder, cs)
<1>1. Sound(builder, text, n) /\ cs \in SUBSET Line(text) /\ src.comments \in SUBSET Lines
  BY TextIs DEF IInv, Good, SrcType
<1>2. (\A x \in src.comments : x \in Int) /\ \A x \in src.comments, y \in cs : x < y
  BY <1>1 DEF Lines, Fresh
<1>3. Sound(b, text, Len(b.meta))
  BY <1>1, AbsorbsNeat
<1> HIDE DEF n
<1>4. Absorbed(builder, b, cs) /\ Sound(b, text, n)
  BY <1>1, <1>2, AbsorbIs, AbsorbKeeps DEF Neat
<1> HIDE DEF b
<1>5. /\ Kept(b) = Kept(builder) /\ (Blocks(builder) => Blocks(b))
      /\ HasKey(b) <=> HasKey(builder)
      /\ InSequence(b) <=> InSequence(builder)
      /\ AwaitsKey(b) <=> AwaitsKey(builder)
      /\ b.stack = <<>> <=> builder.stack = <<>>
  BY <1>1, <1>4, AbsorbedSame
<1>6. Blocks(builder) /\ Funded(builder, src) /\ b.lastLine = builder.lastLine
  BY <1>4 DEF Levelled, InStep, Absorbed
<1>7. Funded(b, src)
  BY <1>5, <1>6 DEF Funded
<1>8. QED
  BY <1>3, <1>4, <1>5, <1>6, <1>7 DEF b

\* What lies between the last line read and the next token is blank or waits.
LEMMA GapIsKnown ==
  ASSUME IInv, Neat, Levelled(builder, src, nest, event), nest # <<>>,
         NEW u, NEW at, NEW cs, NEW lines, NEW held, Reaches(u, at, cs, lines, held),
         NEW line \in Lines, src.held => line = src.at, \A x \in lines : line <= x
  PROVE  LET b == Absorb(builder, cs)
         IN  \A x \in Full(u) : b.lastLine < x /\ x < line => x \in b.before
<1> DEFINE b == Absorb(builder, cs)
<1>1. Absorbed(builder, b, cs)
  BY AbsorbsLevel DEF Reaches
<1> HIDE DEF b
<1>2. b.lastLine = builder.lastLine /\ builder.before \subseteq b.before /\ \A x \in cs : x \in b.before \/ x = b.lastLine
  BY <1>1 DEF Absorbed
<1>3. Behind(builder, src)
  BY DEF Levelled
<1>4. Lines \subseteq Nat /\ src.at \in Lines /\ builder.lastLine \in Nat /\ src.comments \subseteq Lines /\ src.content \subseteq Lines
  BY LinesAre
<1>5. ASSUME NEW x \in Full(u), b.lastLine < x, x < line PROVE x \in b.before
  <2>1. x \in src.comments \/ x \in cs \/ x \in src.content \/ x \in lines
    BY DEF Full, Reaches
  <2>2. CASE x \in src.comments
    <3>1. x > builder.lastLine
      BY <1>2, <1>4, <1>5, <2>2
    <3>2. x \in builder.before
      BY <1>3, <2>2, <3>1 DEF Behind
    <3>3. QED
      BY <1>2, <3>2
  <2>3. CASE x \in cs
    BY <1>2, <1>4, <1>5, <2>3 DEF Reaches
  <2>4. CASE x \in src.content
    <3>1. x <= builder.lastLine \/ (src.held /\ x = src.at)
      BY <1>3, <2>4 DEF Behind
    <3>2. x \in Nat /\ line \in Nat
      BY <1>4, <2>4
    <3>3. QED
      BY <1>2, <1>4, <1>5, <3>1, <3>2
  <2>5. CASE x \in lines
    <3>1. x \in Nat /\ line \in Nat /\ line <= x
      BY <1>4, <2>5 DEF Reaches
    <3>2. QED
      BY <1>5, <3>1
  <2>6. QED
    BY <2>1, <2>2, <2>3, <2>4, <2>5
<1>6. QED
  BY <1>5 DEF b

\* The builder moves on within what has been read, and pays for what it keeps.
LEMMA Onward ==
  ASSUME IInv, Neat, Levelled(builder, src, nest, event),
         NEW u, NEW at, NEW cs, NEW lines, NEW held, Reaches(u, at, cs, lines, held),
         NEW b, Funded(b, src), b.lastLine = builder.lastLine,
         NEW c, c.lastLine \in Nat, b.lastLine <= c.lastLine, c.lastLine <= at,
         Blocks(c), HasKey(c) => c.lastLine = at /\ ~held,
         NEW j \in Nat, Pays(b, c, j), NEW line \in Lines, line <= at,
         j = 0 \/ (line <= c.lastLine + 1 /\ j <= Cardinality(Gap(b.lastLine, line, u)))
  PROVE  InStep(c, u) /\ Funded(c, u)
<1>1. Lines \subseteq Nat /\ src.at \in Lines /\ builder.lastLine \in Nat /\ Full(src) \subseteq Lines
  BY LinesAre
<1>2. at \in Nat /\ line \in Nat /\ u.at = at /\ u.ahead = at /\ src.at <= at /\ u.held = held
  BY <1>1 DEF Reaches
<1>3. \A x \in Full(u) : x \in Full(src) \/ x \in cs \cup lines
  BY DEF Full, Reaches
<1>4. \A x \in Full(u) : x \in Full(src) \/ src.at <= x
  BY <1>3 DEF Reaches
<1>5. \A x \in Full(u) : x <= u.at
  <2>1. \A x \in Full(src) : x <= src.at
    BY DEF Levelled, InStep
  <2>2. ASSUME NEW x \in Full(src) PROVE x <= at
    <3>1. x \in Lines
      BY <1>1
    <3>2. x \in Nat
      BY <1>1, <3>1
    <3>3. src.at \in Nat
      BY <1>1
    <3>4. x <= src.at
      BY <2>1
    <3>5. QED
      BY <1>2, <3>2, <3>3, <3>4
  <2>3. \A x \in cs \cup lines : x <= at
    BY DEF Reaches
  <2>4. QED
    BY <1>2, <1>3, <2>2, <2>3
<1>6. InStep(c, u)
  BY <1>2, <1>5 DEF InStep
<1>7. Funded(c, u)
  <2>1. CASE j = 0
    <3> DEFINE one == 1
    <3>1. /\ one \in Nat /\ one <= u.at /\ one <= c.lastLine + 1
      BY <1>2 DEF Reaches, Lines
    <3>2. 0 <= Cardinality(Gap(b.lastLine, one, u))
      <4>1. IsFiniteSet((b.lastLine + 1) .. (one - 1))
        <5>1. b.lastLine + 1 \in Int /\ one - 1 \in Int
          BY <1>1
        <5> HIDE DEF one
        <5>2. QED
          BY <5>1, FS_Interval
      <4>2. Gap(b.lastLine, one, u) \in SUBSET ((b.lastLine + 1) .. (one - 1))
        BY DEF Gap
      <4> HIDE DEF one
      <4>3. Cardinality(Gap(b.lastLine, one, u)) \in Nat
        BY <4>1, <4>2, FS_Subset, FS_CardinalityType
      <4>4. QED
        BY <4>3
    <3> HIDE DEF one
    <3>3. QED
      BY <1>1, <1>2, <1>4, <2>1, <3>1, <3>2, Balanced
  <2>2. CASE j # 0
    <3>1. line <= c.lastLine + 1 /\ j <= Cardinality(Gap(b.lastLine, line, u)) /\ line <= u.at
      BY <1>2, <2>2
    <3>2. QED
      BY <1>1, <1>2, <1>4, <3>1, Balanced
  <2>3. QED
    BY <2>1, <2>2
<1>8. QED
  BY <1>6, <1>7

\* A scalar.
LEMMA ScalarLevel ==
  ASSUME IInv, Neat, Levelled(builder, src, nest, event), nest # <<>>,
         NEW form, form # "empty", NEW line \in Lines, NEW end \in Lines, NEW last \in Lines,
         NEW k \in KeyTexts, NEW a, a \in text.anchors \cup {None},
         NEW u, NEW at, NEW cs, NEW lines, Reaches(u, at, cs, lines, FALSE),
         src.held => line = src.at,
         NEW p, p = LastLineRead(form, line, end), p \in lines, line <= p, p <= at, src.at <= line,
         \A x \in lines : line <= x /\ x <= p, \A x \in cs : x <= p,
         p = at \/ ~AwaitsKey(builder), NEW q, NEW e
  PROVE  Levelled(PlaceScalar(Absorb(builder, cs), form, line, end, last, k, a, src.at), u, q, e)
<1> DEFINE b == Absorb(builder, cs)
           n == Len(b.meta)
           c == PlaceScalar(b, form, line, end, last, k, a, src.at)
           j == Blanks(b, form, line)
<1>1. Text(text) /\ Lines = Line(text) /\ src.at \in Lines /\ line \in Line(text)
  BY TextIs
<1>2. /\ Sound(b, text, n) /\ Absorbed(builder, b, cs) /\ Blocks(b) /\ Funded(b, src)
      /\ HasKey(b) <=> HasKey(builder)
      /\ InSequence(b) <=> InSequence(builder)
      /\ AwaitsKey(b) <=> AwaitsKey(builder)
      /\ b.stack = <<>> <=> builder.stack = <<>>
  BY AbsorbsLevel DEF Reaches
<1>3. \A x \in Full(u) : b.lastLine < x /\ x < line => x \in b.before
  BY GapIsKnown
<1> HIDE DEF b
<1>4. b.lastLine = builder.lastLine
  BY <1>2 DEF Absorbed
<1>5. Placeable(b, text, line, end, last, src.at, k, a)
  <2>1. k \in Key(text) /\ (builder.stack # <<>> /\ ~InSequence(builder) /\ ~HasKey(builder) => k # NoKey)
    BY KeysAre
  <2>2. QED
    BY <1>1, <1>2, <2>1 DEF Placeable
<1> HIDE DEF n
<1>6. Reads(b, c, form, line, end)
  BY <1>1, <1>2, <1>5, ScalarReads
<1> HIDE DEF c
<1>7. c.lastLine = p /\ Pays(b, c, j) /\ Blocks(c) /\ (HasKey(c) => AwaitsKey(b))
  BY <1>6 DEF Reads
<1>8. /\ CountBlankLines(b, line) \in Nat
      /\ CountBlankLines(b, line) <= Cardinality(Gap(b.lastLine, line, u))
  BY <1>1, <1>2, <1>3, CountIsReal
<1>9. j \in Nat /\ (j = 0 \/ j <= Cardinality(Gap(b.lastLine, line, u)))
  BY <1>8 DEF Blanks
<1> HIDE DEF j
<1>10. Lines \subseteq Nat /\ src.at \in Nat /\ builder.lastLine \in Nat
       /\ src.comments \subseteq Lines /\ src.content \subseteq Lines
  BY LinesAre
<1>11. p \in Nat /\ line \in Nat /\ at \in Nat
  BY <1>10 DEF Reaches
<1>12. builder.lastLine <= src.at /\ \A x \in Full(src) : x <= src.at
  BY DEF Levelled, InStep
<1>13. /\ c.lastLine \in Nat /\ b.lastLine <= c.lastLine /\ c.lastLine <= at
       /\ line <= at /\ line <= c.lastLine + 1
  BY <1>4, <1>7, <1>10, <1>11, <1>12
<1>14. HasKey(c) => c.lastLine = at /\ ~FALSE
  BY <1>2, <1>7
<1>15. InStep(c, u) /\ Funded(c, u)
  BY <1>2, <1>4, <1>7, <1>9, <1>13, <1>14, Onward
<1>16. \A x \in Full(src) : x <= p
  <2>1. ASSUME NEW x \in Full(src) PROVE x <= p
    <3>1. x \in Lines
      BY <1>10 DEF Full
    <3>2. x \in Int /\ x <= src.at
      BY <1>10, <1>12, <3>1
    <3>3. QED
      BY <1>10, <1>11, <3>2
  <2>2. QED
    BY <2>1
<1>17. u.comments = src.comments \cup cs /\ u.content = src.content \cup lines
  BY DEF Reaches
<1>18. (\A x \in u.content : x <= p) /\ (\A x \in u.comments : x <= p)
  BY <1>16, <1>17 DEF Full
<1>19. AtScalar(c, u)
  BY <1>7, <1>17, <1>18 DEF AtScalar
<1>20. Behind(c, u)
  <2>1. \A x \in u.comments : ~(x > p)
    <3>1. ASSUME NEW x \in u.comments PROVE ~(x > p)
      <4>1. x \in Lines /\ x <= p
        BY <1>10, <1>17, <1>18 DEF Reaches
      <4>2. x \in Int
        BY <1>10, <4>1
      <4>3. QED
        BY <1>11, <4>1, <4>2
    <3>2. QED
      BY <3>1
  <2>2. QED
    BY <1>7, <1>18, <2>1 DEF Behind
<1>21. QED
  BY <1>15, <1>19, <1>20 DEF Levelled, c, b

\* The start of a block collection.
LEMMA StartLevel ==
  ASSUME IInv, Neat, Levelled(builder, src, nest, event), nest # <<>>, ~AwaitsKey(builder),
         NEW kind \in {"map", "seq"}, NEW flow \in BOOLEAN, flow = FALSE,
         NEW l \in Lines, NEW mark \in Lines, NEW a \in text.anchors \cup {None}, NEW props,
         NEW u, NEW cs, Reaches(u, l, cs, {l, mark}, TRUE), src.held => l = src.at,
         InSequence(builder) => mark = l, HasKey(builder) => mark = src.at,
         builder.stack = <<>> /\ ~props => mark = l,
         NEW q, NEW e, e # "Scalar"
  PROVE  Levelled(StartContainer(Absorb(builder, cs), kind, flow, mark, a, props, src.at), u, q, e)
<1> DEFINE b == Absorb(builder, cs)
           n == Len(b.meta)
           c == StartContainer(b, kind, flow, mark, a, props, src.at)
           j == IF InSequence(b) THEN CountBlankLines(b, mark) ELSE 0
<1>1. Text(text) /\ Lines = Line(text) /\ src.at \in Line(text) /\ mark \in Line(text)
  BY TextIs
<1>2. /\ Sound(b, text, n) /\ Absorbed(builder, b, cs) /\ Blocks(b) /\ Funded(b, src)
      /\ HasKey(b) <=> HasKey(builder)
      /\ InSequence(b) <=> InSequence(builder)
      /\ AwaitsKey(b) <=> AwaitsKey(builder)
      /\ b.stack = <<>> <=> builder.stack = <<>>
  BY AbsorbsLevel DEF Reaches
<1>3. /\ Lines \subseteq Nat /\ src.at \in Nat /\ builder.lastLine \in Nat
      /\ src.comments \subseteq Lines /\ src.content \subseteq Lines
  BY LinesAre
<1>4. l \in Nat /\ mark \in Nat /\ src.at <= mark /\ mark <= l /\ src.at <= l
  BY <1>3 DEF Reaches
<1>5. InSequence(b) => \A x \in Full(u) : b.lastLine < x /\ x < mark => x \in b.before
  <2>1. ASSUME InSequence(builder) PROVE \A x \in Full(u) : b.lastLine < x /\ x < mark => x \in b.before
    <3>1. mark = l
      BY <2>1
    <3>2. src.held => mark = src.at
      BY <3>1
    <3>3. \A x \in {l, mark} : mark <= x
      BY <1>4, <3>1
    <3> DEFINE lines == {l, mark}
               held == TRUE
    <3>4. Reaches(u, l, cs, lines, held) /\ \A x \in lines : mark <= x
      BY <3>3
    <3> HIDE DEF lines, held, b
    <3>5. QED
      BY <3>2, <3>4, GapIsKnown DEF b
  <2>2. QED
    BY <1>2, <2>1
<1> HIDE DEF b
<1>6. b.lastLine = builder.lastLine /\ builder.before \subseteq b.before /\ \A x \in cs : x \in b.before \/ x = b.lastLine
  BY <1>2 DEF Absorbed
<1>7. InSequence(b) \/ HasKey(b) \/ b.stack = <<>>
  <2>1. b.stack # <<>> => TopOf(b).kind \in {"map", "seq"}
    BY <1>2, TopIs DEF FrameType
  <2>2. QED
    BY <1>2, <2>1 DEF InSequence, HasKey, AwaitsKey
<1>8. (InSequence(b) => b.stack # <<>> /\ ~HasKey(b)) /\ (HasKey(b) => b.stack # <<>>)
  BY DEF InSequence, HasKey
<1> HIDE DEF n
<1>9. Starts(b, c, mark, props)
  BY <1>1, <1>2, ContainerStarts
<1> HIDE DEF c
<1>10. /\ c.lastLine = (IF InSequence(b) \/ (b.stack = <<>> /\ props) THEN mark ELSE b.lastLine)
       /\ \A x \in b.before : x \in c.before \/ (InSequence(b) /\ x < mark) \/ (HasKey(b) /\ x = mark)
       /\ Pays(b, c, j) /\ ~HasKey(c) /\ Blocks(c)
  BY <1>9 DEF Starts
<1>11. j \in Nat /\ (j = 0 \/ (InSequence(b) /\ j <= Cardinality(Gap(b.lastLine, mark, u))))
  <2>1. CASE InSequence(b)
    BY <1>1, <1>2, <1>5, <2>1, CountIsReal
  <2>2. CASE ~InSequence(b)
    BY <2>2
  <2>3. QED
    BY <2>1, <2>2
<1> HIDE DEF j
<1>12. builder.lastLine <= src.at /\ (HasKey(builder) => builder.lastLine = src.at)
  BY DEF Levelled, InStep
<1>13. c.lastLine \in Nat /\ b.lastLine <= c.lastLine /\ c.lastLine <= l
  BY <1>3, <1>4, <1>6, <1>10, <1>12
<1>14. InStep(c, u) /\ Funded(c, u)
  <2> DEFINE lines == {l, mark}
             held == TRUE
  <2>1. Reaches(u, l, cs, lines, held) /\ (HasKey(c) => c.lastLine = l /\ ~held)
    BY <1>10
  <2>2. j = 0 \/ (mark <= c.lastLine + 1 /\ j <= Cardinality(Gap(b.lastLine, mark, u)))
    BY <1>4, <1>10, <1>11
  <2> HIDE DEF lines, held
  <2>3. QED
    BY <1>2, <1>4, <1>6, <1>10, <1>11, <1>13, <2>1, <2>2, Onward
<1>15. /\ u.comments = src.comments \cup cs /\ u.content = src.content \cup {l, mark}
       /\ u.at = l /\ u.held
  BY DEF Reaches
<1>16. Behind(builder, src)
  BY DEF Levelled
<1>17. c.lastLine = mark \/ mark = l
  BY <1>2, <1>6, <1>7, <1>8, <1>10, <1>12
<1>18. \A x \in u.content : x <= c.lastLine \/ (u.held /\ x = u.at)
  <2>1. ASSUME NEW x \in src.content PROVE x <= c.lastLine \/ x = l
    <3>1. x \in Lines
      BY <1>3
    <3>2. x \in Nat
      BY <1>3, <3>1
    <3>3. x <= builder.lastLine \/ (src.held /\ x = src.at)
      BY <1>16 DEF Behind
    <3>4. QED
      BY <1>3, <1>6, <1>13, <3>2, <3>3
  <2>2. mark <= c.lastLine \/ mark = l
    BY <1>4, <1>17
  <2>3. QED
    BY <1>15, <2>1, <2>2
<1>19. \A x \in u.comments : x > c.lastLine => x \in c.before
  <2>1. ASSUME NEW x \in u.comments, x > c.lastLine PROVE x \in c.before
    <3>1. x \in Lines
      BY <1>3, <1>15 DEF Reaches
    <3>2. x \in Nat
      BY <1>3, <3>1
    <3>3. x > b.lastLine /\ x # b.lastLine
      BY <1>3, <1>6, <1>13, <2>1, <3>2
    <3>4. x \in b.before
      <4>1. CASE x \in src.comments
        BY <1>6, <1>16, <3>3, <4>1 DEF Behind
      <4>2. CASE x \in cs
        BY <1>6, <3>3, <4>2
      <4>3. QED
        BY <1>15, <4>1, <4>2
    <3>5. ~(InSequence(b) /\ x < mark)
      BY <1>4, <1>10, <2>1, <3>2
    <3>6. ~(HasKey(b) /\ x = mark)
      BY <1>2, <1>6, <1>12, <3>3
    <3>7. QED
      BY <1>10, <3>4, <3>5, <3>6
  <2>2. QED
    BY <2>1
<1>20. Behind(c, u)
  BY <1>18, <1>19 DEF Behind
<1>21. QED
  BY <1>14, <1>20 DEF Levelled, c, b

\* What has been read up to now, and the builder with it.
LEMMA AllRead ==
  ASSUME IInv, Levelled(builder, src, nest, event),
         NEW u, NEW l, NEW cs, NEW lines, NEW held, Reaches(u, l, cs, lines, held),
         NEW c, c.lastLine = l
  PROVE  Behind(c, u)
<1>1. /\ Lines \subseteq Nat /\ src.at \in Nat
      /\ src.comments \subseteq Lines /\ src.content \subseteq Lines
  BY LinesAre
<1>2. l \in Lines /\ l \in Nat /\ src.at <= l
  BY <1>1 DEF Reaches
<1>3. \A x \in Full(src) : x <= src.at
  BY DEF Levelled, InStep
<1>4. ASSUME NEW x \in Full(u) PROVE x <= l /\ ~(x > l)
  <2>1. x \in Full(src) \/ x \in cs \cup lines
    BY DEF Full, Reaches
  <2>2. x \in Lines
    BY <1>1, <2>1 DEF Full, Reaches
  <2>3. x \in Nat
    BY <1>1, <2>2
  <2>4. x <= l
    BY <1>1, <1>2, <1>3, <2>1, <2>3 DEF Reaches
  <2>5. QED
    BY <1>2, <2>3, <2>4
<1>5. QED
  BY <1>4 DEF Behind, Full

\* The end of a block collection.
LEMMA EndLevel ==
  ASSUME IInv, Neat, Levelled(builder, src, nest, event), nest # <<>>, builder.stack # <<>>,
         NEW l \in Lines, NEW u, NEW cs, Reaches(u, l, cs, {}, TRUE), src.held => l = src.at,
         NEW q, NEW e, e # "Scalar"
  PROVE  Levelled(EndContainer(Absorb(builder, cs), l), u, q, e)
<1> DEFINE b == Absorb(builder, cs)
           n == Len(b.meta)
           c == EndContainer(b, l)
           j == CountBlankLines(b, l)
           lines == {}
           held == TRUE
<1>1. Text(text) /\ l \in Line(text)
  BY TextIs
<1>2. Reaches(u, l, cs, lines, held) /\ \A x \in lines : l <= x
  OBVIOUS
<1> HIDE DEF lines, held
<1>3. /\ Sound(b, text, n) /\ Absorbed(builder, b, cs) /\ Blocks(b) /\ Funded(b, src) /\ b.stack # <<>>
  BY AbsorbsLevel DEF Reaches
<1>4. \A x \in Full(u) : b.lastLine < x /\ x < l => x \in b.before
  BY <1>2, GapIsKnown
<1> HIDE DEF b
<1>5. b.lastLine = builder.lastLine
  BY <1>3 DEF Absorbed
<1> HIDE DEF n
<1>6. EndsAt(b, c, l)
  BY <1>1, <1>3, ContainerEnds
<1> HIDE DEF c
<1>7. c.lastLine = l /\ Pays(b, c, j) /\ ~HasKey(c) /\ Blocks(c)
  BY <1>6 DEF EndsAt
<1>8. j \in Nat /\ j <= Cardinality(Gap(b.lastLine, l, u))
  BY <1>1, <1>3, <1>4, CountIsReal
<1> HIDE DEF j
<1>9. Lines \subseteq Nat /\ src.at \in Nat /\ builder.lastLine \in Nat
  BY LinesAre
<1>10. l \in Nat /\ src.at <= l /\ builder.lastLine <= src.at
  BY <1>9 DEF Reaches, Levelled, InStep
<1>11. c.lastLine \in Nat /\ b.lastLine <= c.lastLine /\ c.lastLine <= l /\ l <= l /\ l <= c.lastLine + 1
  BY <1>5, <1>7, <1>9, <1>10
<1>12. HasKey(c) => c.lastLine = l /\ ~held
  BY <1>7
<1>13. InStep(c, u) /\ Funded(c, u)
  BY <1>2, <1>3, <1>5, <1>7, <1>8, <1>11, <1>12, Onward
<1>14. Behind(c, u)
  BY <1>2, <1>7, AllRead
<1>15. QED
  BY <1>13, <1>14 DEF Levelled, c, b

\* Between documents the builder keeps what it has.
LEMMA IdleLevel ==
  ASSUME IInv, Neat, Levelled(builder, src, nest, event), builder.stack = <<>>,
         NEW l \in Lines, NEW u, NEW cs, NEW lines, NEW held, Reaches(u, l, cs, lines, held),
         NEW c, c.meta = Absorb(builder, cs).meta, c.stack = Absorb(builder, cs).stack,
         c.lastLine = l \/ c.lastLine = builder.lastLine,
         NEW q, q # <<>> => c.lastLine = l, NEW e, e # "Scalar"
  PROVE  Levelled(c, u, q, e)
<1> DEFINE b == Absorb(builder, cs)
<1>1. /\ Absorbed(builder, b, cs) /\ Blocks(b) /\ Funded(b, src) /\ b.stack = <<>>
  BY AbsorbsLevel DEF Reaches
<1>2. c.meta = b.meta /\ c.stack = b.stack
  OBVIOUS
<1> HIDE DEF b
<1>3. b.lastLine = builder.lastLine
  BY <1>1 DEF Absorbed
<1>4. Pays(b, c, 0)
  <2>1. \A i, m, x : HasBlank(c, i, m, x) => HasBlank(b, i, m, x)
    BY <1>2 DEF HasBlank
  <2>2. QED
    BY <2>1, PaysNothing
<1>5. Blocks(c) /\ ~HasKey(c)
  BY <1>1, <1>2 DEF Blocks, HasKey
<1>6. Lines \subseteq Nat /\ src.at \in Nat /\ builder.lastLine \in Nat
  BY LinesAre
<1>7. l \in Nat /\ src.at <= l /\ builder.lastLine <= src.at
  BY <1>6 DEF Reaches, Levelled, InStep
<1>8. c.lastLine \in Nat /\ b.lastLine <= c.lastLine /\ c.lastLine <= l /\ l <= l
  BY <1>3, <1>6, <1>7
<1>9. HasKey(c) => c.lastLine = l /\ ~held
  BY <1>5
<1> DEFINE j == 0
<1>10. j \in Nat /\ Pays(b, c, j) /\ (j = 0 \/ (l <= c.lastLine + 1 /\ j <= Cardinality(Gap(b.lastLine, l, u))))
  BY <1>4
<1> HIDE DEF j
<1>11. InStep(c, u) /\ Funded(c, u)
  BY <1>1, <1>3, <1>5, <1>8, <1>9, <1>10, Onward
<1>12. q # <<>> => Behind(c, u)
  BY AllRead
<1>13. QED
  BY <1>11, <1>12 DEF Levelled

(***************************************************************************)
(* Every action keeps the level.                                           *)
(***************************************************************************)
\* A call of next_token reads on from where the last one ended.
LEMMA ReadsOn ==
  ASSUME IInv, Levelled(builder, src, nest, event),
         NEW l \in Lines, NEW r \in Lines, NEW cs \in Comments(l), NEW trail \in Trails(r),
         Readable(l, r, cs, trail),
         NEW both, both = cs \cup trail, NEW at \in Lines, r <= at, NEW lines \in SUBSET Lines,
         \A x \in lines : src.at <= x /\ x <= at,
         NEW u, NEW held, u.at = at, u.ahead = at, u.held = held,
         u.comments = src.comments \cup both, u.content = src.content \cup lines
  PROVE  Reaches(u, at, both, lines, held) /\ src.at <= l /\ l <= r /\ \A x \in both : x <= r
<1>1. Lines \subseteq Nat /\ src.at \in Lines /\ src.ahead = src.at
  BY LinesAre DEF Levelled, InStep
<1>2. src.at \in Nat /\ l \in Nat /\ r \in Nat /\ at \in Nat
  BY <1>1
<1>3. src.at <= l /\ l <= r
  BY <1>1 DEF Readable
<1>4. Fresh(both)
  BY ReadFresh
<1>5. both \subseteq Lines
  BY CommentsAre, TrailsAre
<1>6. ASSUME NEW x \in both PROVE src.at <= x /\ x <= r
  <2>1. CASE x \in cs
    <3>1. src.at <= x /\ x < l /\ x \in Nat
      BY <1>1, <1>5, <2>1 DEF Readable
    <3>2. QED
      BY <1>2, <1>3, <3>1
  <2>2. CASE x \in trail
    <3>1. x = r
      BY <2>2 DEF Trails
    <3>2. QED
      BY <1>2, <1>3, <3>1
  <2>3. QED
    BY <2>1, <2>2
<1>7. ASSUME NEW x \in both PROVE src.at <= x /\ x <= at
  <2>1. x \in Nat /\ src.at <= x /\ x <= r
    BY <1>1, <1>5, <1>6
  <2>2. QED
    BY <1>2, <2>1
<1>8. src.at <= at
  BY <1>2, <1>3
<1>9. QED
  BY <1>3, <1>4, <1>5, <1>6, <1>7, <1>8 DEF Reaches

\* In such a text a node begins at the token that is held.
LEMMA BeginsHeld ==
  ASSUME Plainly, NEW l \in Begins
  PROVE  src.held => l = src.at
BY DEF Plainly, Begins

LEMMA AtAKey ==
  ASSUME AwaitsKey(builder)
  PROVE  AtKey
BY DEF AwaitsKey, AtKey, InSequence, HasKey

LEMMA PlainLevel ==
  ASSUME IInv, Neat, Plainly, Levelled(builder, src, nest, event), Plain
  PROVE  Levelled(builder', src', nest', event')
<1>1. PICK l \in Begins, r \in Lines, a \in text.anchors \cup {None}, k \in KeyTexts :
        \E cs \in Comments(l) :
          /\ ReadTo(l, r, cs, {}, l, FALSE) /\ Declare(a)
          /\ builder' = PlaceScalar(Absorb(builder, cs), "plain", l, r, r, k, a, src.at)
  BY Zenon DEF Plain
<1>2. PICK cs \in Comments(l) :
          /\ ReadTo(l, r, cs, {}, l, FALSE)
          /\ builder' = PlaceScalar(Absorb(builder, cs), "plain", l, r, r, k, a, src.at)
  BY <1>1
<1> DEFINE trail == {}
           lines == (l .. r) \cup {l}
           held == FALSE
<1>3. l \in Lines /\ trail \in Trails(r) /\ (src.held => l = src.at)
  BY BeginsAre, BeginsHeld DEF Trails
<1>4. Readable(l, r, cs, trail) /\ cs = cs \cup trail
  BY <1>2 DEF ReadTo
<1>5. /\ src'.at = r /\ src'.ahead = r /\ src'.held = held
      /\ src'.comments = src.comments \cup cs /\ src'.content = src.content \cup lines
  BY <1>2 DEF ReadTo, Advance
<1>6. Lines \subseteq Nat /\ src.at \in Lines /\ src.ahead = src.at
  BY LinesAre DEF Levelled, InStep
<1>7. l \in Nat /\ r \in Nat /\ src.at \in Nat /\ src.at <= l /\ l <= r /\ r <= r
  <2>1. l \in Nat /\ r \in Nat /\ src.at \in Nat
    BY <1>3, <1>6
  <2>2. src.at <= l /\ l <= r
    BY <1>4, <1>6 DEF Readable
  <2>3. QED
    BY <2>1, <2>2
<1>8. /\ lines \in SUBSET Lines /\ \A x \in lines : src.at <= x /\ x <= r
      /\ r \in lines /\ \A x \in lines : l <= x /\ x <= r
  <2>1. l .. r \subseteq Lines
    BY <1>3, Between
  <2>2. QED
    BY <1>3, <1>7, <2>1
<1>9. LastLineRead("plain", l, r) = r /\ nest # <<>>
  BY DEF LastLineRead, Plain, ScalarEvent, ES!Leaf, ES!AwaitsNode
<1> HIDE DEF trail, lines
<1>10. Reaches(src', r, cs, lines, held) /\ \A x \in cs : x <= r
  BY <1>3, <1>4, <1>5, <1>7, <1>8, ReadsOn
<1>11. "plain" # "empty"
  OBVIOUS
<1> DEFINE form == "plain"
<1>12. /\ form # "empty" /\ r = LastLineRead(form, l, r)
       /\ builder' = PlaceScalar(Absorb(builder, cs), form, l, r, r, k, a, src.at)
  BY <1>2, <1>9, <1>11
<1> HIDE DEF form
<1>13. QED
  BY <1>3, <1>7, <1>8, <1>9, <1>10, <1>12, ScalarLevel

LEMMA QuotedLevel ==
  ASSUME IInv, Neat, Plainly, Levelled(builder, src, nest, event), Quoted
  PROVE  Levelled(builder', src', nest', event')
<1>1. PICK l \in Begins, r \in Lines, a \in text.anchors \cup {None}, k \in KeyTexts :
        \E cs \in Comments(l), trail \in Trails(r) :
          /\ (IF l = r THEN "quoted" ELSE "wrapped") \in text.forms
          /\ ReadTo(l, r, cs, trail, l, FALSE) /\ Declare(a)
          /\ builder' = PlaceScalar(Absorb(builder, cs \cup trail), "quoted", l, l, r, k, a, src.at)
  BY Zenon DEF Quoted
<1>2. PICK cs \in Comments(l), trail \in Trails(r) :
          /\ ReadTo(l, r, cs, trail, l, FALSE)
          /\ builder' = PlaceScalar(Absorb(builder, cs \cup trail), "quoted", l, l, r, k, a, src.at)
  BY <1>1
<1>3. l = r
  BY <1>1 DEF Plainly
<1> DEFINE both == cs \cup trail
           lines == (l .. r) \cup {l}
           held == FALSE
           form == "quoted"
<1>4. l \in Lines /\ (src.held => l = src.at)
  BY BeginsAre, BeginsHeld
<1>5. Readable(l, r, cs, trail)
  BY <1>2 DEF ReadTo
<1>6. /\ src'.at = r /\ src'.ahead = r /\ src'.held = held
      /\ src'.comments = src.comments \cup both /\ src'.content = src.content \cup lines
  BY <1>2 DEF ReadTo, Advance
<1>7. /\ form # "empty" /\ l = LastLineRead(form, l, l) /\ nest # <<>>
      /\ builder' = PlaceScalar(Absorb(builder, both), form, l, l, r, k, a, src.at)
  BY <1>2 DEF LastLineRead, Quoted, ES!Leaf, ES!AwaitsNode
<1>8. l \in Nat /\ lines = {l}
  BY <1>3, <1>4, LinesAre
<1>9. src.at \in Nat /\ src.at <= l
  <2>1. src.ahead = src.at /\ src.at \in Nat
    BY LinesAre DEF Levelled, InStep
  <2>2. QED
    BY <1>5, <2>1 DEF Readable
<1>10. l <= l
  BY <1>8
<1> HIDE DEF both, lines, held, form
<1>11. lines \in SUBSET Lines /\ l \in lines /\ \A x \in lines : src.at <= x /\ x <= l
  BY <1>4, <1>8, <1>9
<1>12. \A x \in lines : l <= x /\ x <= l
  BY <1>8
<1>13. r <= r /\ \A x \in lines : src.at <= x /\ x <= r
  BY <1>3, <1>8, <1>11
<1>14. both = cs \cup trail
  BY DEF both
<1>15. Reaches(src', l, both, lines, held) /\ \A x \in both : x <= l
  <2>1. Reaches(src', r, both, lines, held) /\ \A x \in both : x <= r
    BY <1>4, <1>5, <1>6, <1>11, <1>13, <1>14, ReadsOn
  <2>2. QED
    BY <1>3, <2>1
<1>16. held = FALSE
  BY DEF held
<1>17. builder' = PlaceScalar(Absorb(builder, both), form, l, l, l, k, a, src.at)
  BY <1>3, <1>7
<1>18. Reaches(src', l, both, lines, FALSE)
  BY <1>15, <1>16
<1>19. QED
  BY <1>4, <1>7, <1>9, <1>10, <1>11, <1>12, <1>15, <1>17, <1>18, ScalarLevel

LEMMA BlockLevel ==
  ASSUME IInv, Neat, Plainly, Levelled(builder, src, nest, event), Block
  PROVE  Levelled(builder', src', nest', event')
<1>1. PICK l \in Begins, end \in Lines, a \in text.anchors \cup {None}, k \in KeyTexts :
        \E cs \in Comments(l), trail \in Trails(l) :
          /\ l < end
          /\ Readable(l, l, cs, trail) /\ Declare(a)
          /\ Advance(end, end, cs \cup trail, l .. end - 1, FALSE, NoLine)
          /\ builder' = PlaceScalar(Absorb(builder, cs \cup trail), "block", l, end, end - 1, k, a, src.at)
  BY Zenon DEF Block
<1>2. PICK cs \in Comments(l), trail \in Trails(l) :
          /\ l < end /\ Readable(l, l, cs, trail)
          /\ Advance(end, end, cs \cup trail, l .. end - 1, FALSE, NoLine)
          /\ builder' = PlaceScalar(Absorb(builder, cs \cup trail), "block", l, end, end - 1, k, a, src.at)
  BY <1>1
<1> DEFINE both == cs \cup trail
           lines == l .. end - 1
           held == FALSE
           form == "block"
           last == end - 1
<1>3. l \in Lines /\ (src.held => l = src.at)
  BY BeginsAre, BeginsHeld
<1>4. /\ src'.at = end /\ src'.ahead = end /\ src'.held = held
      /\ src'.comments = src.comments \cup both /\ src'.content = src.content \cup lines
  BY <1>2 DEF Advance
<1>5. /\ form # "empty" /\ nest # <<>> /\ held = FALSE /\ both = cs \cup trail
      /\ builder' = PlaceScalar(Absorb(builder, both), form, l, end, last, k, a, src.at)
  BY <1>2 DEF Block, ScalarEvent, ES!Leaf, ES!AwaitsNode
<1>6. ~AwaitsKey(builder)
  BY AtAKey DEF Block, Plainly
<1>7. Lines \subseteq Nat /\ src.at \in Nat /\ src.ahead = src.at
  BY LinesAre DEF Levelled, InStep
<1>8. l \in Nat /\ end \in Nat /\ l < end
  BY <1>2, <1>3, <1>7
<1>9. src.at <= l
  BY <1>2, <1>7 DEF Readable
<1>10. last \in Nat /\ l <= last /\ last <= end /\ l <= end /\ end - 1 = last
  BY <1>8
<1>11. lines \in SUBSET Lines
  BY <1>3, Between
<1>12. last \in lines /\ \A x \in lines : l <= x /\ x <= last
  BY <1>8
<1>13. \A x \in lines : src.at <= x /\ x <= end
  BY <1>7, <1>8, <1>9
<1>14. LastLineRead(form, l, end) = last
  <2>1. {last, l} \in SUBSET (0 .. end) /\ {last, l} # {}
    BY <1>8, <1>10
  <2>2. Max({last, l}) \in {last, l} /\ \A x \in {last, l} : x <= Max({last, l})
    BY <1>8, <2>1, MaxIs
  <2>3. Max({last, l}) = last
    BY <1>8, <1>10, <2>2
  <2>4. QED
    BY <2>3 DEF LastLineRead
<1> HIDE DEF both, lines, held, form, last
<1>15. Reaches(src', end, both, lines, held) /\ \A x \in both : x <= l
  BY <1>2, <1>3, <1>4, <1>5, <1>10, <1>11, <1>13, ReadsOn
<1>16. \A x \in both : x <= last
  <2>1. both \subseteq Lines
    BY <1>15 DEF Reaches
  <2>2. \A x \in both : x \in Nat
    BY <1>7, <2>1
  <2>3. QED
    BY <1>8, <1>10, <1>15, <2>2
<1>17. last \in Lines
  BY <1>11, <1>12
<1>18. Reaches(src', end, both, lines, FALSE)
  BY <1>5, <1>15
<1>19. QED
  BY <1>3, <1>5, <1>6, <1>9, <1>10, <1>12, <1>14, <1>16, <1>17, <1>18, ScalarLevel

\* No collection of such a text is a flow collection.
LEMMA NoFlow ==
  ASSUME IInv, Levelled(builder, src, nest, event)
  PROVE  ~InFlow
<1>1. Sound(builder, text, Len(builder.meta)) /\ Blocks(builder)
  BY DEF IInv, Good, Levelled, InStep
<1>2. SUFFICES ASSUME builder.stack # <<>> PROVE ~TopOf(builder).flow
  BY DEF InFlow
<1>3. Len(builder.stack) \in 1 .. Len(builder.stack) /\ TopOf(builder) = builder.stack[Len(builder.stack)]
  BY <1>1, <1>2, TopIs
<1>4. QED
  BY <1>1, <1>3 DEF Blocks

LEMMA StartsLevel ==
  ASSUME IInv, Neat, Plainly, Levelled(builder, src, nest, event), NEW kind \in {"map", "seq"}, Start(kind)
  PROVE  Levelled(builder', src', nest', event')
<1> DEFINE A(flow, props, l, a, cs, trail, mark) ==
             /\ flow => "flow" \in text.forms
             /\ src.peeked # NoLine => flow
             /\ a # None => props
             /\ trail # {} => flow \/ (kind = "seq" /\ builder.stack # <<>> /\ ~InSequence(builder))
             /\ ReadTo(l, l, cs, trail, mark, ~flow) /\ Declare(a)
             /\ builder' = StartContainer(Absorb(builder, cs \cup trail), kind, flow, mark,
                                          a, props, src.at)
<1>1. \E flow \in BOOLEAN, props \in BOOLEAN, l \in Begins, a \in text.anchors \cup {None} :
      \E cs \in Comments(l), trail \in Trails(l), mark \in Marks(l, flow, props) :
        A(flow, props, l, a, cs, trail, mark)
  BY Zenon DEF Start
<1> HIDE DEF A
<1>2. PICK flow \in BOOLEAN, props \in BOOLEAN, l \in Begins, a \in text.anchors \cup {None} :
      \E cs \in Comments(l), trail \in Trails(l), mark \in Marks(l, flow, props) :
        A(flow, props, l, a, cs, trail, mark)
  BY <1>1
<1>3. PICK cs \in Comments(l), trail \in Trails(l), mark \in Marks(l, flow, props) :
        A(flow, props, l, a, cs, trail, mark)
  BY <1>2
<1> DEFINE both == cs \cup trail
           lines == (l .. l) \cup {mark}
           held == ~flow
<1>4. l \in Lines /\ mark \in Lines /\ (src.held => l = src.at)
  <2>1. l \in Lines
    BY BeginsAre
  <2>2. QED
    BY <2>1, BeginsHeld, MarksAre
<1>5. Readable(l, l, cs, trail) /\ both = cs \cup trail
  BY <1>3 DEF A, ReadTo
<1>6. /\ src'.at = l /\ src'.ahead = l /\ src'.held = held
      /\ src'.comments = src.comments \cup both /\ src'.content = src.content \cup lines
  BY <1>3 DEF A, ReadTo, Advance
<1>7. builder' = StartContainer(Absorb(builder, both), kind, flow, mark, a, props, src.at)
  BY <1>3 DEF A
<1>8. flow = FALSE
  BY <1>3 DEF A, Plainly
<1>9. held = TRUE
  BY <1>8
<1>10. ~AwaitsKey(builder)
  BY AtAKey DEF Start, Plainly
<1>12. nest # <<>> /\ event' # "Scalar"
  <2>1. CASE kind = "map"
    BY <2>1 DEF Start, ES!MappingStart, ES!AwaitsNode
  <2>2. CASE kind = "seq"
    BY <2>2 DEF Start, ES!SequenceStart, ES!AwaitsNode
  <2>3. QED
    BY <2>1, <2>2
<1>13. src.at \in Nat /\ l \in Nat /\ src.at <= l
  <2>1. src.ahead = src.at /\ src.at \in Nat /\ l \in Nat
    BY <1>4, LinesAre DEF Levelled, InStep
  <2>2. QED
    BY <1>5, <2>1 DEF Readable
<1>14. /\ HasKey(builder) => mark = src.at
       /\ ~HasKey(builder) => mark \in IF props /\ ~InSequence(builder) THEN src.at .. l ELSE {l}
  BY <1>8, NoFlow DEF Marks, Plainly
<1>15. /\ InSequence(builder) => mark = l
       /\ builder.stack = <<>> /\ ~props => mark = l
  <2>1. InSequence(builder) => ~HasKey(builder)
    BY DEF InSequence, HasKey
  <2>2. builder.stack = <<>> => ~HasKey(builder)
    BY DEF HasKey
  <2>3. QED
    BY <1>14, <2>1, <2>2
<1>16. mark \in Nat /\ src.at <= mark /\ mark <= l /\ l <= l
  BY <1>13, <1>14
<1>17. lines = {l, mark}
  BY <1>13
<1> HIDE DEF A, both, lines, held
<1>18. lines \in SUBSET Lines /\ \A x \in lines : src.at <= x /\ x <= l
  BY <1>4, <1>13, <1>16, <1>17
<1>19. Reaches(src', l, both, lines, held)
  BY <1>4, <1>5, <1>6, <1>16, <1>18, ReadsOn
<1>20. Reaches(src', l, both, {l, mark}, TRUE)
  BY <1>9, <1>17, <1>19
<1>21. QED
  BY <1>4, <1>7, <1>8, <1>10, <1>12, <1>14, <1>15, <1>20, StartLevel

\* The collection that ends is the one on top.
LEMMA EndHasTop ==
  ASSUME IInv, NEW kind \in {"map", "seq"}, End(kind)
  PROVE  builder.stack # <<>> /\ nest # <<>> /\ event' # "Scalar"
<1>1. Shape(nest) /\ Follows(builder, nest)
  BY DEF IInv, Good
<1>2. Awaits(nest) /\ nest[Len(nest)] \in {"seq", "key"} /\ event' # "Scalar"
  <2>1. CASE kind = "map"
    <3>1. ES!MappingEnd
      BY <2>1 DEF End
    <3>2. QED
      BY <3>1, AwaitsNodeIs DEF ES!MappingEnd, ES!Outer, ES!Top
  <2>2. CASE kind = "seq"
    <3>1. ES!SequenceEnd
      BY <2>2 DEF End
    <3>2. QED
      BY <3>1, AwaitsNodeIs DEF ES!SequenceEnd, ES!Outer, ES!Top
  <2>3. QED
    BY <2>1, <2>2
<1>3. Len(nest) \in Nat /\ Len(nest) >= 1 /\ nest[1] = "root"
  BY <1>1, <1>2, ShapeTypes, AwaitsIs DEF Awaits
<1>4. Len(nest) # 1
  BY <1>2, <1>3
<1>5. Len(builder.stack) = Len(nest) - 1
  BY <1>1, <1>2 DEF Follows, Awaits
<1>6. Len(builder.stack) # 0
  BY <1>3, <1>4, <1>5
<1>7. QED
  BY <1>2, <1>6 DEF Awaits

LEMMA EndsLevel ==
  ASSUME IInv, Neat, Plainly, Levelled(builder, src, nest, event), NEW kind \in {"map", "seq"}, End(kind)
  PROVE  Levelled(builder', src', nest', event')
<1> DEFINE A(l, pair, cs) ==
             /\ Readable(l, l, cs, {})
             /\ IF pair
                THEN /\ kind = "map" /\ TopOf(builder).flow /\ cs = {}
                     /\ Len(builder.stack) > 1
                     /\ LET outer == builder.stack[Len(builder.stack) - 1]
                        IN  outer.kind = "seq" /\ outer.flow
                     /\ Advance(src.at, l, {}, {}, FALSE, NoLine)
                ELSE Advance(l, l, cs, IF InFlow THEN {l} ELSE {}, ~InFlow, NoLine)
             /\ builder' = EndContainer(Absorb(builder, cs), l)
<1>1. \E l \in Ends, pair \in BOOLEAN : \E cs \in Comments(l) : A(l, pair, cs)
  BY Zenon DEF End
<1> HIDE DEF A
<1>2. PICK l \in Ends, pair \in BOOLEAN : \E cs \in Comments(l) : A(l, pair, cs)
  BY <1>1
<1>3. PICK cs \in Comments(l) : A(l, pair, cs)
  BY <1>2
<1>4. builder.stack # <<>> /\ nest # <<>> /\ event' # "Scalar"
  BY EndHasTop
<1>5. ~InFlow /\ ~TopOf(builder).flow
  BY <1>4, NoFlow DEF InFlow
<1> DEFINE trail == {}
           lines == {}
           held == TRUE
<1>6. Readable(l, l, cs, trail) /\ builder' = EndContainer(Absorb(builder, cs), l)
  BY <1>3 DEF A
<1>7. Advance(l, l, cs, {}, TRUE, NoLine)
  BY <1>3, <1>5 DEF A
<1>8. /\ src'.at = l /\ src'.ahead = l /\ src'.held = held
      /\ src'.comments = src.comments \cup cs /\ src'.content = src.content \cup lines
  BY <1>7 DEF Advance
<1>9. l \in Lines /\ (src.held => l = src.at)
  BY BeginsAre DEF Ends
<1>10. trail \in Trails(l) /\ cs = cs \cup trail
  BY DEF Trails
<1>11. lines \in SUBSET Lines /\ \A x \in lines : src.at <= x /\ x <= l
  OBVIOUS
<1>12. l <= l
  BY <1>9, LinesAre
<1> HIDE DEF trail, lines, held
<1>13. Reaches(src', l, cs, lines, held)
  BY <1>6, <1>8, <1>9, <1>10, <1>11, <1>12, ReadsOn
<1>14. Reaches(src', l, cs, {}, TRUE)
  BY <1>13 DEF lines, held
<1>15. QED
  BY <1>4, <1>6, <1>9, <1>14, EndLevel

LEMMA StartedIs ==
  ASSUME NEW t, NEW n, NEW b, Sound(b, t, n), NEW l
  PROVE  LET c == Started(b, l)
         IN  c.meta = b.meta /\ c.stack = b.stack /\ c.lastLine = l
BY DEF Started, Sound, BuilderType

LEMMA EndedIs ==
  ASSUME NEW t, NEW n, NEW b, Sound(b, t, n), NEW explicit
  PROVE  LET c == Ended(b, explicit)
         IN  c.meta = b.meta /\ c.stack = b.stack /\ c.lastLine = b.lastLine
<1> DEFINE k == Len(b.docsMeta)
           own == [start |-> IF k = 0 THEN 0 ELSE b.docsMeta[k].start,
                   end |-> b.docEnds + 1, explicit_end |-> explicit]
           r == IF k = 0 THEN <<own>> ELSE [b.docsMeta EXCEPT ![k] = own]
<1>1. Ended(b, explicit) = [b EXCEPT !.docEnds = @ + 1, !.hasRoot = FALSE, !.docsMeta = r]
  BY DEF Ended, Sound, BuilderType
<1> HIDE DEF r
<1>2. QED
  BY <1>1 DEF Sound, BuilderType

\* No collection is open before or behind a root.
LEMMA NoneOpen ==
  ASSUME IInv, nest = <<>> \/ nest = <<"done">>
  PROVE  builder.stack = <<>>
<1>1. Follows(builder, nest) /\ Sound(builder, text, Len(builder.meta))
  BY DEF IInv, Good
<1>2. Len(builder.stack) = 0
  BY <1>1 DEF Follows
<1>3. builder.stack \in Seq(FrameType(text, Len(builder.meta)))
  BY <1>1, FieldTypes
<1>4. QED
  BY <1>2, <1>3

LEMMA DocumentStartLevel ==
  ASSUME IInv, Neat, Plainly, Levelled(builder, src, nest, event), DocumentStart
  PROVE  Levelled(builder', src', nest', event')
<1> DEFINE A(explicit, l, r, cs, trail) ==
             /\ Readable(l, r, cs, trail)
             /\ l \notin src.content /\ (src.held => l = src.at)
             /\ ~explicit /\ builder.docEnds > 0 => builder.docsMeta[builder.docEnds].explicit_end
             /\ IF trail = {}
                THEN r = l /\ Advance(l, l, cs, {l}, ~explicit, NoLine)
                ELSE /\ ~explicit /\ {"quoted", "flow", "wrapped"} \cap text.forms # {}
                     /\ r = l \/ "wrapped" \in text.forms
                     /\ Advance(l, l, cs \cup trail, l .. r, TRUE, r)
             /\ LET b == Absorb(builder, cs \cup trail)
                    own == b.before \cap {l}
                IN  builder' = [b EXCEPT !.hasRoot = FALSE, !.nextMeta = b.docEnds + 1,
                                         !.lastLine = l, !.before = @ \ own,
                                         !.inline = IF own = {} THEN @ ELSE l]
<1>1. \E explicit \in BOOLEAN, l \in Lines, r \in Lines :
      \E cs \in Comments(l), trail \in Trails(r) : A(explicit, l, r, cs, trail)
  BY Zenon DEF DocumentStart
<1> HIDE DEF A
<1>2. PICK explicit \in BOOLEAN, l \in Lines, r \in Lines :
        \E cs \in Comments(l), trail \in Trails(r) : A(explicit, l, r, cs, trail)
  BY <1>1
<1>3. PICK cs \in Comments(l), trail \in Trails(r) : A(explicit, l, r, cs, trail)
  BY <1>2
<1>4. nest = <<>> /\ event' # "Scalar"
  BY DEF DocumentStart, ES!DocumentStart
<1>5. r = l /\ Readable(l, r, cs, trail)
  BY <1>3 DEF A, Plainly
<1>6. l \in Nat /\ l .. r = {l}
  BY <1>5, LinesAre
<1> DEFINE both == cs \cup trail
           lines == {l}
           held == IF trail = {} THEN ~explicit ELSE TRUE
           b == Absorb(builder, both)
<1>7. /\ src'.at = r /\ src'.ahead = r /\ src'.held = held
      /\ src'.comments = src.comments \cup both /\ src'.content = src.content \cup lines
  <2>1. CASE trail = {}
    <3>1. Advance(l, l, cs, {l}, ~explicit, NoLine) /\ both = cs
      BY <1>3, <2>1 DEF A
    <3>2. QED
      BY <1>5, <2>1, <3>1 DEF Advance
  <2>2. CASE trail # {}
    <3>1. Advance(l, l, both, {l}, TRUE, r)
      BY <1>3, <1>6, <2>2 DEF A
    <3>2. QED
      BY <1>5, <2>2, <3>1 DEF Advance
  <2>3. QED
    BY <2>1, <2>2
<1>8. builder' = Started(b, l)
  BY <1>3 DEF A, Started
<1>9. src.at <= l /\ src.at \in Nat
  <2>1. src.ahead = src.at /\ src.at \in Nat
    BY LinesAre DEF Levelled, InStep
  <2>2. QED
    BY <1>5, <2>1 DEF Readable
<1>10. lines \in SUBSET Lines /\ r <= r /\ \A x \in lines : src.at <= x /\ x <= r
  BY <1>5, <1>6, <1>9
<1>11. both = cs \cup trail
  OBVIOUS
<1> HIDE DEF both, lines, held
<1>12. Reaches(src', r, both, lines, held)
  BY <1>5, <1>7, <1>10, <1>11, ReadsOn
<1>13. Reaches(src', l, both, lines, held)
  BY <1>5, <1>12
<1>14. Sound(b, text, Len(b.meta))
  BY <1>13, AbsorbsLevel DEF Reaches
<1>15. builder'.meta = b.meta /\ builder'.stack = b.stack /\ builder'.lastLine = l
  BY <1>8, <1>14, StartedIs
<1>16. builder.stack = <<>>
  BY <1>4, NoneOpen
<1>17. QED
  BY <1>4, <1>13, <1>15, <1>16, IdleLevel

LEMMA DocumentEndLevel ==
  ASSUME IInv, Neat, Plainly, Levelled(builder, src, nest, event), DocumentEnd
  PROVE  Levelled(builder', src', nest', event')
<1> DEFINE A(explicit, l, cs) ==
             /\ Readable(l, l, cs, {})
             /\ Advance(l, l, cs, IF explicit THEN {l} ELSE {}, ~explicit, NoLine)
             /\ LET b == Absorb(builder, cs)
                    n == Len(b.docsMeta)
                    own == [start |-> IF n = 0 THEN 0 ELSE b.docsMeta[n].start,
                            end |-> b.docEnds + 1, explicit_end |-> explicit]
                IN  builder' = [b EXCEPT !.docEnds = @ + 1, !.hasRoot = FALSE,
                                         !.docsMeta = IF n = 0 THEN <<own>> ELSE [@ EXCEPT ![n] = own]]
<1>1. \E explicit \in BOOLEAN, l \in Ends : \E cs \in Comments(l) : A(explicit, l, cs)
  BY Zenon DEF DocumentEnd
<1> HIDE DEF A
<1>2. PICK explicit \in BOOLEAN, l \in Ends : \E cs \in Comments(l) : A(explicit, l, cs)
  BY <1>1
<1>3. PICK cs \in Comments(l) : A(explicit, l, cs)
  BY <1>2
<1>4. nest = <<"done">> /\ nest' = <<>> /\ event' # "Scalar"
  BY DEF DocumentEnd, ES!DocumentEnd
<1> DEFINE trail == {}
           lines == IF explicit THEN {l} ELSE {}
           held == ~explicit
           b == Absorb(builder, cs)
<1>5. Readable(l, l, cs, trail)
  BY <1>3 DEF A
<1>6. /\ src'.at = l /\ src'.ahead = l /\ src'.held = held
      /\ src'.comments = src.comments \cup cs /\ src'.content = src.content \cup lines
  BY <1>3 DEF A, Advance
<1>7. builder' = Ended(b, explicit)
  BY <1>3, Zenon DEF A, Ended
<1>8. l \in Lines /\ l \in Nat /\ trail \in Trails(l) /\ cs = cs \cup trail
  BY BeginsAre, LinesAre DEF Trails
<1>9. src.at <= l /\ src.at \in Nat
  <2>1. src.ahead = src.at /\ src.at \in Nat
    BY LinesAre DEF Levelled, InStep
  <2>2. QED
    BY <1>5, <2>1 DEF Readable
<1>10. lines \in SUBSET Lines /\ l <= l /\ \A x \in lines : src.at <= x /\ x <= l
  BY <1>8, <1>9
<1> HIDE DEF trail, lines, held
<1>11. Reaches(src', l, cs, lines, held)
  BY <1>5, <1>6, <1>8, <1>10, ReadsOn
<1>12. Sound(b, text, Len(b.meta)) /\ b.lastLine = builder.lastLine
  BY <1>11, AbsorbsLevel DEF Reaches, Absorbed
<1>13. builder'.meta = b.meta /\ builder'.stack = b.stack /\ builder'.lastLine = builder.lastLine
  BY <1>7, <1>12, EndedIs
<1>14. builder.stack = <<>>
  BY <1>4, NoneOpen
<1>15. QED
  BY <1>4, <1>8, <1>11, <1>13, <1>14, IdleLevel

LEMMA StreamStartLevel ==
  ASSUME IInv, Neat, Levelled(builder, src, nest, event), StreamStart
  PROVE  Levelled(builder', src', nest', event')
<1> DEFINE cs == {}
           b == Absorb(builder, cs)
<1>1. builder' = b /\ src' = src /\ nest' = nest /\ event' # "Scalar"
  BY DEF StreamStart, ES!StreamStart
<1>2. cs \subseteq Lines /\ Fresh(cs)
  BY DEF Fresh
<1>3. Absorbed(builder, b, cs) /\ Blocks(b) /\ Funded(b, src) /\ (HasKey(b) <=> HasKey(builder))
  BY <1>2, AbsorbsLevel
<1> HIDE DEF cs, b
<1>4. b.lastLine = builder.lastLine /\ builder.before \subseteq b.before
  BY <1>3 DEF Absorbed
<1>5. InStep(b, src)
  BY <1>3, <1>4 DEF Levelled, InStep
<1>6. nest # <<>> => Behind(b, src)
  BY <1>4 DEF Levelled, Behind
<1>7. QED
  BY <1>1, <1>3, <1>5, <1>6 DEF Levelled

LEMMA StreamEndLevel ==
  ASSUME IInv, Neat, Levelled(builder, src, nest, event), StreamEnd
  PROVE  Levelled(builder', src', nest', event')
<1>1. PICK l \in Ends : \E cs \in Comments(l) :
        ReadTo(l, l, cs, {}, l, FALSE) /\ builder' = Absorb(builder, cs)
  BY DEF StreamEnd
<1>2. PICK cs \in Comments(l) : ReadTo(l, l, cs, {}, l, FALSE) /\ builder' = Absorb(builder, cs)
  BY <1>1
<1>3. nest = <<>> /\ nest' = <<>> /\ event' # "Scalar"
  BY DEF StreamEnd, ES!StreamEnd
<1> DEFINE trail == {}
           lines == (l .. l) \cup {l}
           held == FALSE
           b == Absorb(builder, cs)
<1>4. Readable(l, l, cs, trail)
  BY <1>2 DEF ReadTo
<1>5. /\ src'.at = l /\ src'.ahead = l /\ src'.held = held
      /\ src'.comments = src.comments \cup cs /\ src'.content = src.content \cup lines
  BY <1>2 DEF ReadTo, Advance
<1>6. l \in Lines /\ l \in Nat /\ trail \in Trails(l) /\ cs = cs \cup trail
  BY BeginsAre, LinesAre DEF Trails
<1>7. src.at <= l /\ src.at \in Nat
  <2>1. src.ahead = src.at /\ src.at \in Nat
    BY LinesAre DEF Levelled, InStep
  <2>2. QED
    BY <1>4, <2>1 DEF Readable
<1>8. lines \in SUBSET Lines /\ l <= l /\ \A x \in lines : src.at <= x /\ x <= l
  BY <1>6, <1>7
<1> HIDE DEF trail, lines, held
<1>9. Reaches(src', l, cs, lines, held)
  BY <1>4, <1>5, <1>6, <1>8, ReadsOn
<1>10. b.lastLine = builder.lastLine
  BY <1>9, AbsorbsLevel DEF Reaches, Absorbed
<1>11. builder.stack = <<>>
  BY <1>3, NoneOpen
<1>12. builder'.meta = b.meta /\ builder'.stack = b.stack /\ builder'.lastLine = builder.lastLine
  BY <1>2, <1>10
<1>13. QED
  BY <1>3, <1>6, <1>9, <1>11, <1>12, IdleLevel

LEMMA InitLevel == Init => Level
<1> SUFFICES ASSUME Init PROVE Levelled(builder, src, nest, event)
  BY DEF Level
<1>1. /\ builder.stack = <<>> /\ builder.meta = <<>> /\ builder.lastLine = 0
      /\ Len(builder.stack) = 0 /\ Len(builder.meta) = 0
  BY DEF Init, NoLine
<1>2. /\ src.at = 1 /\ src.ahead = 1 /\ Full(src) = {} /\ nest = <<>> /\ event = "Nothing"
  BY DEF Init, Full, ES!ESInit
<1>3. Blocks(builder) /\ ~HasKey(builder)
  BY <1>1 DEF Blocks, HasKey
<1>4. InStep(builder, src)
  BY <1>1, <1>2, <1>3 DEF InStep
<1>5. Kept(builder) = {}
  <2>1. \A k, i, j : ~HasBlank(builder, k, i, j)
    BY <1>1 DEF HasBlank
  <2>2. QED
    BY <2>1 DEF Kept
<1>6. Free(builder.lastLine, src) = {}
  BY <1>1 DEF Free
<1>7. IsFiniteSet({}) /\ Cardinality({}) = 0
  BY FS_EmptySet
<1>8. Funded(builder, src)
  BY <1>5, <1>6, <1>7 DEF Funded
<1>9. QED
  BY <1>2, <1>4, <1>8 DEF Levelled

LEMMA NextLevel == IInv /\ Neat /\ Level /\ [Next]_vars => Level'
<1> SUFFICES ASSUME IInv, Neat, Level, [Next]_vars PROVE Level'
  OBVIOUS
<1>1. CASE UNCHANGED vars
  <2>1. text' = text /\ builder' = builder /\ src' = src /\ nest' = nest /\ event' = event
    BY <1>1 DEF vars
  <2>2. QED
    BY <2>1 DEF Level, Plainly
<1>2. CASE Next
  <2>1. text' = text
    BY <1>2 DEF Next
  <2>2. SUFFICES ASSUME Plainly PROVE Levelled(builder', src', nest', event')
    BY <2>1 DEF Level, Plainly, Levelled, InStep, Funded, Behind, AtScalar
  <2>3. Levelled(builder, src, nest, event)
    BY <2>2 DEF Level
  <2>4. ~Empty
    BY <2>2 DEF Empty, Plainly
  <2>5. ~Alias
    BY <2>2 DEF Alias, Plainly, IInv
  <2>6. CASE StreamStart
    BY <2>3, <2>6, StreamStartLevel
  <2>7. CASE DocumentStart
    BY <2>2, <2>3, <2>7, DocumentStartLevel
  <2>8. CASE DocumentEnd
    BY <2>2, <2>3, <2>8, DocumentEndLevel
  <2>9. CASE StreamEnd
    BY <2>3, <2>9, StreamEndLevel
  <2>10. CASE Plain
    BY <2>2, <2>3, <2>10, PlainLevel
  <2>11. CASE Quoted
    BY <2>2, <2>3, <2>11, QuotedLevel
  <2>12. CASE Block
    BY <2>2, <2>3, <2>12, BlockLevel
  <2>13. CASE MappingStart \/ SequenceStart
    BY <2>2, <2>3, <2>13, StartsLevel DEF MappingStart, SequenceStart
  <2>14. CASE MappingEnd \/ SequenceEnd
    BY <2>2, <2>3, <2>14, EndsLevel DEF MappingEnd, SequenceEnd
  <2>15. QED
    BY <1>2, <2>4, <2>5, <2>6, <2>7, <2>8, <2>9, <2>10, <2>11, <2>12, <2>13, <2>14 DEF Next
<1>3. QED
  BY <1>1, <1>2

\* Every recorded blank line is one that is kept, and has been paid for.
LEMMA LevelBlankLines == IInv /\ Level => BlankLinesAreReal
<1> SUFFICES ASSUME IInv, Level, Plainly
             PROVE  Cardinality(Recorded) <= Cardinality((1 .. src.at) \ (src.comments \cup src.content))
  BY DEF BlankLinesAreReal
<1>1. Funded(builder, src) /\ builder.lastLine <= src.at
  BY DEF Level, Levelled, InStep
<1>2. src.at \in Nat /\ builder.lastLine \in Nat /\ Len(builder.meta) \in Nat
  <2>1. Sound(builder, text, Len(builder.meta))
    BY DEF IInv, Good
  <2>2. QED
    BY <2>1, LinesAre DEF Sound
<1>3. Nodes = 1 .. Len(builder.meta)
  <2>1. builder.meta \in Seq(NodeType(text))
    BY FieldTypes DEF IInv, Good
  <2>2. QED
    BY <2>1 DEF Nodes
<1>4. Recorded \subseteq Kept(builder)
  <2>1. SUFFICES ASSUME NEW p \in Recorded PROVE p \in Kept(builder)
    OBVIOUS
  <2>2. PICK n \in Nodes : \/ p \in {<<"above", n>>} \X (1 .. builder.meta[n].blanks)
                           \/ p \in {<<"below", n>>} \X (1 .. builder.meta[n].trailing)
    BY DEF Recorded
  <2>3. n \in 1 .. Len(builder.meta) /\ n \in Nat
    BY <1>2, <1>3
  <2>4. CASE p \in {<<"above", n>>} \X (1 .. builder.meta[n].blanks)
    <3>1. PICK j \in 1 .. builder.meta[n].blanks : p = <<<<"above", n>>, j>>
      BY <2>4
    <3>2. HasBlank(builder, p[1][1], p[1][2], p[2])
      BY <2>3, <3>1 DEF HasBlank
    <3>3. p \in ({"above", "below", "frame"} \X Nat) \X Nat
      BY <2>3, <3>1
    <3>4. QED
      BY <3>2, <3>3 DEF Kept
  <2>5. CASE p \in {<<"below", n>>} \X (1 .. builder.meta[n].trailing)
    <3>1. PICK j \in 1 .. builder.meta[n].trailing : p = <<<<"below", n>>, j>>
      BY <2>5
    <3>2. HasBlank(builder, p[1][1], p[1][2], p[2])
      BY <2>3, <3>1 DEF HasBlank
    <3>3. p \in ({"above", "below", "frame"} \X Nat) \X Nat
      BY <2>3, <3>1
    <3>4. QED
      BY <3>2, <3>3 DEF Kept
  <2>6. QED
    BY <2>2, <2>4, <2>5
<1> DEFINE R == Recorded
           K == Kept(builder)
           F == Free(builder.lastLine, src)
           E == 1 .. src.at
           G == E \ (src.comments \cup src.content)
<1>5. F \subseteq G
  BY <1>1, <1>2 DEF Free, Full
<1>6. IsFiniteSet(E)
  <2>1. 1 \in Int /\ src.at \in Int
    BY <1>2
  <2>2. QED
    BY <2>1, FS_Interval
<1>7. IsFiniteSet(G)
  BY <1>6, FS_Difference
<1>8. R \subseteq K /\ IsFiniteSet(K) /\ Cardinality(K) <= Cardinality(F)
  BY <1>1, <1>4 DEF Funded
<1> HIDE DEF R, K, F, E, G
<1>9. IsFiniteSet(R) /\ Cardinality(R) <= Cardinality(K) /\ IsFiniteSet(F) /\ Cardinality(F) <= Cardinality(G)
  BY <1>5, <1>7, <1>8, FS_Subset
<1>10. Cardinality(R) \in Nat /\ Cardinality(K) \in Nat /\ Cardinality(F) \in Nat /\ Cardinality(G) \in Nat
  BY <1>7, <1>8, <1>9, FS_CardinalityType
<1>11. Cardinality(R) <= Cardinality(G)
  BY <1>8, <1>9, <1>10
<1>12. QED
  BY <1>11 DEF R, G, E

\* No blank line is counted for two nodes and none is invented, whatever the texts and
\* their bounds.
THEOREM BlankLinesExist == Spec => []BlankLinesAreReal
<1>1. Init => IInv /\ Neat /\ Level
  BY InitGood, InitNeat, InitLevel
<1>2. IInv /\ Neat /\ Level /\ [Next]_vars => IInv' /\ Neat' /\ Level'
  BY NextKeeps, NextNeat, NextLevel
<1>3. IInv /\ Level => BlankLinesAreReal
  BY LevelBlankLines
<1>4. QED
  BY <1>1, <1>2, <1>3, PTL DEF Spec

LEMMA MinOfRange ==
  ASSUME NEW lo \in Nat, NEW hi \in Nat, lo <= hi
  PROVE  Min(lo .. hi) = lo
<1> DEFINE S == lo .. hi
           m == Min(S)
<1>1. lo \in S /\ \A y \in S : lo <= y
  OBVIOUS
<1>2. m \in S /\ \A y \in S : m <= y
  BY <1>1 DEF Min
<1>3. m <= lo /\ lo <= m /\ m \in Int
  BY <1>1, <1>2
<1>4. m = lo
  BY <1>3
<1>5. QED
  BY <1>4

\* The blank lines before the content `fresh'.
GapBefore(fresh) == IF fresh = {} THEN 0 ELSE Min(fresh) - Max(src.content) - 1

\* The last node has as many blank lines above it, up to the limit.
HasGap(c, fresh) == c.meta[Len(c.meta)].blanks = Min({BlankLimit, GapBefore(fresh)})

\* The content that a scalar adds behind another one begins on its line, or on the one
\* below if the other ends there.
LEMMA ItemBlanks ==
  ASSUME IInv, Neat, Levelled(builder, src, nest, event), event = "Scalar",
         InSequence(builder), builder.before = {},
         NEW form, form # "empty", NEW line \in Lines, NEW end \in Lines, NEW last \in Lines,
         NEW r \in Lines, line <= r, src.at <= line,
         NEW k \in KeyTexts, NEW a, a \in text.anchors \cup {None},
         NEW cs, cs = {}, NEW fresh, fresh = (line .. r) \ src.content
  PROVE  HasGap(PlaceScalar(Absorb(builder, cs), form, line, end, last, k, a, src.at), fresh)
<1> DEFINE b == Absorb(builder, cs)
           c == PlaceScalar(b, form, line, end, last, k, a, src.at)
           p == builder.lastLine
           gap == IF line <= p + 1 THEN 0 ELSE line - p - 1
<1> SUFFICES c.meta[Len(c.meta)].blanks = Min({BlankLimit, GapBefore(fresh)})
  BY DEF HasGap
<1> HIDE DEF c
<1>1. cs \subseteq Lines /\ Fresh(cs)
  BY DEF Fresh
<1>2. /\ Sound(b, text, Len(b.meta)) /\ Absorbed(builder, b, cs) /\ Blocks(b)
      /\ HasKey(b) <=> HasKey(builder)
      /\ InSequence(b) <=> InSequence(builder)
      /\ AwaitsKey(b) <=> AwaitsKey(builder)
      /\ b.stack = <<>> <=> builder.stack = <<>>
  BY <1>1, AbsorbsLevel
<1>3. Text(text) /\ Lines = Line(text) /\ src.at \in Lines
  BY TextIs
<1>4. Lines \subseteq Nat /\ src.content \subseteq Lines /\ text.lines \in Nat
  BY <1>3, LinesAre DEF Text
<1>5. AtScalar(builder, src) /\ p <= src.at
  BY DEF Levelled, InStep
<1>6. p \in src.content /\ \A x \in src.content : x <= p
  BY <1>5 DEF AtScalar
<1>7. p \in Lines /\ p \in Nat /\ p # NoLine /\ src.at \in Nat /\ line \in Nat /\ r \in Nat
  BY <1>3, <1>4, <1>6 DEF Lines, NoLine
<1> HIDE DEF b, p
<1>8. Max(src.content) = p
  <2>1. src.content \in SUBSET (0 .. text.lines) /\ src.content # {}
    BY <1>4, <1>6 DEF Lines
  <2>2. Max(src.content) \in src.content /\ \A x \in src.content : x <= Max(src.content)
    BY <1>4, <2>1, MaxIs
  <2>3. Max(src.content) <= p /\ p <= Max(src.content) /\ Max(src.content) \in Nat
    BY <1>4, <1>6, <2>2
  <2>4. QED
    BY <1>7, <2>3
<1>9. b.lastLine = p /\ b.before = {}
  BY <1>2 DEF Absorbed, p
<1>10. Placeable(b, text, line, end, last, src.at, k, a)
  <2>1. k \in Key(text) /\ (builder.stack # <<>> /\ ~InSequence(builder) /\ ~HasKey(builder) => k # NoKey)
    BY KeysAre
  <2>2. QED
    BY <1>2, <1>3, <2>1 DEF Placeable
<1>11. Reads(b, c, form, line, end)
  BY <1>2, <1>3, <1>10, ScalarReads DEF c
<1>12. c.meta[Len(c.meta)].blanks = CountBlankLines(b, line)
  <2>1. ~HasKey(b) /\ InSequence(b)
    BY <1>2 DEF HasKey, InSequence
  <2>2. QED
    BY <1>11, <2>1 DEF Reads, Blanks
<1>13. CountBlankLines(b, line) = IF line <= p + 1 THEN 0 ELSE Min({BlankLimit, line - p - 1})
  <2>1. line \in Line(text) /\ b.lastLine # NoLine
    BY <1>3, <1>7, <1>9
  <2>2. QED
    BY <1>2, <1>3, <1>9, <2>1, CountIsGap
<1>14. Min({BlankLimit, 0}) = 0
  BY BlanksAre, MinOfTwo
<1>15. c.meta[Len(c.meta)].blanks = Min({BlankLimit, gap})
  <2>1. CASE line <= p + 1
    BY <1>12, <1>13, <1>14, <2>1
  <2>2. CASE ~(line <= p + 1)
    BY <1>12, <1>13, <2>2
  <2>3. QED
    BY <2>1, <2>2
<1>16. p <= line
  BY <1>5, <1>7
<1>17. GapBefore(fresh) = gap
  <2>1. CASE p < line
    <3>1. fresh = line .. r
      BY <1>4, <1>6, <1>7, <2>1
    <3>2. fresh # {} /\ Min(fresh) = line
      <4>1. Min(line .. r) = line
        BY <1>7, MinOfRange
      <4>2. line \in line .. r
        BY <1>7
      <4>3. QED
        BY <3>1, <4>1, <4>2
    <3>3. QED
      BY <1>7, <1>8, <2>1, <3>2 DEF GapBefore
  <2>2. CASE p = line
    <3>1. fresh = (p + 1) .. r
      BY <1>4, <1>6, <1>7, <2>2
    <3>2. CASE p + 1 <= r
      <4>1. p + 1 \in Nat
        BY <1>7
      <4>2. Min(fresh) = p + 1
        BY <1>7, <3>1, <3>2, <4>1, MinOfRange
      <4>3. QED
        BY <1>7, <1>8, <2>2, <4>2 DEF GapBefore
    <3>3. CASE ~(p + 1 <= r)
      BY <1>7, <2>2, <3>1, <3>3 DEF GapBefore
    <3>4. QED
      BY <3>2, <3>3
  <2>3. QED
    BY <1>7, <1>16, <2>1, <2>2
<1>18. QED
  BY <1>15, <1>17

\* A scalar has just been read as an item, no comment waits and none is read now.
Quiet ==
  /\ event = "Scalar" /\ InSequence(builder)
  /\ src'.comments = src.comments /\ builder.before = {}

\* The item has as many blank lines above it as the source has, up to the limit.
ItemSpaced ==
  LET fresh == src'.content \ src.content
      gap == IF fresh = {} THEN 0 ELSE Min(fresh) - Max(src.content) - 1
      n == Len(builder'.meta)
  IN  builder'.meta[n].blanks = Min({BlankLimit, gap})

LEMMA ItemRead ==
  ASSUME IInv, Neat, Levelled(builder, src, nest, event), Quiet,
         NEW form, form # "empty", NEW l \in Lines, NEW end \in Lines, NEW last \in Lines,
         NEW r \in Lines, l <= r, NEW x \in Lines,
         NEW k \in KeyTexts, NEW a, a \in text.anchors \cup {None},
         NEW cs \in Comments(l), NEW trail \in Trails(x), Readable(l, x, cs, trail),
         NEW both, both = cs \cup trail, src'.comments = src.comments \cup both,
         NEW lines, lines = l .. r, src'.content = src.content \cup lines,
         builder' = PlaceScalar(Absorb(builder, both), form, l, end, last, k, a, src.at)
  PROVE  ItemSpaced
<1>1. Fresh(both) /\ both \subseteq Lines
  BY ReadFresh, CommentsAre, TrailsAre
<1>2. both = {}
  <2>1. \A y \in both : y \in src.comments /\ y \in Nat
    BY <1>1, LinesAre DEF Quiet
  <2>2. \A y \in both : y < y /\ y \in Nat
    BY <1>1, <2>1 DEF Fresh
  <2>3. QED
    BY <2>2
<1>3. src.at <= l
  <2>1. src.ahead = src.at
    BY DEF Levelled, InStep
  <2>2. QED
    BY <2>1 DEF Readable
<1> DEFINE fresh == src'.content \ src.content
<1>4. fresh = (l .. r) \ src.content
  OBVIOUS
<1> HIDE DEF fresh
<1>5. event = "Scalar" /\ InSequence(builder) /\ builder.before = {}
  BY DEF Quiet
<1>6. HasGap(PlaceScalar(Absorb(builder, both), form, l, end, last, k, a, src.at), fresh)
  BY <1>2, <1>3, <1>4, <1>5, ItemBlanks
<1>7. HasGap(builder', fresh)
  BY <1>6
<1>8. QED
  BY <1>7 DEF HasGap, GapBefore, ItemSpaced, fresh

LEMMA PlainItem ==
  ASSUME IInv, Neat, Levelled(builder, src, nest, event), Quiet, Plain
  PROVE  ItemSpaced
<1>1. PICK l \in Begins, r \in Lines, a \in text.anchors \cup {None}, k \in KeyTexts :
        \E cs \in Comments(l) :
          /\ ReadTo(l, r, cs, {}, l, FALSE) /\ Declare(a)
          /\ builder' = PlaceScalar(Absorb(builder, cs), "plain", l, r, r, k, a, src.at)
  BY Zenon DEF Plain
<1>2. PICK cs \in Comments(l) :
          /\ ReadTo(l, r, cs, {}, l, FALSE)
          /\ builder' = PlaceScalar(Absorb(builder, cs), "plain", l, r, r, k, a, src.at)
  BY <1>1
<1> DEFINE trail == {}
           lines == (l .. r) \cup {l}
           form == "plain"
<1>3. /\ l \in Lines /\ trail \in Trails(r) /\ cs = cs \cup trail /\ form # "empty"
      /\ builder' = PlaceScalar(Absorb(builder, cs), form, l, r, r, k, a, src.at)
  BY <1>2, BeginsAre DEF Trails
<1>4. Readable(l, r, cs, trail) /\ src'.comments = src.comments \cup cs /\ src'.content = src.content \cup lines
  BY <1>2 DEF ReadTo, Advance
<1>5. l \in Nat /\ r \in Nat /\ l <= r
  BY <1>3, <1>4, LinesAre DEF Readable
<1>6. lines = l .. r
  BY <1>5
<1> HIDE DEF trail, lines, form
<1>7. QED
  BY <1>3, <1>4, <1>5, <1>6, ItemRead

LEMMA QuotedItem ==
  ASSUME IInv, Neat, Levelled(builder, src, nest, event), Quiet, Quoted
  PROVE  ItemSpaced
<1>1. PICK l \in Begins, r \in Lines, a \in text.anchors \cup {None}, k \in KeyTexts :
        \E cs \in Comments(l), trail \in Trails(r) :
          /\ (IF l = r THEN "quoted" ELSE "wrapped") \in text.forms
          /\ ReadTo(l, r, cs, trail, l, FALSE) /\ Declare(a)
          /\ builder' = PlaceScalar(Absorb(builder, cs \cup trail), "quoted", l, l, r, k, a, src.at)
  BY Zenon DEF Quoted
<1>2. PICK cs \in Comments(l), trail \in Trails(r) :
          /\ ReadTo(l, r, cs, trail, l, FALSE)
          /\ builder' = PlaceScalar(Absorb(builder, cs \cup trail), "quoted", l, l, r, k, a, src.at)
  BY <1>1
<1> DEFINE both == cs \cup trail
           lines == (l .. r) \cup {l}
           form == "quoted"
<1>3. /\ l \in Lines /\ both = cs \cup trail /\ form # "empty"
      /\ builder' = PlaceScalar(Absorb(builder, both), form, l, l, r, k, a, src.at)
  BY <1>2, BeginsAre
<1>4. Readable(l, r, cs, trail) /\ src'.comments = src.comments \cup both /\ src'.content = src.content \cup lines
  BY <1>2 DEF ReadTo, Advance
<1>5. l \in Nat /\ r \in Nat /\ l <= r
  BY <1>3, <1>4, LinesAre DEF Readable
<1>6. lines = l .. r
  BY <1>5
<1> HIDE DEF both, lines, form
<1>7. QED
  BY <1>3, <1>4, <1>5, <1>6, ItemRead

LEMMA BlockItem ==
  ASSUME IInv, Neat, Levelled(builder, src, nest, event), Quiet, Block
  PROVE  ItemSpaced
<1>1. PICK l \in Begins, end \in Lines, a \in text.anchors \cup {None}, k \in KeyTexts :
        \E cs \in Comments(l), trail \in Trails(l) :
          /\ l < end
          /\ Readable(l, l, cs, trail) /\ Declare(a)
          /\ Advance(end, end, cs \cup trail, l .. end - 1, FALSE, NoLine)
          /\ builder' = PlaceScalar(Absorb(builder, cs \cup trail), "block", l, end, end - 1, k, a, src.at)
  BY Zenon DEF Block
<1>2. PICK cs \in Comments(l), trail \in Trails(l) :
          /\ l < end /\ Readable(l, l, cs, trail)
          /\ Advance(end, end, cs \cup trail, l .. end - 1, FALSE, NoLine)
          /\ builder' = PlaceScalar(Absorb(builder, cs \cup trail), "block", l, end, end - 1, k, a, src.at)
  BY <1>1
<1> DEFINE both == cs \cup trail
           last == end - 1
           lines == l .. last
           form == "block"
<1>3. /\ l \in Lines /\ both = cs \cup trail /\ form # "empty"
      /\ builder' = PlaceScalar(Absorb(builder, both), form, l, end, last, k, a, src.at)
  BY <1>2, BeginsAre
<1>4. Readable(l, l, cs, trail) /\ src'.comments = src.comments \cup both /\ src'.content = src.content \cup lines
  BY <1>2 DEF Advance
<1>5. l \in Nat /\ end \in Nat /\ l < end
  BY <1>2, <1>3, LinesAre
<1>6. l <= last /\ last \in Lines
  <2>1. last \in l .. end - 1
    BY <1>5
  <2>2. QED
    BY <1>3, <1>5, <2>1, Between
<1>7. lines = l .. last
  OBVIOUS
<1> HIDE DEF both, lines, form, last
<1>8. QED
  BY <1>3, <1>4, <1>6, <1>7, ItemRead

LEMMA EveryItem ==
  ASSUME IInv, Neat, Level, Plainly, Next, Quiet, event' = "Scalar"
  PROVE  ItemSpaced
<1>1. Levelled(builder, src, nest, event)
  BY DEF Level
<1>2. ~Empty
  BY DEF Empty, Plainly
<1>3. ~StreamStart /\ ~DocumentStart /\ ~DocumentEnd /\ ~StreamEnd
  BY DEF StreamStart, DocumentStart, DocumentEnd, StreamEnd, ES!StreamStart, ES!DocumentStart,
         ES!DocumentEnd, ES!StreamEnd
<1>4. ~Alias
  BY DEF Alias
<1>5. ~MappingStart /\ ~SequenceStart
  BY DEF MappingStart, SequenceStart, Start, ES!MappingStart, ES!SequenceStart
<1>6. ~MappingEnd /\ ~SequenceEnd
  BY DEF MappingEnd, SequenceEnd, End, ES!MappingEnd, ES!SequenceEnd
<1>7. Plain \/ Quoted \/ Block
  BY <1>2, <1>3, <1>4, <1>5, <1>6, Zenon DEF Next
<1>8. QED
  BY <1>1, <1>7, PlainItem, QuotedItem, BlockItem

\* The blank lines between two scalar items of a sequence are recorded on the second one,
\* all of them and no more.
THEOREM ItemsKeep == Spec => ItemsKeepBlankLines
<1>1. Init => IInv /\ Neat /\ Level
  BY InitGood, InitNeat, InitLevel
<1>2. IInv /\ Neat /\ Level /\ [Next]_vars => IInv' /\ Neat' /\ Level'
  BY NextKeeps, NextNeat, NextLevel
<1>3. IInv /\ Neat /\ Level /\ [Next]_vars =>
        [LET fresh == src'.content \ src.content
             gap == IF fresh = {} THEN 0 ELSE Min(fresh) - Max(src.content) - 1
             n == Len(builder.meta')
         IN  /\ event = "Scalar" /\ event' = "Scalar" /\ InSequence(builder)
             /\ src'.comments = src.comments /\ builder.before = {} /\ Plainly
             => builder.meta'[n].blanks = Min({BlankLimit, gap})]_vars
  <2> SUFFICES ASSUME IInv, Neat, Level, Next,
                      event = "Scalar", event' = "Scalar", InSequence(builder),
                      src'.comments = src.comments, builder.before = {}, Plainly
               PROVE  LET fresh == src'.content \ src.content
                          gap == IF fresh = {} THEN 0 ELSE Min(fresh) - Max(src.content) - 1
                          n == Len(builder.meta')
                      IN  builder.meta'[n].blanks = Min({BlankLimit, gap})
    OBVIOUS
  <2>1. Quiet
    BY DEF Quiet
  <2>2. QED
    BY <2>1, EveryItem DEF ItemSpaced
<1>4. QED
  BY <1>1, <1>2, <1>3, PTL DEF Spec, ItemsKeepBlankLines

================================================================================
