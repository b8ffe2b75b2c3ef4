------------------------------ MODULE ParserProofs ------------------------------
(***************************************************************************)
(* Type correctness of the parser, the discipline of its return stack, the *)
(* step to EventStream and the markers between documents, for every token  *)
(* stream, every set of names and handles and any number of failed calls.  *)
(***************************************************************************)
EXTENDS Parser, SequenceFacts

StackState == Continuations \cup {"DocumentEnd"}

Cursor == [token : Token \cup {NoToken}, scan : {"start", "open", "ended", "error"}]

\* The return stack inside a document.
Stack(stk) ==
  /\ stk \in Seq(StackState) /\ stk # <<>>
  /\ \A i \in 1 .. Len(stk) : stk[i] = "DocumentEnd" <=> i = 1

\* What the pair of the current state and the return stack always satisfies.
Control(st, stk) ==
  \/ st \in Outside /\ stk = <<>>
  \/ st \in Inside /\ Stack(stk)

Inv ==
  /\ Control(state, states)
  /\ cur \in Cursor
  /\ anchors \subseteq Names /\ tags \subseteq Handles
  /\ event \in Events
  /\ boundary \in [event : Events, explicit : BOOLEAN, directives : BOOLEAN]
  /\ errors \in Nat

\* Popping the return stack leaves the automaton in a legal configuration.
LEMMA PopControl ==
  ASSUME NEW stk, Stack(stk)
  PROVE  Control(stk[Len(stk)], SubSeq(stk, 1, Len(stk) - 1))
<1>1. /\ stk \in Seq(StackState) /\ Len(stk) \in Nat \ {0}
      /\ \A i \in 1 .. Len(stk) : stk[i] \in StackState
  BY EmptySeq, LenProperties, ElementOfSeq DEF Stack
<1>2. PICK n \in Nat : n + 1 = Len(stk)
  <2>1. Len(stk) - 1 \in Nat /\ (Len(stk) - 1) + 1 = Len(stk)
    BY <1>1
  <2>2. QED
    BY <2>1
<1>3. Len(stk) - 1 = n
  BY <1>2
<1>4. CASE n = 0
  <2>1. Len(stk) = 1 /\ stk[1] = "DocumentEnd"
    BY <1>2, <1>4 DEF Stack
  <2>2. SubSeq(stk, 1, 0) = <<>>
    BY SubSeqEmpty
  <2>3. QED
    BY <1>3, <1>4, <2>1, <2>2 DEF Control, Outside
<1>5. CASE n # 0
  <2> DEFINE rest == SubSeq(stk, 1, n)
  <2>1. \A i \in 1 .. n : stk[i] \in StackState
    BY <1>1, <1>2
  <2>2. /\ rest \in Seq(StackState) /\ Len(rest) = n
        /\ \A i \in 1 .. n : rest[i] = stk[i]
    BY <1>5, <2>1, SubSeqProperties
  <2> HIDE DEF rest
  <2>3. Stack(rest)
    <3>1. rest # <<>>
      BY <1>5, <2>2, EmptySeq
    <3>2. \A i \in 1 .. Len(rest) : rest[i] = "DocumentEnd" <=> i = 1
      BY <1>2, <2>2 DEF Stack
    <3>3. QED
      BY <2>2, <3>1, <3>2 DEF Stack
  <2>4. stk[n + 1] \in Continuations
    BY <1>1, <1>2, <1>5 DEF Stack, StackState
  <2>5. Control(stk[n + 1], rest)
    BY <2>3, <2>4 DEF Control, Inside
  <2>6. QED
    BY <1>2, <1>3, <2>5 DEF rest
<1>6. QED
  BY <1>4, <1>5

\* Pushing a continuation onto the stack of a document keeps its shape.
LEMMA PushStack ==
  ASSUME NEW stk, Stack(stk), NEW s \in Continuations
  PROVE  Stack(Append(stk, s))
<1>1. stk \in Seq(StackState) /\ s \in StackState
  BY DEF Stack, StackState
<1>2. Len(stk) \in Nat \ {0}
  BY <1>1, EmptySeq DEF Stack
<1>3. /\ Append(stk, s) \in Seq(StackState)
      /\ Append(stk, s) # <<>>
      /\ Len(Append(stk, s)) = Len(stk) + 1
      /\ \A i \in 1 .. Len(stk) : Append(stk, s)[i] = stk[i]
      /\ Append(stk, s)[Len(stk) + 1] = s
  BY <1>1, AppendProperties
<1>4. s # "DocumentEnd"
  BY DEF Continuations
<1>5. QED
  BY <1>2, <1>3, <1>4 DEF Stack

\* The document starts with a stack of one state.
LEMMA FirstStack == Stack(Append(<<>>, "DocumentEnd"))
<1>1. Append(<<>>, "DocumentEnd") = <<"DocumentEnd">>
  OBVIOUS
<1>2. <<"DocumentEnd">> \in Seq(StackState)
  BY DEF StackState
<1>3. QED
  BY <1>1, <1>2 DEF Stack

\* A peek yields cursors that hold a token.
LEMMA PeekType ==
  ASSUME NEW c \in Cursor, NEW d \in Peek(c)
  PROVE  d \in Cursor /\ d.token \in Token /\ Skip(d) \in Cursor
<1>1. d \in Cursor /\ d.token # NoToken
  <2>1. CASE c.token # NoToken
    BY <2>1 DEF Peek
  <2>2. CASE c.token = NoToken /\ c.scan = "start"
    <3>1. d = [token |-> StreamStartToken, scan |-> "open"]
      BY <2>2 DEF Peek
    <3>2. StreamStartToken # NoToken
      BY DEF StreamStartToken, NoToken, Tok
    <3>3. QED
      BY <3>1, <3>2 DEF Cursor, Token
  <2>3. CASE c.token = NoToken /\ c.scan = "open"
    <3>1. PICK t \in Plain \cup Named \cup Openers :
                 d = [token |-> t, scan |-> IF t.kind = "StreamEnd" THEN "ended" ELSE "open"]
      BY <2>3 DEF Peek
    <3>2. t # NoToken
      <4>1. t.kind # "None"
        BY <3>1 DEF Plain, Named, Openers, Tok
      <4>2. QED
        BY <4>1 DEF NoToken, Tok
    <3>3. QED
      BY <3>1, <3>2 DEF Cursor, Token
  <2>4. CASE c.token = NoToken /\ c.scan \notin {"start", "open"}
    BY <2>4 DEF Peek
  <2>5. QED
    BY <2>1, <2>2, <2>3, <2>4
<1>2. QED
  BY <1>1 DEF Cursor, Skip

\* So do the cursors of a first entry, which has dropped a token.
LEMMA EntryType ==
  ASSUME cur \in Cursor, NEW first \in BOOLEAN, NEW c \in Entry(first)
  PROVE  c \in Cursor /\ c.token \in Token /\ Skip(c) \in Cursor
<1>1. CASE first
  <2>1. PICK d \in Peek(cur) : c \in Peek(Skip(d))
    BY <1>1 DEF Entry
  <2>2. QED
    BY <2>1, PeekType
<1>2. CASE ~first
  BY <1>2, PeekType DEF Entry
<1>3. QED
  BY <1>1, <1>2

-------------------------------------------------------------------------------
(***************************************************************************)
(* The ways a call returns keep the invariant.                             *)
(***************************************************************************)
LEMMA ReturnInv ==
  ASSUME Inv, NEW ev \in Events, NEW c \in Cursor, NEW st, NEW stk, Control(st, stk),
         Return(ev, c, st, stk)
  PROVE  Inv'
BY DEF Inv, Return

LEMMA ReturnPopInv ==
  ASSUME Inv, NEW ev \in Events, NEW c \in Cursor, NEW stk, Stack(stk),
         ReturnPop(ev, c, stk)
  PROVE  Inv'
BY PopControl, ReturnInv DEF ReturnPop

LEMMA RejectInv ==
  ASSUME Inv, NEW c \in Cursor, NEW st, NEW stk, Control(st, stk), Reject(c, st, stk),
         anchors' \subseteq Names, tags' \subseteq Handles
  PROVE  Inv'
<1>1. "Error" \in Events /\ errors' \in Nat
  BY DEF Inv, Reject, Events
<1>2. QED
  BY <1>1 DEF Inv, Reject

LEMMA ErrInv ==
  ASSUME Inv, NEW c \in Cursor, Err(c)
  PROVE  Inv'
BY RejectInv DEF Err, Inv

\* Inside a document the stack is that of a document.
LEMMA InsideStack ==
  ASSUME Inv, state \in Inside
  PROVE  Stack(states)
BY DEF Inv, Control, Inside, Outside, Continuations

-------------------------------------------------------------------------------
(***************************************************************************)
(* parse_node.                                                             *)
(***************************************************************************)
\* The anchor a token carries is one of Names.
LEMMA AnchorName ==
  ASSUME NEW t \in Token, t.kind = "Anchor"
  PROVE  t.name \in Names
BY DEF Token, Openers, Plain, Named, StreamStartToken, Tok

\* What Properties returns for a cursor that holds a token.
LEMMA PropertiesType ==
  ASSUME NEW c \in Cursor, c.token \in Token, NEW p \in Properties(c)
  PROVE  p.cur \in Cursor /\ p.anchor \in Names \cup {None}
<1> DEFINE TagThen(d, a) ==
        IF Resolves(d.token)
        THEN {[cur |-> e, anchor |-> a, ok |-> TRUE, tagged |-> TRUE] : e \in Peek(Skip(d))}
        ELSE {[cur |-> Skip(d), anchor |-> a, ok |-> FALSE, tagged |-> TRUE]}
<1>0. Skip(c) \in Cursor
  BY DEF Cursor, Skip
<1>1. ASSUME NEW d \in Cursor, d.token \in Token, NEW a \in Names \cup {None},
             NEW q \in TagThen(d, a)
      PROVE  /\ q.cur \in Cursor /\ (q.ok => q.cur.token \in Token)
             /\ q = [cur |-> q.cur, anchor |-> a, ok |-> q.ok, tagged |-> TRUE]
  <2>1. Skip(d) \in Cursor
    BY <1>1 DEF Cursor, Skip
  <2>2. CASE Resolves(d.token)
    <3>1. PICK e \in Peek(Skip(d)) :
                 q = [cur |-> e, anchor |-> a, ok |-> TRUE, tagged |-> TRUE]
      BY <1>1, <2>2
    <3>2. QED
      BY <2>1, <3>1, PeekType
  <2>3. CASE ~Resolves(d.token)
    <3>1. q = [cur |-> Skip(d), anchor |-> a, ok |-> FALSE, tagged |-> TRUE]
      BY <1>1, <2>3
    <3>2. QED
      BY <2>1, <3>1
  <2>4. QED
    BY <2>2, <2>3
<1> HIDE DEF TagThen
<1>2. CASE Kind(c) = "Anchor"
  <2>1. c.token.name \in Names
    BY <1>2, AnchorName DEF Kind
  <2>2. PICK d \in Peek(Skip(c)) :
          p \in IF Kind(d) = "Tag"
                THEN TagThen(d, c.token.name)
                ELSE {[cur |-> d, anchor |-> c.token.name, ok |-> TRUE, tagged |-> FALSE]}
    BY <1>2 DEF Properties, TagThen
  <2>3. d \in Cursor /\ d.token \in Token
    BY <1>0, PeekType
  <2>4. CASE Kind(d) = "Tag"
    BY <1>1, <2>1, <2>2, <2>3, <2>4
  <2>5. CASE Kind(d) # "Tag"
    BY <2>1, <2>2, <2>3, <2>5
  <2>6. QED
    BY <2>4, <2>5
<1>3. CASE Kind(c) = "Tag"
  <2>1. PICK q \in TagThen(c, None) :
          p \in IF q.ok /\ Kind(q.cur) = "Anchor"
                THEN {[q EXCEPT !.cur = e, !.anchor = q.cur.token.name] :
                        e \in Peek(Skip(q.cur))}
                ELSE {q}
    BY <1>3 DEF Properties, TagThen
  <2>2. /\ q.cur \in Cursor /\ (q.ok => q.cur.token \in Token)
        /\ q = [cur |-> q.cur, anchor |-> None, ok |-> q.ok, tagged |-> TRUE]
    BY <1>1, <2>1
  <2>3. CASE q.ok /\ Kind(q.cur) = "Anchor"
    <3>1. q.cur.token.name \in Names /\ Skip(q.cur) \in Cursor
      BY <2>2, <2>3, AnchorName DEF Kind, Cursor, Skip
    <3>2. PICK e \in Peek(Skip(q.cur)) :
                 p = [q EXCEPT !.cur = e, !.anchor = q.cur.token.name]
      BY <2>1, <2>3
    <3>3. e \in Cursor
      BY <3>1, <3>2, PeekType
    <3>4. QED
      BY <2>2, <3>1, <3>2, <3>3
  <2>4. CASE ~(q.ok /\ Kind(q.cur) = "Anchor")
    <3>1. q.anchor = None
      BY <2>2
    <3>2. p = q
      BY <2>1, <2>4
    <3>3. QED
      BY <2>2, <3>1, <3>2
  <2>5. QED
    BY <2>3, <2>4
<1>4. CASE Kind(c) \notin {"Anchor", "Tag"}
  <2>1. p = [cur |-> c, anchor |-> None, ok |-> TRUE, tagged |-> FALSE]
    BY <1>4 DEF Properties
  <2>2. QED
    BY <2>1
<1>5. QED
  BY <1>2, <1>3, <1>4

\* A container opens in one of the states inside a document.
LEMMA OpensType ==
  ASSUME NEW k, NEW block \in BOOLEAN, NEW indentless \in BOOLEAN,
         Opens(k, block, indentless) # <<>>
  PROVE  /\ Opens(k, block, indentless)[1] \in Events
         /\ Opens(k, block, indentless)[2] \in Inside
BY DEF Opens, Events, Inside, Continuations

\* A handler inside a document that ends in parse_node, on the stack of a document.
LEMMA ParseNodeInv ==
  ASSUME Inv, state \in Inside, NEW c \in Cursor, c.token \in Token, NEW stk, Stack(stk),
         NEW block \in BOOLEAN, NEW indentless \in BOOLEAN,
         ParseNode(c, stk, block, indentless)
  PROVE  Inv'
<1>0. Skip(c) \in Cursor /\ anchors \subseteq Names /\ tags \subseteq Handles
  BY DEF Inv, Cursor, Skip
<1>1. CASE ParseAlias(c, stk)
  <2>1. Control(stk[Len(stk)], SubSeq(stk, 1, Len(stk) - 1))
    BY PopControl
  <2>2. CASE c.token.name \in anchors
    BY <1>0, <1>1, <2>1, <2>2, ReturnInv DEF ParseAlias, Events
  <2>3. CASE c.token.name \notin anchors
    <3>1. Reject(Skip(c), stk[Len(stk)], SubSeq(stk, 1, Len(stk) - 1))
      BY <1>1, <2>3 DEF ParseAlias
    <3>2. anchors' \subseteq Names /\ tags' \subseteq Handles
      BY <1>0, <1>1, <2>3 DEF ParseAlias
    <3>3. QED
      BY <1>0, <2>1, <3>1, <3>2, RejectInv
  <2>4. QED
    BY <2>2, <2>3
<1>2. ASSUME NEW p \in Properties(c), ParseContent(p, stk, block, indentless)
      PROVE  Inv'
  <2>1. p.cur \in Cursor /\ Skip(p.cur) \in Cursor /\ p.anchor \in Names \cup {None}
    <3>1. p.cur \in Cursor /\ p.anchor \in Names \cup {None}
      BY PropertiesType
    <3>2. QED
      BY <3>1 DEF Cursor, Skip
  <2>2. anchors' \subseteq Names /\ tags' \subseteq Handles
    BY <1>0, <1>2, <2>1 DEF ParseContent
  <2>3. Control(stk[Len(stk)], SubSeq(stk, 1, Len(stk) - 1)) /\ Control(state, stk)
    BY PopControl DEF Control
  <2> DEFINE Accept(ev, d, st, rest) ==
        /\ event' = ev /\ cur' = d /\ state' = st /\ states' = rest
        /\ UNCHANGED <<boundary, errors>>
  <2>4. ASSUME NEW ev \in Events, NEW d \in Cursor, NEW st, NEW rest, Control(st, rest),
               Accept(ev, d, st, rest)
        PROVE  Inv'
    BY <2>2, <2>4 DEF Inv
  <2>5. \/ Reject(p.cur, state, stk)
        \/ \E d \in {p.cur, Skip(p.cur)} :
             Accept("Scalar", d, stk[Len(stk)], SubSeq(stk, 1, Len(stk) - 1))
        \/ /\ Opens(Kind(p.cur), block, indentless) # <<>>
           /\ Accept(Opens(Kind(p.cur), block, indentless)[1], p.cur,
                     Opens(Kind(p.cur), block, indentless)[2], stk)
    BY <1>2 DEF ParseContent
  <2> HIDE DEF Accept
  <2>6. CASE Reject(p.cur, state, stk)
    BY <2>1, <2>2, <2>3, <2>6, RejectInv
  <2>7. ASSUME NEW d \in {p.cur, Skip(p.cur)},
               Accept("Scalar", d, stk[Len(stk)], SubSeq(stk, 1, Len(stk) - 1))
        PROVE  Inv'
    <3>1. "Scalar" \in Events /\ d \in Cursor
      BY <2>1 DEF Events
    <3>2. QED
      BY <2>3, <2>4, <2>7, <3>1
  <2>8. CASE /\ Opens(Kind(p.cur), block, indentless) # <<>>
             /\ Accept(Opens(Kind(p.cur), block, indentless)[1], p.cur,
                       Opens(Kind(p.cur), block, indentless)[2], stk)
    <3>1. /\ Opens(Kind(p.cur), block, indentless)[1] \in Events
          /\ Control(Opens(Kind(p.cur), block, indentless)[2], stk)
      BY <2>8, OpensType DEF Control
    <3>2. QED
      BY <2>1, <2>4, <2>8, <3>1
  <2>9. QED
    BY <2>5, <2>6, <2>7, <2>8
<1>3. QED
  BY <1>1, <1>2 DEF ParseNode

\* An entry that is either empty or a node.
LEMMA EmptyOrNodeInv ==
  ASSUME Inv, state \in Inside, NEW c \in Cursor, NEW ends, NEW next \in Continuations,
         NEW block \in BOOLEAN, NEW indentless \in BOOLEAN,
         EmptyOrNode(c, ends, next, block, indentless)
  PROVE  Inv'
<1>1. PICK d \in Peek(Skip(c)) :
        IF Kind(d) \in ends
        THEN Return("Scalar", d, next, states)
        ELSE ParseNode(d, Append(states, next), block, indentless)
  BY DEF EmptyOrNode
<1>2. d \in Cursor /\ d.token \in Token
  <2>1. Skip(c) \in Cursor
    BY DEF Cursor, Skip
  <2>2. QED
    BY <2>1, PeekType
<1>3. Stack(states) /\ Stack(Append(states, next))
  BY InsideStack, PushStack
<1>4. CASE Kind(d) \in ends
  <2>1. Control(next, states) /\ "Scalar" \in Events
    BY <1>3 DEF Control, Inside, Events
  <2>2. QED
    BY <1>1, <1>2, <1>4, <2>1, ReturnInv
<1>5. CASE Kind(d) \notin ends
  BY <1>1, <1>2, <1>3, <1>5, ParseNodeInv
<1>6. QED
  BY <1>4, <1>5

-------------------------------------------------------------------------------
(***************************************************************************)
(* The actions.                                                            *)
(***************************************************************************)
\* A cursor on a token of the slot or the scanner.
LEMMA HeadType ==
  ASSUME Inv, NEW c \in Peek(cur)
  PROVE  c \in Cursor /\ c.token \in Token /\ Skip(c) \in Cursor
BY PeekType DEF Inv

LEMMA StreamStartInv == Inv /\ StreamStart => Inv'
<1> SUFFICES ASSUME Inv, StreamStart PROVE Inv'
  OBVIOUS
<1>1. PICK c \in Peek(cur) :
        IF Kind(c) = "StreamStart"
        THEN Return("StreamStart", Skip(c), "ImplicitDocumentStart", states)
        ELSE Err(c)
  BY DEF StreamStart
<1>2. Control("ImplicitDocumentStart", states) /\ "StreamStart" \in Events
  BY DEF Inv, StreamStart, Control, Outside, Inside, Continuations, Events
<1>3. QED
  BY <1>1, <1>2, HeadType, ReturnInv, ErrInv

\* The cursors after the directives hold a token, and only handles are declared.
LEMMA DirectivesType ==
  ASSUME NEW c \in Cursor, c.token \in Token, NEW r \in Directives(c)
  PROVE  r.cur \in Cursor /\ Skip(r.cur) \in Cursor /\ r.tags \subseteq Handles
<1>1. r.cur \in Cursor /\ r.tags \subseteq Handles
  <2>1. CASE IsDirective(c)
    <3>1. r.cur \in Peek(Skip(c)) /\ r.tags \subseteq Handles
      BY <2>1 DEF Directives
    <3>2. Skip(c) \in Cursor
      BY DEF Cursor, Skip
    <3>3. QED
      BY <3>1, <3>2, PeekType
  <2>2. CASE ~IsDirective(c)
    BY <2>2 DEF Directives
  <2>3. QED
    BY <2>1, <2>2
<1>2. QED
  BY <1>1 DEF Cursor, Skip

\* A document boundary has the type of the variable that remembers it.
LEMMA BoundType ==
  ASSUME NEW ev \in Events, NEW e \in BOOLEAN, NEW d \in BOOLEAN, Bound(ev, e, d)
  PROVE  /\ event' \in Events
         /\ boundary' \in [event : Events, explicit : BOOLEAN, directives : BOOLEAN]
BY DEF Bound

LEMMA ExplicitDocumentStartInv ==
  ASSUME Inv, states = <<>>, state \in Outside, NEW c \in Cursor, c.token \in Token,
         ExplicitDocumentStart(c)
  PROVE  Inv'
<1>1. PICK r \in Directives(c) :
        IF IsDirective(r.cur) THEN Err(r.cur)
        ELSE /\ tags' = r.tags /\ UNCHANGED anchors
             /\ IF Kind(r.cur) = "DocumentStart"
                THEN /\ Bound("DocumentStart", TRUE, r.version \/ r.tags # {})
                     /\ cur' = Skip(r.cur)
                     /\ state' = "DocumentContent" /\ states' = Append(states, "DocumentEnd")
                     /\ UNCHANGED errors
                ELSE Reject(r.cur, state, states)
  BY DEF ExplicitDocumentStart
<1>2. r.cur \in Cursor /\ Skip(r.cur) \in Cursor /\ r.tags \subseteq Handles
  BY DirectivesType
<1>3. CASE IsDirective(r.cur)
  BY <1>1, <1>2, <1>3, ErrInv
<1>4. CASE ~IsDirective(r.cur) /\ Kind(r.cur) = "DocumentStart"
  <2>1. Control(state', states')
    <3>1. state' \in Inside
      BY <1>1, <1>4 DEF Inside
    <3>2. Stack(states')
      BY <1>1, <1>4, FirstStack
    <3>3. QED
      BY <3>1, <3>2 DEF Control
  <2>2. event' \in Events /\ boundary' \in [event : Events, explicit : BOOLEAN, directives : BOOLEAN]
    <3>1. (r.version \/ r.tags # {}) \in BOOLEAN /\ "DocumentStart" \in Events
      BY DEF Events
    <3>2. PICK e \in BOOLEAN : e <=> r.version \/ r.tags # {}
      OBVIOUS
    <3>3. Bound("DocumentStart", TRUE, e)
      BY <1>1, <1>4, <3>2, Zenon
    <3>4. QED
      BY <3>1, <3>3, BoundType, Zenon
  <2>3. QED
    BY <1>1, <1>2, <1>4, <2>1, <2>2 DEF Inv
<1>5. CASE ~IsDirective(r.cur) /\ Kind(r.cur) # "DocumentStart"
  <2>1. Reject(r.cur, state, states) /\ anchors' \subseteq Names /\ tags' \subseteq Handles
    BY <1>1, <1>2, <1>5 DEF Inv
  <2>2. Control(state, states)
    BY DEF Inv
  <2>3. QED
    BY <1>2, <2>1, <2>2, RejectInv
<1>6. QED
  BY <1>3, <1>4, <1>5

LEMMA ImplicitDocumentInv ==
  ASSUME Inv, states = <<>>, NEW c \in Cursor, ImplicitDocument(c)
  PROVE  Inv'
<1>1. Control(state', states')
  <2>1. state' \in Inside
    BY DEF ImplicitDocument, Inside
  <2>2. Stack(states')
    BY FirstStack DEF ImplicitDocument
  <2>3. QED
    BY <2>1, <2>2 DEF Control
<1>2. QED
  BY <1>1 DEF Inv, ImplicitDocument, Bound, Events

LEMMA DocumentStartInv == ASSUME Inv, NEW b \in BOOLEAN, DocumentStart(b) PROVE Inv'
<1>1. state \in Outside /\ states = <<>>
  BY DEF DocumentStart, Inv, Control, Outside, Inside, Continuations
<1>2. PICK c \in UNION {IF Kind(d) = "DocumentEnd" THEN Peek(Skip(d)) ELSE {d} : d \in Peek(cur)} :
        \/ Return("StreamEnd", Skip(c), "End", states)
        \/ ExplicitDocumentStart(c)
        \/ ImplicitDocument(c)
  BY DEF DocumentStart
<1>3. c \in Cursor /\ c.token \in Token /\ Skip(c) \in Cursor
  <2>1. PICK d \in Peek(cur) : c \in IF Kind(d) = "DocumentEnd" THEN Peek(Skip(d)) ELSE {d}
    BY <1>2
  <2>2. QED
    BY <2>1, HeadType, PeekType
<1>4. CASE Return("StreamEnd", Skip(c), "End", states)
  <2>1. Control("End", states) /\ "StreamEnd" \in Events
    BY <1>1 DEF Control, Outside, Events
  <2>2. QED
    BY <1>3, <1>4, <2>1, ReturnInv
<1>5. CASE ExplicitDocumentStart(c)
  BY <1>1, <1>3, <1>5, ExplicitDocumentStartInv
<1>6. CASE ImplicitDocument(c)
  BY <1>1, <1>3, <1>6, ImplicitDocumentInv
<1>7. QED
  BY <1>2, <1>4, <1>5, <1>6

LEMMA DocumentContentInv == ASSUME Inv, DocumentContent PROVE Inv'
<1>1. state \in Inside /\ "Scalar" \in Events /\ TRUE \in BOOLEAN /\ FALSE \in BOOLEAN
  BY DEF DocumentContent, Inside, Events
<1>2. Stack(states)
  BY <1>1, InsideStack
<1>3. PICK c \in Peek(cur) : \/ ReturnPop("Scalar", c, states)
                             \/ ParseNode(c, states, TRUE, FALSE)
  BY DEF DocumentContent
<1>4. QED
  BY <1>1, <1>2, <1>3, HeadType, ReturnPopInv, ParseNodeInv

LEMMA DocumentEndInv == ASSUME Inv, DocumentEnd PROVE Inv'
<1>1. PICK c \in Peek(cur) :
       /\ tags' = {} /\ UNCHANGED anchors
       /\ IF IsDirective(c)
          THEN Reject(c, state, states)
          ELSE /\ Bound("DocumentEnd", Kind(c) = "DocumentEnd", FALSE)
               /\ cur' = IF Kind(c) = "DocumentEnd" THEN Skip(c) ELSE c
               /\ state' = IF Kind(c) = "DocumentEnd" THEN "ImplicitDocumentStart"
                                                      ELSE "DocumentStart"
               /\ UNCHANGED <<states, errors>>
  BY DEF DocumentEnd
<1>2. c \in Cursor /\ Skip(c) \in Cursor
  BY HeadType
<1>3. anchors' \subseteq Names /\ tags' \subseteq Handles
  BY <1>1 DEF Inv
<1>4. CASE IsDirective(c)
  BY <1>1, <1>2, <1>3, <1>4, RejectInv DEF Inv
<1>5. CASE ~IsDirective(c)
  <2>1. states = <<>>
    BY DEF DocumentEnd, Inv, Control, Inside, Continuations
  <2>2. Control(state', states')
    BY <1>1, <1>5, <2>1 DEF Control, Outside
  <2>3. event' \in Events /\ boundary' \in [event : Events, explicit : BOOLEAN, directives : BOOLEAN]
    <3>1. Bound("DocumentEnd", Kind(c) = "DocumentEnd", FALSE)
      BY <1>1, <1>5
    <3>2. CASE Kind(c) = "DocumentEnd"
      <4>1. Bound("DocumentEnd", TRUE, FALSE)
        BY <3>1, <3>2
      <4>2. QED
        BY <4>1, BoundType DEF Events
    <3>3. CASE Kind(c) # "DocumentEnd"
      <4>1. Bound("DocumentEnd", FALSE, FALSE)
        BY <3>1, <3>3
      <4>2. QED
        BY <4>1, BoundType DEF Events
    <3>4. QED
      BY <3>2, <3>3
  <2>4. QED
    BY <1>1, <1>2, <1>3, <1>5, <2>2, <2>3 DEF Inv
<1>6. QED
  BY <1>4, <1>5

LEMMA BlockNodeInv == ASSUME Inv, BlockNode PROVE Inv'
<1>1. state \in Inside
  BY DEF BlockNode, Inside
<1>2. Stack(states)
  BY <1>1, InsideStack
<1>3. PICK c \in Peek(cur) : ParseNode(c, states, TRUE, FALSE)
  BY DEF BlockNode
<1>4. QED
  BY <1>1, <1>2, <1>3, HeadType, ParseNodeInv

\* Block collections.
LEMMA BlockMappingKeyInv == ASSUME Inv, NEW b \in BOOLEAN, BlockMappingKey(b) PROVE Inv'
<1>1. state \in Inside
  BY DEF BlockMappingKey, Inside, Continuations
<1>2. Stack(states) /\ Control("BlockMappingValue", states)
  BY <1>1, InsideStack DEF Control, Inside, Continuations
<1>3. PICK c \in Entry(b) :
        \/ EmptyOrNode(c, {"Key", "Value", "BlockEnd"}, "BlockMappingValue", TRUE, TRUE)
        \/ Return("Scalar", c, "BlockMappingValue", states)
        \/ ReturnPop("MappingEnd", Skip(c), states)
        \/ Err(c)
  BY DEF BlockMappingKey
<1>4. c \in Cursor /\ Skip(c) \in Cursor
  BY EntryType DEF Inv
<1>5. /\ "BlockMappingValue" \in Continuations /\ TRUE \in BOOLEAN
      /\ "Scalar" \in Events /\ "MappingEnd" \in Events
  BY DEF Continuations, Events
<1>6. CASE EmptyOrNode(c, {"Key", "Value", "BlockEnd"}, "BlockMappingValue", TRUE, TRUE)
  BY <1>1, <1>4, <1>5, <1>6, EmptyOrNodeInv
<1>7. CASE Return("Scalar", c, "BlockMappingValue", states)
  BY <1>2, <1>4, <1>5, <1>7, ReturnInv
<1>8. CASE ReturnPop("MappingEnd", Skip(c), states)
  BY <1>2, <1>4, <1>5, <1>8, ReturnPopInv
<1>9. QED
  BY <1>3, <1>4, <1>6, <1>7, <1>8, ErrInv

LEMMA BlockMappingValueInv == ASSUME Inv, BlockMappingValue PROVE Inv'
<1>1. state \in Inside
  BY DEF BlockMappingValue, Inside, Continuations
<1>2. Control("BlockMappingKey", states)
  BY <1>1, InsideStack DEF Control, Inside, Continuations
<1>3. PICK c \in Peek(cur) :
        \/ EmptyOrNode(c, {"Key", "Value", "BlockEnd"}, "BlockMappingKey", TRUE, TRUE)
        \/ Return("Scalar", c, "BlockMappingKey", states)
  BY DEF BlockMappingValue
<1>4. /\ "BlockMappingKey" \in Continuations /\ TRUE \in BOOLEAN /\ "Scalar" \in Events
  BY DEF Continuations, Events
<1>5. CASE EmptyOrNode(c, {"Key", "Value", "BlockEnd"}, "BlockMappingKey", TRUE, TRUE)
  BY <1>1, <1>4, <1>5, HeadType, EmptyOrNodeInv
<1>6. CASE Return("Scalar", c, "BlockMappingKey", states)
  BY <1>2, <1>4, <1>6, HeadType, ReturnInv
<1>7. QED
  BY <1>3, <1>5, <1>6

LEMMA BlockSequenceEntryInv ==
  ASSUME Inv, NEW b \in BOOLEAN, BlockSequenceEntry(b) PROVE Inv'
<1>1. state \in Inside
  BY DEF BlockSequenceEntry, Inside, Continuations
<1>2. Stack(states)
  BY <1>1, InsideStack
<1>3. PICK c \in Entry(b) :
        \/ ReturnPop("SequenceEnd", Skip(c), states)
        \/ EmptyOrNode(c, {"BlockEntry", "BlockEnd"}, "BlockSequenceEntry", TRUE, FALSE)
        \/ Err(c)
  BY DEF BlockSequenceEntry
<1>4. c \in Cursor /\ Skip(c) \in Cursor
  BY EntryType DEF Inv
<1>5. /\ "BlockSequenceEntry" \in Continuations /\ TRUE \in BOOLEAN /\ FALSE \in BOOLEAN
      /\ "SequenceEnd" \in Events
  BY DEF Continuations, Events
<1>6. CASE ReturnPop("SequenceEnd", Skip(c), states)
  BY <1>2, <1>4, <1>5, <1>6, ReturnPopInv
<1>7. CASE EmptyOrNode(c, {"BlockEntry", "BlockEnd"}, "BlockSequenceEntry", TRUE, FALSE)
  BY <1>1, <1>4, <1>5, <1>7, EmptyOrNodeInv
<1>8. QED
  BY <1>3, <1>4, <1>6, <1>7, ErrInv

LEMMA IndentlessSequenceEntryInv == ASSUME Inv, IndentlessSequenceEntry PROVE Inv'
<1>1. state \in Inside
  BY DEF IndentlessSequenceEntry, Inside, Continuations
<1>2. Stack(states)
  BY <1>1, InsideStack
<1>3. PICK c \in Peek(cur) :
        \/ EmptyOrNode(c, {"BlockEntry", "Key", "Value", "BlockEnd"},
                       "IndentlessSequenceEntry", TRUE, FALSE)
        \/ ReturnPop("SequenceEnd", c, states)
  BY DEF IndentlessSequenceEntry
<1>4. /\ "IndentlessSequenceEntry" \in Continuations /\ TRUE \in BOOLEAN /\ FALSE \in BOOLEAN
      /\ "SequenceEnd" \in Events
  BY DEF Continuations, Events
<1>5. CASE EmptyOrNode(c, {"BlockEntry", "Key", "Value", "BlockEnd"},
                       "IndentlessSequenceEntry", TRUE, FALSE)
  BY <1>1, <1>4, <1>5, HeadType, EmptyOrNodeInv
<1>6. CASE ReturnPop("SequenceEnd", c, states)
  BY <1>2, <1>4, <1>6, HeadType, ReturnPopInv
<1>7. QED
  BY <1>3, <1>5, <1>6

\* Flow collections.
LEMMA PastCommaType ==
  ASSUME NEW c \in Cursor, c.token \in Token, NEW first \in BOOLEAN,
         NEW d \in PastComma(first, c)
  PROVE  d \in Cursor /\ d.token \in Token /\ Skip(d) \in Cursor
<1>1. Skip(c) \in Cursor
  BY DEF Cursor, Skip
<1>2. d = c \/ d \in Peek(Skip(c))
  BY DEF PastComma
<1>3. QED
  BY <1>1, <1>2, PeekType

LEMMA FlowMappingKeyInv == ASSUME Inv, NEW b \in BOOLEAN, FlowMappingKey(b) PROVE Inv'
<1>1. state \in Inside
  BY DEF FlowMappingKey, Inside, Continuations
<1>2. Stack(states) /\ Control("FlowMappingValue", states)
  BY <1>1, InsideStack DEF Control, Inside, Continuations
<1>3. /\ "FlowMappingValue" \in Continuations /\ "FlowMappingEmptyValue" \in Continuations
      /\ FALSE \in BOOLEAN /\ "Scalar" \in Events /\ "MappingEnd" \in Events
  BY DEF Continuations, Events
<1>4. PICK c \in Entry(b) :
        \/ ReturnPop("MappingEnd", Skip(c), states)
        \/ Err(c)
        \/ \E d \in PastComma(b, c) :
             \/ EmptyOrNode(d, {"Value", "FlowEntry", "FlowMappingEnd"},
                            "FlowMappingValue", FALSE, FALSE)
             \/ Return("Scalar", d, "FlowMappingValue", states)
             \/ ReturnPop("MappingEnd", Skip(d), states)
             \/ ParseNode(d, Append(states, "FlowMappingEmptyValue"), FALSE, FALSE)
  BY DEF FlowMappingKey
<1>5. c \in Cursor /\ c.token \in Token /\ Skip(c) \in Cursor
  BY EntryType DEF Inv
<1>6. CASE ReturnPop("MappingEnd", Skip(c), states)
  BY <1>2, <1>3, <1>5, <1>6, ReturnPopInv
<1>7. CASE Err(c)
  BY <1>5, <1>7, ErrInv
<1>8. ASSUME NEW d \in PastComma(b, c),
             \/ EmptyOrNode(d, {"Value", "FlowEntry", "FlowMappingEnd"},
                            "FlowMappingValue", FALSE, FALSE)
             \/ Return("Scalar", d, "FlowMappingValue", states)
             \/ ReturnPop("MappingEnd", Skip(d), states)
             \/ ParseNode(d, Append(states, "FlowMappingEmptyValue"), FALSE, FALSE)
      PROVE  Inv'
  <2>1. d \in Cursor /\ d.token \in Token /\ Skip(d) \in Cursor
    BY <1>5, PastCommaType
  <2>2. CASE EmptyOrNode(d, {"Value", "FlowEntry", "FlowMappingEnd"},
                         "FlowMappingValue", FALSE, FALSE)
    BY <1>1, <1>3, <2>1, <2>2, EmptyOrNodeInv
  <2>3. CASE Return("Scalar", d, "FlowMappingValue", states)
    BY <1>2, <1>3, <2>1, <2>3, ReturnInv
  <2>4. CASE ReturnPop("MappingEnd", Skip(d), states)
    BY <1>2, <1>3, <2>1, <2>4, ReturnPopInv
  <2>5. CASE ParseNode(d, Append(states, "FlowMappingEmptyValue"), FALSE, FALSE)
    <3>1. Stack(Append(states, "FlowMappingEmptyValue"))
      BY <1>2, <1>3, PushStack
    <3>2. QED
      BY <1>1, <1>3, <2>1, <2>5, <3>1, ParseNodeInv
  <2>6. QED
    BY <1>8, <2>2, <2>3, <2>4, <2>5
<1>9. QED
  BY <1>4, <1>6, <1>7, <1>8

LEMMA FlowMappingValueInv == ASSUME Inv, NEW e \in BOOLEAN, FlowMappingValue(e) PROVE Inv'
<1>1. state \in Inside
  BY DEF FlowMappingValue, Inside, Continuations
<1>2. Control("FlowMappingKey", states)
  BY <1>1, InsideStack DEF Control, Inside, Continuations
<1>3. PICK c \in Peek(cur) :
        \/ EmptyOrNode(c, {"FlowEntry", "FlowMappingEnd"}, "FlowMappingKey", FALSE, FALSE)
        \/ Return("Scalar", c, "FlowMappingKey", states)
  BY DEF FlowMappingValue
<1>4. /\ "FlowMappingKey" \in Continuations /\ FALSE \in BOOLEAN /\ "Scalar" \in Events
  BY DEF Continuations, Events
<1>5. CASE EmptyOrNode(c, {"FlowEntry", "FlowMappingEnd"}, "FlowMappingKey", FALSE, FALSE)
  BY <1>1, <1>4, <1>5, HeadType, EmptyOrNodeInv
<1>6. CASE Return("Scalar", c, "FlowMappingKey", states)
  BY <1>2, <1>4, <1>6, HeadType, ReturnInv
<1>7. QED
  BY <1>3, <1>5, <1>6

LEMMA FlowSequenceEntryInv == ASSUME Inv, NEW b \in BOOLEAN, FlowSequenceEntry(b) PROVE Inv'
<1>1. state \in Inside
  BY DEF FlowSequenceEntry, Inside, Continuations
<1>2. Stack(states) /\ Control("FlowSequenceEntryMappingKey", states)
  BY <1>1, InsideStack DEF Control, Inside
<1>3. /\ "FlowSequenceEntry" \in Continuations
      /\ FALSE \in BOOLEAN /\ "MappingStart" \in Events /\ "SequenceEnd" \in Events
  BY DEF Continuations, Events
<1>4. PICK c \in Entry(b) :
        \/ ReturnPop("SequenceEnd", Skip(c), states)
        \/ Err(c)
        \/ \E d \in PastComma(b, c) :
             \/ ReturnPop("SequenceEnd", Skip(d), states)
             \/ Return("MappingStart", Skip(d), "FlowSequenceEntryMappingKey", states)
             \/ ParseNode(d, Append(states, "FlowSequenceEntry"), FALSE, FALSE)
  BY DEF FlowSequenceEntry
<1>5. c \in Cursor /\ c.token \in Token /\ Skip(c) \in Cursor
  BY EntryType DEF Inv
<1>6. CASE ReturnPop("SequenceEnd", Skip(c), states)
  BY <1>2, <1>3, <1>5, <1>6, ReturnPopInv
<1>7. CASE Err(c)
  BY <1>5, <1>7, ErrInv
<1>8. ASSUME NEW d \in PastComma(b, c),
             \/ ReturnPop("SequenceEnd", Skip(d), states)
             \/ Return("MappingStart", Skip(d), "FlowSequenceEntryMappingKey", states)
             \/ ParseNode(d, Append(states, "FlowSequenceEntry"), FALSE, FALSE)
      PROVE  Inv'
  <2>1. d \in Cursor /\ d.token \in Token /\ Skip(d) \in Cursor
    BY <1>5, PastCommaType
  <2>2. CASE ReturnPop("SequenceEnd", Skip(d), states)
    BY <1>2, <1>3, <2>1, <2>2, ReturnPopInv
  <2>3. CASE Return("MappingStart", Skip(d), "FlowSequenceEntryMappingKey", states)
    BY <1>2, <1>3, <2>1, <2>3, ReturnInv
  <2>4. CASE ParseNode(d, Append(states, "FlowSequenceEntry"), FALSE, FALSE)
    <3>1. Stack(Append(states, "FlowSequenceEntry"))
      BY <1>2, <1>3, PushStack
    <3>2. QED
      BY <1>1, <1>3, <2>1, <2>4, <3>1, ParseNodeInv
  <2>5. QED
    BY <1>8, <2>2, <2>3, <2>4
<1>9. QED
  BY <1>4, <1>6, <1>7, <1>8

LEMMA FlowSequenceEntryMappingKeyInv ==
  ASSUME Inv, FlowSequenceEntryMappingKey PROVE Inv'
<1>1. state \in Inside
  BY DEF FlowSequenceEntryMappingKey, Inside
<1>2. /\ "FlowSequenceEntryMappingValue" \in Continuations /\ FALSE \in BOOLEAN
      /\ "Scalar" \in Events
  BY DEF Continuations, Events
<1>3. /\ Control("FlowSequenceEntryMappingValue", states)
      /\ Stack(Append(states, "FlowSequenceEntryMappingValue"))
  BY <1>1, <1>2, InsideStack, PushStack DEF Control, Inside
<1>4. PICK c \in Peek(cur) :
        \/ Return("Scalar", Skip(c), "FlowSequenceEntryMappingValue", states)
        \/ ParseNode(c, Append(states, "FlowSequenceEntryMappingValue"), FALSE, FALSE)
  BY DEF FlowSequenceEntryMappingKey
<1>5. CASE Return("Scalar", Skip(c), "FlowSequenceEntryMappingValue", states)
  BY <1>2, <1>3, <1>5, HeadType, ReturnInv
<1>6. CASE ParseNode(c, Append(states, "FlowSequenceEntryMappingValue"), FALSE, FALSE)
  BY <1>1, <1>2, <1>3, <1>6, HeadType, ParseNodeInv
<1>7. QED
  BY <1>4, <1>5, <1>6

LEMMA FlowSequenceEntryMappingValueInv ==
  ASSUME Inv, FlowSequenceEntryMappingValue PROVE Inv'
<1>1. state \in Inside
  BY DEF FlowSequenceEntryMappingValue, Inside, Continuations
<1>2. Control("FlowSequenceEntryMappingEnd", states)
  BY <1>1, InsideStack DEF Control, Inside, Continuations
<1>3. PICK c \in Peek(cur) :
        \/ EmptyOrNode(c, {"FlowEntry", "FlowSequenceEnd"},
                       "FlowSequenceEntryMappingEnd", FALSE, FALSE)
        \/ Return("Scalar", c, "FlowSequenceEntryMappingEnd", states)
  BY DEF FlowSequenceEntryMappingValue
<1>4. /\ "FlowSequenceEntryMappingEnd" \in Continuations /\ FALSE \in BOOLEAN
      /\ "Scalar" \in Events
  BY DEF Continuations, Events
<1>5. CASE EmptyOrNode(c, {"FlowEntry", "FlowSequenceEnd"},
                       "FlowSequenceEntryMappingEnd", FALSE, FALSE)
  BY <1>1, <1>4, <1>5, HeadType, EmptyOrNodeInv
<1>6. CASE Return("Scalar", c, "FlowSequenceEntryMappingEnd", states)
  BY <1>2, <1>4, <1>6, HeadType, ReturnInv
<1>7. QED
  BY <1>3, <1>5, <1>6

LEMMA FlowSequenceEntryMappingEndInv ==
  ASSUME Inv, FlowSequenceEntryMappingEnd PROVE Inv'
<1>1. state \in Inside
  BY DEF FlowSequenceEntryMappingEnd, Inside, Continuations
<1>2. Control("FlowSequenceEntry", states)
  BY <1>1, InsideStack DEF Control, Inside, Continuations
<1>3. cur \in Cursor /\ "MappingEnd" \in Events
  BY DEF Inv, Events
<1>4. QED
  BY <1>2, <1>3, ReturnInv DEF FlowSequenceEntryMappingEnd

\* The end of the stream, and a scanner that has failed.
LEMMA EndInv == ASSUME Inv, End PROVE Inv'
<1>1. Control(state, states) /\ cur \in Cursor /\ "StreamEnd" \in Events
  BY DEF Inv, Events
<1>2. QED
  BY <1>1, ReturnInv DEF End

LEMMA ScannerFailsInv == ASSUME Inv, ScannerFails PROVE Inv'
<1>1. [token |-> NoToken, scan |-> "error"] \in Cursor
  BY DEF Cursor
<1>2. Control(state, states) /\ anchors' \subseteq Names /\ tags' \subseteq Handles
  BY DEF Inv, ScannerFails
<1>3. QED
  BY <1>1, <1>2, RejectInv DEF ScannerFails

-------------------------------------------------------------------------------
(***************************************************************************)
(* Inv is inductive.                                                       *)
(***************************************************************************)
LEMMA InitInv == Init => Inv
<1> SUFFICES ASSUME Init PROVE Inv
  OBVIOUS
<1>1. Control(state, states)
  BY DEF Init, Control, Outside
<1>2. cur \in Cursor /\ event \in Events
  BY DEF Init, Cursor, Events
<1>3. boundary \in [event : Events, explicit : BOOLEAN, directives : BOOLEAN]
  BY DEF Init, Events
<1>4. QED
  BY <1>1, <1>2, <1>3 DEF Inv, Init

LEMMA NextInv == Inv /\ [Next]_vars => Inv'
<1> SUFFICES ASSUME Inv, [Next]_vars PROVE Inv'
  OBVIOUS
<1>1. CASE UNCHANGED vars
  BY <1>1 DEF vars, Inv
<1>2. CASE Handler
  BY <1>2, StreamStartInv, DocumentContentInv, DocumentEndInv, BlockNodeInv, DocumentStartInv,
     BlockMappingKeyInv, BlockMappingValueInv, BlockSequenceEntryInv,
     IndentlessSequenceEntryInv, FlowMappingKeyInv, FlowMappingValueInv,
     FlowSequenceEntryInv, FlowSequenceEntryMappingKeyInv,
     FlowSequenceEntryMappingValueInv, FlowSequenceEntryMappingEndInv, EndInv,
     ScannerFailsInv DEF Handler
<1>3. QED
  BY <1>1, <1>2 DEF Next, NextToken, GiveUp

LEMMA InvHolds == Spec => []Inv
BY InitInv, NextInv, PTL DEF Spec

\* Every variable of the parser keeps its type, whatever the scanner delivers and
\* however many calls have failed.
THEOREM TypeCorrect == Spec => []TypeOK
<1>1. Inv => TypeOK
  <2> SUFFICES ASSUME Inv PROVE TypeOK
    OBVIOUS
  <2>1. state \in Outside \cup Inside /\ states \in Seq(Continuations \cup {"DocumentEnd"})
    BY EmptySeq DEF Inv, Control, Stack, StackState
  <2>2. QED
    BY <2>1 DEF Inv, TypeOK, Cursor
<1>2. QED
  BY <1>1, InvHolds, PTL

\* pop_state never unwraps an empty stack: the return stack is that of a document
\* exactly while the parser is inside one.
THEOREM StackSafe == Spec => []StackDiscipline
<1>1. Inv => StackDiscipline
  <2> SUFFICES ASSUME Inv PROVE StackDiscipline
    OBVIOUS
  <2>1. Inside \cap Outside = {}
    BY DEF Inside, Outside, Continuations
  <2>2. CASE state \in Outside /\ states = <<>>
    BY <2>2 DEF StackDiscipline
  <2>3. CASE state \in Inside /\ Stack(states)
    BY <2>1, <2>3 DEF StackDiscipline, Stack
  <2>4. QED
    BY <2>2, <2>3 DEF Inv, Control
<1>2. QED
  BY <1>1, InvHolds, PTL

-------------------------------------------------------------------------------
(***************************************************************************)
(* The parser implements EventStream.                                      *)
(***************************************************************************)
Marks == {"root", "done", "seq", "key", "val"}

Awaits == Marks \ {"done"}

\* What becomes of a mark once the node it awaits is complete.
After(m) == CASE m = "root" -> "done" [] m = "seq" -> "seq" [] m = "key" -> "val" [] m = "val" -> "key"

\* The path of open constructs in a state on a stack.
Path(st, stk) == Below(stk) \o At(st)

\* It is a mark again.
LEMMA AfterType == \A m \in Awaits : After(m) \in Marks /\ m \in Marks
BY DEF After, Awaits, Marks

\* A state on the stack stands for the construct that awaits a node, and once it has been
\* popped for that construct with the node complete.
LEMMA HeldAt ==
  ASSUME NEW s \in StackState
  PROVE  \E l \in Seq(Marks), m \in Awaits :
           Held[s] = Append(l, m) /\ At(s) = Append(l, After(m))
<1>1. <<>> \in Seq(Marks) /\ <<"seq">> \in Seq(Marks)
  BY DEF Marks
<1>2. CASE s = "DocumentEnd"
  <2>1. Held[s] = Append(<<>>, "root") /\ At(s) = Append(<<>>, After("root"))
    BY <1>2 DEF Held, At, After
  <2>2. QED
    BY <1>1, <2>1 DEF Awaits, Marks
<1>3. CASE s \in {"BlockSequenceEntry", "IndentlessSequenceEntry", "FlowSequenceEntry"}
  <2>1. Held[s] = Append(<<>>, "seq") /\ At(s) = Append(<<>>, After("seq"))
    BY <1>3 DEF Held, At, After
  <2>2. QED
    BY <1>1, <2>1 DEF Awaits, Marks
<1>4. CASE s \in {"BlockMappingValue", "FlowMappingValue", "FlowMappingEmptyValue"}
  <2>1. Held[s] = Append(<<>>, "key") /\ At(s) = Append(<<>>, After("key"))
    BY <1>4 DEF Held, At, After
  <2>2. QED
    BY <1>1, <2>1 DEF Awaits, Marks
<1>5. CASE s \in {"BlockMappingKey", "FlowMappingKey"}
  <2>1. Held[s] = Append(<<>>, "val") /\ At(s) = Append(<<>>, After("val"))
    BY <1>5 DEF Held, At, After
  <2>2. QED
    BY <1>1, <2>1 DEF Awaits, Marks
<1>6. CASE s = "FlowSequenceEntryMappingValue"
  <2>1. Held[s] = Append(<<"seq">>, "key") /\ At(s) = Append(<<"seq">>, After("key"))
    BY <1>6 DEF Held, At, After
  <2>2. QED
    BY <1>1, <2>1 DEF Awaits, Marks
<1>7. CASE s = "FlowSequenceEntryMappingEnd"
  <2>1. Held[s] = Append(<<"seq">>, "val") /\ At(s) = Append(<<"seq">>, After("val"))
    BY <1>7 DEF Held, At, After
  <2>2. QED
    BY <1>1, <2>1 DEF Awaits, Marks
<1>8. QED
  BY <1>2, <1>3, <1>4, <1>5, <1>6, <1>7 DEF StackState, Continuations

\* A node that is complete changes the last mark of the path.
LEMMA CompletedIs ==
  ASSUME NEW p \in Seq(Marks), NEW m \in Awaits
  PROVE  ES!Completed(Append(p, m)) = Append(p, After(m))
<1> DEFINE q == Append(p, m)
           r == Append(p, After(m))
           x == CASE q[Len(q)] = "root" -> "done"
                   [] q[Len(q)] = "seq"  -> "seq"
                   [] q[Len(q)] = "key"  -> "val"
                   [] q[Len(q)] = "val"  -> "key"
<1>1. After(m) \in Marks /\ m \in Marks /\ Len(p) \in Nat
  BY AfterType
<1>2. /\ q \in Seq(Marks) /\ Len(q) = Len(p) + 1 /\ q[Len(p) + 1] = m
      /\ \A i \in 1 .. Len(p) : q[i] = p[i]
  BY <1>1, AppendProperties
<1>3. /\ r \in Seq(Marks) /\ Len(r) = Len(p) + 1 /\ r[Len(p) + 1] = After(m)
      /\ \A i \in 1 .. Len(p) : r[i] = p[i]
  BY <1>1, AppendProperties
<1>4. x = After(m)
  <2> HIDE DEF q, r
  <2>1. QED
    BY <1>1, <1>2 DEF After
<1>5. ES!Completed(q) = [q EXCEPT ![Len(q)] = x]
  BY DEF ES!Completed
<1> HIDE DEF q, r, x
<1>6. Len(q) \in 1 .. Len(q)
  BY <1>1, <1>2
<1>7. /\ [q EXCEPT ![Len(q)] = x] \in Seq(Marks)
      /\ Len([q EXCEPT ![Len(q)] = x]) = Len(q)
      /\ \A j \in 1 .. Len(q) : [q EXCEPT ![Len(q)] = x][j] = IF j = Len(q) THEN x ELSE q[j]
  BY <1>1, <1>2, <1>4, <1>6, ExceptSeq
<1>8. \A j \in 1 .. Len(q) : [q EXCEPT ![Len(q)] = x][j] = r[j]
  BY <1>1, <1>2, <1>3, <1>4, <1>7
<1>9. [q EXCEPT ![Len(q)] = x] = r
  BY <1>2, <1>3, <1>7, <1>8, SeqEqual
<1>10. QED
  BY <1>5, <1>9 DEF q, r

\* The path below a stack is that of the stack without its top, and the top's.
LEMMA BelowPush ==
  ASSUME NEW stk \in Seq(StackState), NEW s \in StackState
  PROVE  /\ Below(stk) \in Seq(Marks)
         /\ Below(Append(stk, s)) = Below(stk) \o Held[s]
<1> DEFINE F(t) == [i \in 1 .. Len(t) |-> Held[t[i]]]
<1>1. \A t \in StackState : Held[t] \in Seq(Marks)
  <2> SUFFICES ASSUME NEW t \in StackState PROVE Held[t] \in Seq(Marks)
    OBVIOUS
  <2>1. PICK l \in Seq(Marks), m \in Awaits : Held[t] = Append(l, m)
    BY HeldAt
  <2>2. QED
    BY <2>1, AfterType, AppendProperties
<1>2. ASSUME NEW t \in Seq(StackState)
      PROVE  F(t) \in Seq(Seq(Marks)) /\ Len(F(t)) = Len(t)
  <2>1. Len(t) \in Nat /\ \A i \in 1 .. Len(t) : Held[t[i]] \in Seq(Marks)
    BY <1>1
  <2>2. QED
    BY <2>1
<1>3. Append(stk, s) \in Seq(StackState)
  BY AppendProperties
<1>4. F(Append(stk, s)) = Append(F(stk), Held[s])
  <2> DEFINE u == Append(F(stk), Held[s])
             v == F(Append(stk, s))
  <2>0. Len(stk) \in Nat
    OBVIOUS
  <2>1. v \in Seq(Seq(Marks)) /\ Len(v) = Len(stk) + 1
    <3>1. Len(Append(stk, s)) = Len(stk) + 1
      BY AppendProperties
    <3> HIDE DEF F
    <3>2. QED
      BY <1>2, <1>3, <3>1
  <2>2. F(stk) \in Seq(Seq(Marks)) /\ Len(F(stk)) = Len(stk) /\ Held[s] \in Seq(Marks)
    BY <1>1, <1>2
  <2>3. /\ u \in Seq(Seq(Marks)) /\ Len(u) = Len(stk) + 1 /\ u[Len(stk) + 1] = Held[s]
        /\ \A i \in 1 .. Len(stk) : u[i] = F(stk)[i]
    <3> HIDE DEF F
    <3>1. QED
      BY <2>2, AppendProperties
  <2>4. \A i \in 1 .. Len(stk) : F(stk)[i] = Held[stk[i]]
    OBVIOUS
  <2>5. /\ \A i \in 1 .. Len(stk) : Append(stk, s)[i] = stk[i]
        /\ Append(stk, s)[Len(stk) + 1] = s
        /\ Len(Append(stk, s)) = Len(stk) + 1
    BY AppendProperties
  <2>6. \A i \in 1 .. Len(stk) + 1 : v[i] = Held[Append(stk, s)[i]]
    BY <2>5
  <2> HIDE DEF u, v, F
  <2>7. \A i \in 1 .. Len(v) : v[i] = u[i]
    <3> SUFFICES ASSUME NEW i \in 1 .. Len(v) PROVE v[i] = u[i]
      OBVIOUS
    <3>1. CASE i = Len(stk) + 1
      BY <2>0, <2>1, <2>3, <2>5, <2>6, <3>1
    <3>2. CASE i # Len(stk) + 1
      <4>1. i \in 1 .. Len(stk)
        BY <2>0, <2>1, <3>2
      <4>2. QED
        BY <2>1, <2>3, <2>4, <2>5, <2>6, <4>1
    <3>3. QED
      BY <3>1, <3>2
  <2>8. v = u
    BY <2>1, <2>3, <2>7, SeqEqual
  <2>9. QED
    BY <2>8 DEF u, v
<1>5. F(stk) \in Seq(Seq(Marks)) /\ Held[s] \in Seq(Marks)
  BY <1>1, <1>2
<1>6. Below(stk) = FlattenSeq(F(stk)) /\ Below(Append(stk, s)) = FlattenSeq(F(Append(stk, s)))
  BY DEF Below
<1> HIDE DEF F
<1>7. QED
  BY <1>4, <1>5, <1>6, FlattenSeqType, FlattenSeqAppend

\* Nothing is open below an empty stack.
LEMMA BelowEmpty == Below(<<>>) = <<>>
<1>1. [i \in 1 .. Len(<<>>) |-> Held[<<>>[i]]] = <<>>
  OBVIOUS
<1>2. QED
  BY <1>1 DEF Below, FlattenSeq

\* The path below a stack is a sequence of marks.
LEMMA BelowType ==
  ASSUME NEW stk \in Seq(StackState)
  PROVE  Below(stk) \in Seq(Marks)
BY BelowPush DEF StackState

\* The stack of a document is a stack and the state on top of it.
LEMMA StackSplits ==
  ASSUME NEW stk, Stack(stk)
  PROVE  \E rest \in Seq(StackState), s \in StackState :
           /\ stk = Append(rest, s)
           /\ stk[Len(stk)] = s /\ SubSeq(stk, 1, Len(stk) - 1) = rest
<1>1. stk \in Seq(StackState) /\ stk # <<>>
  BY DEF Stack
<1>2. PICK rest \in Seq(StackState), s \in StackState : stk = Append(rest, s)
  BY <1>1, SequenceEmptyOrAppend
<1>3. QED
  BY <1>2, AppendParts

\* What the event ev does to the path of open constructs: from p to q.
Effect(ev, p, q) ==
  \E f \in Seq(Marks), m \in Awaits :
    \/ ev \in {"Scalar", "Alias"} /\ p = Append(f, m) /\ q = Append(f, After(m))
    \/ ev = "SequenceStart" /\ p = Append(f, m) /\ q = Append(p, "seq")
    \/ ev = "MappingStart" /\ p = Append(f, m) /\ q = Append(p, "key")
    \/ ev = "SequenceEnd" /\ p = Append(Append(f, m), "seq") /\ q = Append(f, After(m))
    \/ ev = "MappingEnd" /\ p = Append(Append(f, m), "key") /\ q = Append(f, After(m))

\* A call that starts inside a document fails or emits an event that fits the path.
Turn ==
  /\ state' \in Inside \cup {"DocumentEnd"}
  /\ boundary' = boundary
  /\ \/ errors' = errors + 1
     \/ errors' = errors /\ Effect(event', Open, Open')

\* Popping the stack completes the node the path awaited.
LEMMA PopPath ==
  ASSUME NEW stk, Stack(stk)
  PROVE  /\ \E f \in Seq(Marks), m \in Awaits :
              /\ Below(stk) = Append(f, m)
              /\ Path(stk[Len(stk)], SubSeq(stk, 1, Len(stk) - 1)) = Append(f, After(m))
         /\ stk[Len(stk)] \in Inside \cup {"DocumentEnd"}
<1>1. PICK rest \in Seq(StackState), s \in StackState :
        /\ stk = Append(rest, s)
        /\ stk[Len(stk)] = s /\ SubSeq(stk, 1, Len(stk) - 1) = rest
  BY StackSplits
<1>2. PICK l \in Seq(Marks), m \in Awaits : Held[s] = Append(l, m) /\ At(s) = Append(l, After(m))
  BY HeldAt
<1>3. Below(rest) \in Seq(Marks) /\ Below(stk) = Below(rest) \o Held[s]
  BY <1>1, BelowPush
<1>4. Below(stk) = Append(Below(rest) \o l, m)
  BY <1>2, <1>3, AfterType, ConcatAppend
<1>5. Path(s, rest) = Append(Below(rest) \o l, After(m))
  BY <1>2, <1>3, AfterType, ConcatAppend DEF Path
<1>6. Below(rest) \o l \in Seq(Marks)
  BY <1>3, ConcatProperties
<1>7. s \in Inside \cup {"DocumentEnd"}
  BY DEF StackState, Inside
<1>8. QED
  BY <1>1, <1>4, <1>5, <1>6, <1>7

\* Open is the path of the current state.
LEMMA OpenIs ==
  /\ Open = Path(state, states)
  /\ Open' = Path(state', states')
BY DEF Open, Path, Below, At, Held

\* A call that returns an event.
LEMMA ReturnTurn ==
  ASSUME NEW ev, NEW c, NEW st \in Inside \cup {"DocumentEnd"}, NEW stk, Return(ev, c, st, stk),
         Effect(ev, Open, Path(st, stk))
  PROVE  Turn
<1>1. Open' = Path(st, stk)
  BY OpenIs DEF Return
<1>2. QED
  BY <1>1 DEF Return, Turn

\* A call that fails may have popped the stack.
LEMMA RejectTurn ==
  ASSUME NEW c, NEW st \in Inside \cup {"DocumentEnd"}, NEW stk, Reject(c, st, stk)
  PROVE  Turn
BY DEF Reject, Turn

\* parse_node emits a node where the path awaits one.
LEMMA ParseNodeTurn ==
  ASSUME state \in Inside, NEW c, NEW stk, Stack(stk), Open = Below(stk),
         NEW block \in BOOLEAN, NEW indentless \in BOOLEAN,
         ParseNode(c, stk, block, indentless)
  PROVE  Turn
<1> DEFINE top == stk[Len(stk)]
           rest == SubSeq(stk, 1, Len(stk) - 1)
<1>1. top \in Inside \cup {"DocumentEnd"}
  BY PopPath
<1>2. PICK f \in Seq(Marks), m \in Awaits :
        Below(stk) = Append(f, m) /\ Path(top, rest) = Append(f, After(m))
  BY PopPath
<1>3. CASE ParseAlias(c, stk)
  <2>1. CASE c.token.name \in anchors
    <3>1. Return("Alias", Skip(c), top, rest)
      BY <1>3, <2>1 DEF ParseAlias
    <3>2. Effect("Alias", Open, Path(top, rest))
      BY <1>2 DEF Effect
    <3> HIDE DEF top, rest
    <3>3. QED
      BY <1>1, <3>1, <3>2, ReturnTurn
  <2>2. CASE c.token.name \notin anchors
    <3>1. Reject(Skip(c), top, rest)
      BY <1>3, <2>2 DEF ParseAlias
    <3> HIDE DEF top, rest
    <3>2. QED
      BY <1>1, <3>1, RejectTurn
  <2>3. QED
    BY <2>1, <2>2
<1>4. ASSUME NEW p \in Properties(c), ParseContent(p, stk, block, indentless)
      PROVE  Turn
  <2> DEFINE opened == Opens(Kind(p.cur), block, indentless)
  <2>1. \/ Reject(p.cur, state, stk)
        \/ /\ event' = "Scalar" /\ state' = top /\ states' = rest
           /\ UNCHANGED <<boundary, errors>>
        \/ /\ opened # <<>>
           /\ event' = opened[1] /\ state' = opened[2] /\ states' = stk
           /\ UNCHANGED <<boundary, errors>>
    BY <1>4 DEF ParseContent
  <2> HIDE DEF top, rest
  <2>2. CASE Reject(p.cur, state, stk)
    BY <2>2, RejectTurn
  <2>3. CASE /\ event' = "Scalar" /\ state' = top /\ states' = rest
             /\ UNCHANGED <<boundary, errors>>
    <3>1. Effect(event', Open, Open')
      <4>1. Open' = Append(f, After(m))
        BY <1>2, <2>3, OpenIs
      <4>2. QED
        BY <1>2, <2>3, <4>1 DEF Effect
    <3>2. QED
      BY <1>1, <2>3, <3>1 DEF Turn
  <2>4. CASE /\ opened # <<>>
             /\ event' = opened[1] /\ state' = opened[2] /\ states' = stk
             /\ UNCHANGED <<boundary, errors>>
    <3>1. \/ opened[1] = "SequenceStart" /\ At(opened[2]) = <<"seq">>
          \/ opened[1] = "MappingStart" /\ At(opened[2]) = <<"key">>
      BY <2>4 DEF Opens, At
    <3>2. opened[2] \in Inside
      BY <2>4, OpensType
    <3>3. Open' = Open \o At(opened[2])
      BY <2>4, OpenIs DEF Path
    <3>4. Open \in Seq(Marks)
      BY <1>2, AfterType, AppendProperties
    <3> HIDE DEF opened
    <3>5. "seq" \in Marks /\ "key" \in Marks
      BY DEF Marks
    <3>6. Effect(event', Open, Open')
      <4>1. CASE opened[1] = "SequenceStart" /\ At(opened[2]) = <<"seq">>
        <5>1. Open' = Append(Open, "seq")
          BY <3>3, <3>4, <3>5, <4>1, AppendIsConcat
        <5>2. QED
          BY <1>2, <2>4, <4>1, <5>1 DEF Effect
      <4>2. CASE opened[1] = "MappingStart" /\ At(opened[2]) = <<"key">>
        <5>1. Open' = Append(Open, "key")
          BY <3>3, <3>4, <3>5, <4>2, AppendIsConcat
        <5>2. QED
          BY <1>2, <2>4, <4>2, <5>1 DEF Effect
      <4>3. QED
        BY <3>1, <4>1, <4>2
    <3>7. QED
      BY <2>4, <3>2, <3>6 DEF Turn
  <2>5. QED
    BY <2>1, <2>2, <2>3, <2>4
<1>5. QED
  BY <1>3, <1>4 DEF ParseNode

\* The construct the current state stands for awaits a node, which the continuation next
\* finds complete.
LEMMA AtNext ==
  ASSUME states \in Seq(StackState), NEW next \in Continuations, At(state) = Held[next]
  PROVE  /\ Open = Below(Append(states, next))
         /\ \E f \in Seq(Marks), m \in Awaits :
              Open = Append(f, m) /\ Path(next, states) = Append(f, After(m))
<1>1. next \in StackState
  BY DEF StackState
<1>2. PICK l \in Seq(Marks), m \in Awaits :
        Held[next] = Append(l, m) /\ At(next) = Append(l, After(m))
  BY <1>1, HeldAt
<1>3. Below(states) \in Seq(Marks) /\ Below(Append(states, next)) = Below(states) \o Held[next]
  BY <1>1, BelowPush
<1>4. Open = Below(Append(states, next))
  BY <1>3, OpenIs DEF Path
<1>5. Open = Append(Below(states) \o l, m) /\ Path(next, states) = Append(Below(states) \o l, After(m))
  BY <1>2, <1>3, <1>4, AfterType, ConcatAppend DEF Path
<1>6. QED
  BY <1>3, <1>4, <1>5, ConcatProperties

\* An empty node.
LEMMA EmptyTurn ==
  ASSUME Stack(states), NEW c, NEW next \in Continuations, At(state) = Held[next],
         Return("Scalar", c, next, states)
  PROVE  Turn
<1>1. PICK f \in Seq(Marks), m \in Awaits :
        Open = Append(f, m) /\ Path(next, states) = Append(f, After(m))
  BY AtNext DEF Stack
<1>2. Effect("Scalar", Open, Path(next, states))
  BY <1>1 DEF Effect
<1>3. QED
  BY <1>2, ReturnTurn DEF Inside

\* A node behind the state the caller pushes.
LEMMA NodeTurn ==
  ASSUME state \in Inside, Stack(states), NEW c, NEW next \in Continuations,
         At(state) = Held[next], NEW block \in BOOLEAN, NEW indentless \in BOOLEAN,
         ParseNode(c, Append(states, next), block, indentless)
  PROVE  Turn
<1>1. Stack(Append(states, next))
  BY PushStack
<1>2. Open = Below(Append(states, next))
  BY AtNext DEF Stack
<1>3. QED
  BY <1>1, <1>2, ParseNodeTurn

\* An entry that is either empty or a node.
LEMMA EmptyOrNodeTurn ==
  ASSUME state \in Inside, Stack(states), NEW c, NEW ends, NEW next \in Continuations,
         At(state) = Held[next], NEW block \in BOOLEAN, NEW indentless \in BOOLEAN,
         EmptyOrNode(c, ends, next, block, indentless)
  PROVE  Turn
BY EmptyTurn, NodeTurn DEF EmptyOrNode

\* The end of a collection.
LEMMA EndTurn ==
  ASSUME state \in Inside, Stack(states), NEW c, NEW ev,
         \/ ev = "SequenceEnd" /\ At(state) = <<"seq">>
         \/ ev = "MappingEnd" /\ At(state) = <<"key">>,
         ReturnPop(ev, c, states)
  PROVE  Turn
<1> DEFINE top == states[Len(states)]
           rest == SubSeq(states, 1, Len(states) - 1)
<1>1. top \in Inside \cup {"DocumentEnd"}
  BY PopPath
<1>2. PICK f \in Seq(Marks), m \in Awaits :
        Below(states) = Append(f, m) /\ Path(top, rest) = Append(f, After(m))
  BY PopPath
<1>3. Below(states) \in Seq(Marks) /\ "seq" \in Marks /\ "key" \in Marks
  BY BelowType DEF Stack, Marks
<1>4. Return(ev, c, top, rest)
  BY DEF ReturnPop
<1> HIDE DEF top, rest
<1>5. Effect(ev, Open, Path(top, rest))
  <2>1. Open = Below(states) \o At(state)
    BY OpenIs DEF Path
  <2>2. CASE ev = "SequenceEnd" /\ At(state) = <<"seq">>
    <3>1. Open = Append(Append(f, m), "seq")
      BY <1>2, <1>3, <2>1, <2>2, AppendIsConcat
    <3>2. QED
      BY <1>2, <2>2, <3>1 DEF Effect
  <2>3. CASE ev = "MappingEnd" /\ At(state) = <<"key">>
    <3>1. Open = Append(Append(f, m), "key")
      BY <1>2, <1>3, <2>1, <2>3, AppendIsConcat
    <3>2. QED
      BY <1>2, <2>3, <3>1 DEF Effect
  <2>4. QED
    BY <2>2, <2>3
<1>6. QED
  BY <1>1, <1>4, <1>5, ReturnTurn

\* A call that fails.
LEMMA ErrTurn ==
  ASSUME state \in Inside, NEW c, Err(c)
  PROVE  Turn
BY RejectTurn DEF Err

\* The handlers that run inside a document.
LEMMA DocumentContentTurn == ASSUME Inv, DocumentContent PROVE Turn
<1>1. state \in Inside /\ At(state) = <<>> /\ TRUE \in BOOLEAN /\ FALSE \in BOOLEAN
  BY DEF DocumentContent, Inside, At
<1>2. Stack(states)
  BY <1>1, InsideStack
<1>3. Open = Below(states)
  <2>1. Below(states) \in Seq(Marks)
    BY <1>2, BelowType DEF Stack
  <2>2. QED
    BY <1>1, <2>1, OpenIs, ConcatEmptySeq DEF Path
<1>4. PICK c \in Peek(cur) : \/ ReturnPop("Scalar", c, states)
                             \/ ParseNode(c, states, TRUE, FALSE)
  BY DEF DocumentContent
<1>5. CASE ReturnPop("Scalar", c, states)
  <2> DEFINE top == states[Len(states)]
             rest == SubSeq(states, 1, Len(states) - 1)
  <2>1. top \in Inside \cup {"DocumentEnd"} /\ Return("Scalar", c, top, rest)
    BY <1>2, <1>5, PopPath DEF ReturnPop
  <2>2. PICK f \in Seq(Marks), m \in Awaits :
          Below(states) = Append(f, m) /\ Path(top, rest) = Append(f, After(m))
    BY <1>2, PopPath
  <2> HIDE DEF top, rest
  <2>3. Effect("Scalar", Open, Path(top, rest))
    BY <1>3, <2>2 DEF Effect
  <2>4. QED
    BY <2>1, <2>3, ReturnTurn
<1>6. CASE ParseNode(c, states, TRUE, FALSE)
  BY <1>1, <1>2, <1>3, <1>6, ParseNodeTurn
<1>7. QED
  BY <1>4, <1>5, <1>6

LEMMA BlockNodeTurn == ASSUME Inv, BlockNode PROVE Turn
<1>1. state \in Inside /\ At(state) = <<>> /\ TRUE \in BOOLEAN /\ FALSE \in BOOLEAN
  BY DEF BlockNode, Inside, At
<1>2. Stack(states)
  BY <1>1, InsideStack
<1>3. Open = Below(states)
  <2>1. Below(states) \in Seq(Marks)
    BY <1>2, BelowType DEF Stack
  <2>2. QED
    BY <1>1, <2>1, OpenIs, ConcatEmptySeq DEF Path
<1>4. PICK c \in Peek(cur) : ParseNode(c, states, TRUE, FALSE)
  BY DEF BlockNode
<1>5. QED
  BY <1>1, <1>2, <1>3, <1>4, ParseNodeTurn

LEMMA BlockMappingKeyTurn == ASSUME Inv, NEW b \in BOOLEAN, BlockMappingKey(b) PROVE Turn
<1>1. /\ state \in Inside /\ At(state) = <<"key">> /\ Held["BlockMappingValue"] = <<"key">>
      /\ "BlockMappingValue" \in Continuations /\ TRUE \in BOOLEAN
  BY DEF BlockMappingKey, Inside, Continuations, At, Held
<1>2. Stack(states)
  BY <1>1, InsideStack
<1>3. PICK c \in Entry(b) :
        \/ EmptyOrNode(c, {"Key", "Value", "BlockEnd"}, "BlockMappingValue", TRUE, TRUE)
        \/ Return("Scalar", c, "BlockMappingValue", states)
        \/ ReturnPop("MappingEnd", Skip(c), states)
        \/ Err(c)
  BY DEF BlockMappingKey
<1>4. CASE EmptyOrNode(c, {"Key", "Value", "BlockEnd"}, "BlockMappingValue", TRUE, TRUE)
  BY <1>1, <1>2, <1>4, EmptyOrNodeTurn
<1>5. CASE Return("Scalar", c, "BlockMappingValue", states)
  BY <1>1, <1>2, <1>5, EmptyTurn
<1>6. CASE ReturnPop("MappingEnd", Skip(c), states)
  BY <1>1, <1>2, <1>6, EndTurn
<1>7. CASE Err(c)
  BY <1>1, <1>7, ErrTurn
<1>8. QED
  BY <1>3, <1>4, <1>5, <1>6, <1>7

LEMMA BlockMappingValueTurn == ASSUME Inv, BlockMappingValue PROVE Turn
<1>1. /\ state \in Inside /\ At(state) = <<"val">> /\ Held["BlockMappingKey"] = <<"val">>
      /\ "BlockMappingKey" \in Continuations /\ TRUE \in BOOLEAN
  BY DEF BlockMappingValue, Inside, Continuations, At, Held
<1>2. Stack(states)
  BY <1>1, InsideStack
<1>3. PICK c \in Peek(cur) :
        \/ EmptyOrNode(c, {"Key", "Value", "BlockEnd"}, "BlockMappingKey", TRUE, TRUE)
        \/ Return("Scalar", c, "BlockMappingKey", states)
  BY DEF BlockMappingValue
<1>4. CASE EmptyOrNode(c, {"Key", "Value", "BlockEnd"}, "BlockMappingKey", TRUE, TRUE)
  BY <1>1, <1>2, <1>4, EmptyOrNodeTurn
<1>5. CASE Return("Scalar", c, "BlockMappingKey", states)
  BY <1>1, <1>2, <1>5, EmptyTurn
<1>6. QED
  BY <1>3, <1>4, <1>5

LEMMA BlockSequenceEntryTurn ==
  ASSUME Inv, NEW b \in BOOLEAN, BlockSequenceEntry(b) PROVE Turn
<1>1. /\ state \in Inside /\ At(state) = <<"seq">> /\ Held["BlockSequenceEntry"] = <<"seq">>
      /\ "BlockSequenceEntry" \in Continuations /\ TRUE \in BOOLEAN /\ FALSE \in BOOLEAN
  BY DEF BlockSequenceEntry, Inside, Continuations, At, Held
<1>2. Stack(states)
  BY <1>1, InsideStack
<1>3. PICK c \in Entry(b) :
        \/ ReturnPop("SequenceEnd", Skip(c), states)
        \/ EmptyOrNode(c, {"BlockEntry", "BlockEnd"}, "BlockSequenceEntry", TRUE, FALSE)
        \/ Err(c)
  BY DEF BlockSequenceEntry
<1>4. CASE EmptyOrNode(c, {"BlockEntry", "BlockEnd"}, "BlockSequenceEntry", TRUE, FALSE)
  BY <1>1, <1>2, <1>4, EmptyOrNodeTurn
<1>5. CASE ReturnPop("SequenceEnd", Skip(c), states)
  BY <1>1, <1>2, <1>5, EndTurn
<1>6. CASE Err(c)
  BY <1>1, <1>6, ErrTurn
<1>7. QED
  BY <1>3, <1>4, <1>5, <1>6

LEMMA IndentlessSequenceEntryTurn == ASSUME Inv, IndentlessSequenceEntry PROVE Turn
<1>1. /\ state \in Inside /\ At(state) = <<"seq">> /\ Held["IndentlessSequenceEntry"] = <<"seq">>
      /\ "IndentlessSequenceEntry" \in Continuations /\ TRUE \in BOOLEAN /\ FALSE \in BOOLEAN
  BY DEF IndentlessSequenceEntry, Inside, Continuations, At, Held
<1>2. Stack(states)
  BY <1>1, InsideStack
<1>3. PICK c \in Peek(cur) :
        \/ EmptyOrNode(c, {"BlockEntry", "Key", "Value", "BlockEnd"},
                       "IndentlessSequenceEntry", TRUE, FALSE)
        \/ ReturnPop("SequenceEnd", c, states)
  BY DEF IndentlessSequenceEntry
<1>4. CASE EmptyOrNode(c, {"BlockEntry", "Key", "Value", "BlockEnd"},
                       "IndentlessSequenceEntry", TRUE, FALSE)
  BY <1>1, <1>2, <1>4, EmptyOrNodeTurn
<1>5. CASE ReturnPop("SequenceEnd", c, states)
  BY <1>1, <1>2, <1>5, EndTurn
<1>6. QED
  BY <1>3, <1>4, <1>5

LEMMA FlowMappingKeyTurn == ASSUME Inv, NEW b \in BOOLEAN, FlowMappingKey(b) PROVE Turn
<1>1. /\ state \in Inside /\ At(state) = <<"key">>
      /\ Held["FlowMappingValue"] = <<"key">> /\ Held["FlowMappingEmptyValue"] = <<"key">>
      /\ "FlowMappingValue" \in Continuations /\ "FlowMappingEmptyValue" \in Continuations
      /\ FALSE \in BOOLEAN
  BY DEF FlowMappingKey, Inside, Continuations, At, Held
<1>2. Stack(states)
  BY <1>1, InsideStack
<1>3. PICK c \in Entry(b) :
        \/ ReturnPop("MappingEnd", Skip(c), states)
        \/ Err(c)
        \/ \E d \in PastComma(b, c) :
             \/ EmptyOrNode(d, {"Value", "FlowEntry", "FlowMappingEnd"},
                            "FlowMappingValue", FALSE, FALSE)
             \/ Return("Scalar", d, "FlowMappingValue", states)
             \/ ReturnPop("MappingEnd", Skip(d), states)
             \/ ParseNode(d, Append(states, "FlowMappingEmptyValue"), FALSE, FALSE)
  BY DEF FlowMappingKey
<1>4. CASE ReturnPop("MappingEnd", Skip(c), states)
  BY <1>1, <1>2, <1>4, EndTurn
<1>5. CASE Err(c)
  BY <1>1, <1>5, ErrTurn
<1>6. ASSUME NEW d \in PastComma(b, c),
             \/ EmptyOrNode(d, {"Value", "FlowEntry", "FlowMappingEnd"},
                            "FlowMappingValue", FALSE, FALSE)
             \/ Return("Scalar", d, "FlowMappingValue", states)
             \/ ReturnPop("MappingEnd", Skip(d), states)
             \/ ParseNode(d, Append(states, "FlowMappingEmptyValue"), FALSE, FALSE)
      PROVE  Turn
  <2>1. CASE EmptyOrNode(d, {"Value", "FlowEntry", "FlowMappingEnd"},
                         "FlowMappingValue", FALSE, FALSE)
    BY <1>1, <1>2, <2>1, EmptyOrNodeTurn
  <2>2. CASE Return("Scalar", d, "FlowMappingValue", states)
    BY <1>1, <1>2, <2>2, EmptyTurn
  <2>3. CASE ReturnPop("MappingEnd", Skip(d), states)
    BY <1>1, <1>2, <2>3, EndTurn
  <2>4. CASE ParseNode(d, Append(states, "FlowMappingEmptyValue"), FALSE, FALSE)
    BY <1>1, <1>2, <2>4, NodeTurn
  <2>5. QED
    BY <1>6, <2>1, <2>2, <2>3, <2>4
<1>7. QED
  BY <1>3, <1>4, <1>5, <1>6

LEMMA FlowMappingValueTurn == ASSUME Inv, NEW e \in BOOLEAN, FlowMappingValue(e) PROVE Turn
<1>1. /\ state \in Inside /\ At(state) = <<"val">> /\ Held["FlowMappingKey"] = <<"val">>
      /\ "FlowMappingKey" \in Continuations /\ FALSE \in BOOLEAN
  BY DEF FlowMappingValue, Inside, Continuations, At, Held
<1>2. Stack(states)
  BY <1>1, InsideStack
<1>3. PICK c \in Peek(cur) :
        \/ EmptyOrNode(c, {"FlowEntry", "FlowMappingEnd"}, "FlowMappingKey", FALSE, FALSE)
        \/ Return("Scalar", c, "FlowMappingKey", states)
  BY DEF FlowMappingValue
<1>4. CASE EmptyOrNode(c, {"FlowEntry", "FlowMappingEnd"}, "FlowMappingKey", FALSE, FALSE)
  BY <1>1, <1>2, <1>4, EmptyOrNodeTurn
<1>5. CASE Return("Scalar", c, "FlowMappingKey", states)
  BY <1>1, <1>2, <1>5, EmptyTurn
<1>6. QED
  BY <1>3, <1>4, <1>5

\* A pair opens inside the sequence it is an item of.
LEMMA PairTurn ==
  ASSUME Stack(states), At(state) = <<"seq">>, NEW c,
         Return("MappingStart", c, "FlowSequenceEntryMappingKey", states)
  PROVE  Turn
<1> DEFINE p == Path("FlowSequenceEntryMappingKey", states)
<1>1. Below(states) \in Seq(Marks) /\ "seq" \in Marks /\ "key" \in Marks /\ "seq" \in Awaits
  BY BelowType DEF Stack, Marks, Awaits
<1>2. Open = Append(Below(states), "seq")
  BY <1>1, OpenIs, AppendIsConcat DEF Path
<1>3. p = Append(Open, "key")
  <2>1. <<"seq">> \in Seq(Marks) /\ <<"seq", "key">> = Append(<<"seq">>, "key")
    BY <1>1
  <2>2. p = Below(states) \o <<"seq", "key">>
    BY DEF Path, At
  <2> HIDE DEF p
  <2>3. p = Append(Below(states) \o <<"seq">>, "key")
    BY <1>1, <2>1, <2>2, ConcatAppend
  <2>4. QED
    BY <1>1, <1>2, <2>3, AppendIsConcat
<1>4. Effect("MappingStart", Open, p)
  BY <1>1, <1>2, <1>3 DEF Effect
<1>5. QED
  BY <1>4, ReturnTurn DEF Inside

LEMMA FlowSequenceEntryTurn ==
  ASSUME Inv, NEW b \in BOOLEAN, FlowSequenceEntry(b) PROVE Turn
<1>1. /\ state \in Inside /\ At(state) = <<"seq">> /\ Held["FlowSequenceEntry"] = <<"seq">>
      /\ "FlowSequenceEntry" \in Continuations /\ FALSE \in BOOLEAN
  BY DEF FlowSequenceEntry, Inside, Continuations, At, Held
<1>2. Stack(states)
  BY <1>1, InsideStack
<1>3. PICK c \in Entry(b) :
        \/ ReturnPop("SequenceEnd", Skip(c), states)
        \/ Err(c)
        \/ \E d \in PastComma(b, c) :
             \/ ReturnPop("SequenceEnd", Skip(d), states)
             \/ Return("MappingStart", Skip(d), "FlowSequenceEntryMappingKey", states)
             \/ ParseNode(d, Append(states, "FlowSequenceEntry"), FALSE, FALSE)
  BY DEF FlowSequenceEntry
<1>4. CASE ReturnPop("SequenceEnd", Skip(c), states)
  BY <1>1, <1>2, <1>4, EndTurn
<1>5. CASE Err(c)
  BY <1>1, <1>5, ErrTurn
<1>6. ASSUME NEW d \in PastComma(b, c),
             \/ ReturnPop("SequenceEnd", Skip(d), states)
             \/ Return("MappingStart", Skip(d), "FlowSequenceEntryMappingKey", states)
             \/ ParseNode(d, Append(states, "FlowSequenceEntry"), FALSE, FALSE)
      PROVE  Turn
  <2>1. CASE ReturnPop("SequenceEnd", Skip(d), states)
    BY <1>1, <1>2, <2>1, EndTurn
  <2>2. CASE Return("MappingStart", Skip(d), "FlowSequenceEntryMappingKey", states)
    BY <1>1, <1>2, <2>2, PairTurn
  <2>3. CASE ParseNode(d, Append(states, "FlowSequenceEntry"), FALSE, FALSE)
    BY <1>1, <1>2, <2>3, NodeTurn
  <2>4. QED
    BY <1>6, <2>1, <2>2, <2>3
<1>7. QED
  BY <1>3, <1>4, <1>5, <1>6

LEMMA FlowSequenceEntryMappingKeyTurn ==
  ASSUME Inv, FlowSequenceEntryMappingKey PROVE Turn
<1>1. /\ state \in Inside /\ At(state) = <<"seq", "key">>
      /\ Held["FlowSequenceEntryMappingValue"] = <<"seq", "key">>
      /\ "FlowSequenceEntryMappingValue" \in Continuations /\ FALSE \in BOOLEAN
  BY DEF FlowSequenceEntryMappingKey, Inside, Continuations, At, Held
<1>2. Stack(states)
  BY <1>1, InsideStack
<1>3. PICK c \in Peek(cur) :
        \/ Return("Scalar", Skip(c), "FlowSequenceEntryMappingValue", states)
        \/ ParseNode(c, Append(states, "FlowSequenceEntryMappingValue"), FALSE, FALSE)
  BY DEF FlowSequenceEntryMappingKey
<1>4. CASE Return("Scalar", Skip(c), "FlowSequenceEntryMappingValue", states)
  BY <1>1, <1>2, <1>4, EmptyTurn
<1>5. CASE ParseNode(c, Append(states, "FlowSequenceEntryMappingValue"), FALSE, FALSE)
  BY <1>1, <1>2, <1>5, NodeTurn
<1>6. QED
  BY <1>3, <1>4, <1>5

LEMMA FlowSequenceEntryMappingValueTurn ==
  ASSUME Inv, FlowSequenceEntryMappingValue PROVE Turn
<1>1. /\ state \in Inside /\ At(state) = <<"seq", "val">>
      /\ Held["FlowSequenceEntryMappingEnd"] = <<"seq", "val">>
      /\ "FlowSequenceEntryMappingEnd" \in Continuations /\ FALSE \in BOOLEAN
  BY DEF FlowSequenceEntryMappingValue, Inside, Continuations, At, Held
<1>2. Stack(states)
  BY <1>1, InsideStack
<1>3. PICK c \in Peek(cur) :
        \/ EmptyOrNode(c, {"FlowEntry", "FlowSequenceEnd"},
                       "FlowSequenceEntryMappingEnd", FALSE, FALSE)
        \/ Return("Scalar", c, "FlowSequenceEntryMappingEnd", states)
  BY DEF FlowSequenceEntryMappingValue
<1>4. CASE EmptyOrNode(c, {"FlowEntry", "FlowSequenceEnd"},
                       "FlowSequenceEntryMappingEnd", FALSE, FALSE)
  BY <1>1, <1>2, <1>4, EmptyOrNodeTurn
<1>5. CASE Return("Scalar", c, "FlowSequenceEntryMappingEnd", states)
  BY <1>1, <1>2, <1>5, EmptyTurn
<1>6. QED
  BY <1>3, <1>4, <1>5

\* The end of a pair is made up: the sequence around it goes on.
LEMMA FlowSequenceEntryMappingEndTurn ==
  ASSUME Inv, FlowSequenceEntryMappingEnd PROVE Turn
<1>1. state \in Inside /\ At(state) = <<"seq", "key">> /\ At("FlowSequenceEntry") = <<"seq">>
  BY DEF FlowSequenceEntryMappingEnd, Inside, Continuations, At
<1>2. Stack(states)
  BY <1>1, InsideStack
<1>3. Below(states) \in Seq(Marks) /\ "seq" \in Marks /\ "key" \in Marks /\ "seq" \in Awaits
  BY <1>2, BelowType DEF Stack, Marks, Awaits
<1>4. Open = Append(Append(Below(states), "seq"), "key")
  <2>1. <<"seq">> \in Seq(Marks) /\ <<"seq", "key">> = Append(<<"seq">>, "key")
    BY <1>3
  <2>2. Open = Append(Below(states) \o <<"seq">>, "key")
    BY <1>1, <1>3, <2>1, OpenIs, ConcatAppend DEF Path
  <2>3. QED
    BY <1>3, <2>2, AppendIsConcat
<1>5. Path("FlowSequenceEntry", states) = Append(Below(states), After("seq"))
  BY <1>1, <1>3, AppendIsConcat DEF Path, After
<1>6. Effect("MappingEnd", Open, Path("FlowSequenceEntry", states))
  BY <1>3, <1>4, <1>5 DEF Effect
<1>7. Return("MappingEnd", cur, "FlowSequenceEntry", states)
  BY DEF FlowSequenceEntryMappingEnd
<1>8. QED
  BY <1>6, <1>7, ReturnTurn DEF Inside, Continuations

\* Every call that starts inside a document.
LEMMA InsideTurn ==
  ASSUME Inv, state \in Inside, Handler
  PROVE  Turn
<1>1. ~(StreamStart \/ DocumentEnd \/ End \/ \E b \in BOOLEAN : DocumentStart(b))
  BY DEF StreamStart, DocumentEnd, End, DocumentStart, Inside, Continuations
<1>2. CASE ScannerFails
  BY <1>2, RejectTurn DEF ScannerFails
<1>3. QED
  BY <1>1, <1>2, DocumentContentTurn, BlockNodeTurn, BlockMappingKeyTurn,
     BlockMappingValueTurn, BlockSequenceEntryTurn, IndentlessSequenceEntryTurn,
     FlowMappingKeyTurn, FlowMappingValueTurn, FlowSequenceEntryTurn,
     FlowSequenceEntryMappingKeyTurn, FlowSequenceEntryMappingValueTurn,
     FlowSequenceEntryMappingEndTurn DEF Handler

\* While no call has failed, an event that fits the path is one the consumer may see.
LEMMA EffectStep ==
  ASSUME errors = 0, errors' = 0, state \notin {"StreamStart", "End"},
         state' \notin {"StreamStart", "End"}, Effect(event', Open, Open')
  PROVE  ES!ESNext
<1>1. PICK f \in Seq(Marks), m \in Awaits :
        \/ event' \in {"Scalar", "Alias"} /\ Open = Append(f, m) /\ Open' = Append(f, After(m))
        \/ event' = "SequenceStart" /\ Open = Append(f, m) /\ Open' = Append(Open, "seq")
        \/ event' = "MappingStart" /\ Open = Append(f, m) /\ Open' = Append(Open, "key")
        \/ event' = "SequenceEnd" /\ Open = Append(Append(f, m), "seq") /\ Open' = Append(f, After(m))
        \/ event' = "MappingEnd" /\ Open = Append(Append(f, m), "key") /\ Open' = Append(f, After(m))
  BY DEF Effect
<1>2. m \in Marks /\ "seq" \in Marks /\ "key" \in Marks
  BY AfterType DEF Marks
<1>3. Append(f, m) \in Seq(Marks)
  BY <1>2, AppendProperties
<1>4. ASSUME NEW p, Open = p PROVE
        /\ ES!Top = p[Len(p)] /\ ES!Outer = SubSeq(p, 1, Len(p) - 1)
        /\ ES!AwaitsNode <=> p # <<>> /\ p[Len(p)] \in {"root", "seq", "key", "val"}
  BY <1>4 DEF ES!Top, ES!Outer, ES!AwaitsNode
<1>5. m \in {"root", "seq", "key", "val"}
  BY DEF Awaits, Marks
<1>6. CASE event' \in {"Scalar", "Alias"} /\ Open = Append(f, m) /\ Open' = Append(f, After(m))
  <2>1. ES!AwaitsNode
    BY <1>2, <1>4, <1>5, <1>6, AppendParts, AppendProperties
  <2>2. ES!Completed(Open) = Open'
    BY <1>6, CompletedIs
  <2>3. ES!Leaf
    BY <1>6, <2>1, <2>2 DEF ES!Leaf
  <2>4. QED
    BY <2>3 DEF ES!ESNext
<1>7. CASE event' = "SequenceStart" /\ Open = Append(f, m) /\ Open' = Append(Open, "seq")
  <2>1. ES!AwaitsNode
    BY <1>2, <1>4, <1>5, <1>7, AppendParts, AppendProperties
  <2>2. ES!SequenceStart
    BY <1>7, <2>1 DEF ES!SequenceStart
  <2>3. QED
    BY <2>2 DEF ES!ESNext
<1>8. CASE event' = "MappingStart" /\ Open = Append(f, m) /\ Open' = Append(Open, "key")
  <2>1. ES!AwaitsNode
    BY <1>2, <1>4, <1>5, <1>8, AppendParts, AppendProperties
  <2>2. ES!MappingStart
    BY <1>8, <2>1 DEF ES!MappingStart
  <2>3. QED
    BY <2>2 DEF ES!ESNext
<1>9. CASE event' = "SequenceEnd" /\ Open = Append(Append(f, m), "seq") /\ Open' = Append(f, After(m))
  <2>1. ES!AwaitsNode /\ ES!Top = "seq" /\ ES!Outer = Append(f, m)
    BY <1>2, <1>3, <1>4, <1>9, AppendParts, AppendProperties
  <2>2. ES!Completed(Append(f, m)) = Open'
    BY <1>9, CompletedIs
  <2>3. ES!SequenceEnd
    BY <1>9, <2>1, <2>2 DEF ES!SequenceEnd
  <2>4. QED
    BY <2>3 DEF ES!ESNext
<1>10. CASE event' = "MappingEnd" /\ Open = Append(Append(f, m), "key") /\ Open' = Append(f, After(m))
  <2>1. ES!AwaitsNode /\ ES!Top = "key" /\ ES!Outer = Append(f, m)
    BY <1>2, <1>3, <1>4, <1>10, AppendParts, AppendProperties
  <2>2. ES!Completed(Append(f, m)) = Open'
    BY <1>10, CompletedIs
  <2>3. ES!MappingEnd
    BY <1>10, <2>1, <2>2 DEF ES!MappingEnd
  <2>4. QED
    BY <2>3 DEF ES!ESNext
<1>11. QED
  BY <1>1, <1>6, <1>7, <1>8, <1>9, <1>10

\* The states between two documents.
Waiting == {"ImplicitDocumentStart", "DocumentStart"}

\* A call that starts outside a document fails or emits a boundary or an end of the stream.
Crossing ==
  \/ errors' = errors + 1
  \/ /\ errors' = errors
     /\ \/ /\ state = "StreamStart" /\ event' = "StreamStart"
           /\ state' = "ImplicitDocumentStart" /\ states' = <<>>
        \/ /\ state \in Waiting /\ event' = "DocumentStart"
           /\ state' \in {"DocumentContent", "BlockNode"} /\ states' = Append(<<>>, "DocumentEnd")
        \/ /\ state = "DocumentEnd" /\ event' = "DocumentEnd"
           /\ state' \in Waiting /\ states' = <<>>
        \/ /\ state \in Waiting \cup {"End"} /\ event' = "StreamEnd"
           /\ state' = "End" /\ states' = <<>>

\* The start of a document.
LEMMA DocumentStartCrosses ==
  ASSUME Inv, states = <<>>, NEW b \in BOOLEAN, DocumentStart(b)
  PROVE  Crossing
<1>1. state \in Waiting
  BY DEF DocumentStart, Waiting
<1>2. PICK c : \/ Return("StreamEnd", Skip(c), "End", states)
               \/ ExplicitDocumentStart(c)
               \/ ImplicitDocument(c)
  BY DEF DocumentStart
<1>3. CASE Return("StreamEnd", Skip(c), "End", states)
  BY <1>1, <1>3 DEF Return, Crossing
<1>4. CASE ExplicitDocumentStart(c)
  <2>1. PICK r \in Directives(c) :
          \/ Err(r.cur)
          \/ Reject(r.cur, state, states)
          \/ /\ event' = "DocumentStart" /\ state' = "DocumentContent"
             /\ states' = Append(states, "DocumentEnd") /\ UNCHANGED errors
    BY <1>4 DEF ExplicitDocumentStart, Bound
  <2>2. QED
    BY <1>1, <2>1 DEF Err, Reject, Crossing
<1>5. CASE ImplicitDocument(c)
  BY <1>1, <1>5 DEF ImplicitDocument, Bound, Crossing
<1>6. QED
  BY <1>2, <1>3, <1>4, <1>5

\* The other handlers run inside a document.
LEMMA OtherHandlers ==
  ASSUME Handler,
         ~(StreamStart \/ DocumentEnd \/ End \/ ScannerFails \/ \E b \in BOOLEAN : DocumentStart(b))
  PROVE  state \in Inside
BY DEF Handler, DocumentContent, BlockNode, BlockMappingKey, BlockMappingValue,
   BlockSequenceEntry, IndentlessSequenceEntry, FlowMappingKey, FlowMappingValue,
   FlowSequenceEntry, FlowSequenceEntryMappingKey, FlowSequenceEntryMappingValue,
   FlowSequenceEntryMappingEnd, Inside, Continuations

\* Every call that starts outside a document.
LEMMA OutsideCrosses ==
  ASSUME Inv, state \in Outside, Handler
  PROVE  Crossing
<1>1. state \notin Inside
  BY DEF Inside, Outside, Continuations
<1>2. states = <<>>
  BY <1>1 DEF Inv, Control
<1>3. CASE StreamStart
  <2>1. PICK c : \/ Return("StreamStart", Skip(c), "ImplicitDocumentStart", states)
                 \/ Err(c)
    BY <1>3 DEF StreamStart
  <2>2. QED
    BY <1>2, <1>3, <2>1 DEF StreamStart, Return, Err, Reject, Crossing
<1>4. CASE DocumentEnd
  <2>1. PICK c : \/ Reject(c, state, states)
                 \/ /\ Bound("DocumentEnd", Kind(c) = "DocumentEnd", FALSE)
                    /\ state' \in Waiting /\ UNCHANGED <<states, errors>>
    BY <1>4 DEF DocumentEnd, Waiting
  <2>2. QED
    BY <1>2, <1>4, <2>1 DEF DocumentEnd, Reject, Bound, Crossing
<1>5. CASE End
  BY <1>2, <1>5 DEF End, Return, Crossing
<1>6. CASE ScannerFails
  BY <1>6 DEF ScannerFails, Reject, Crossing
<1>7. CASE \E b \in BOOLEAN : DocumentStart(b)
  BY <1>2, <1>7, DocumentStartCrosses
<1>8. CASE ~(StreamStart \/ DocumentEnd \/ End \/ ScannerFails \/ \E b \in BOOLEAN : DocumentStart(b))
  BY <1>1, <1>8, OtherHandlers
<1>9. QED
  BY <1>3, <1>4, <1>5, <1>6, <1>7, <1>8

\* Outside a document nothing is open.
LEMMA PathOutside ==
  /\ Path("StreamStart", <<>>) = <<>> /\ Path("End", <<>>) = <<>>
  /\ \A st \in Waiting : Path(st, <<>>) = <<>>
  /\ Path("DocumentEnd", <<>>) = <<"done">>
  /\ \A st \in {"DocumentContent", "BlockNode"} : Path(st, Append(<<>>, "DocumentEnd")) = <<"root">>
<1>1. <<>> \in Seq(StackState) /\ "DocumentEnd" \in StackState
  BY DEF StackState
<1>2. Below(Append(<<>>, "DocumentEnd")) = <<"root">>
  <2>1. Held["DocumentEnd"] = <<"root">>
    BY DEF Held
  <2>2. Below(Append(<<>>, "DocumentEnd")) = <<>> \o <<"root">>
    BY <1>1, <2>1, BelowPush, BelowEmpty
  <2>3. <<"root">> \in Seq(Marks)
    BY DEF Marks
  <2>4. QED
    BY <2>2, <2>3, ConcatEmptySeq
<1>3. \A st \in {"DocumentContent", "BlockNode"} : At(st) = <<>>
  BY DEF At
<1>4. \A st \in Waiting \cup {"StreamStart", "End"} : At(st) = <<>>
  BY DEF At, Waiting
<1>5. At("DocumentEnd") = <<"done">>
  BY DEF At
<1>6. /\ <<>> \o <<>> = <<>> /\ <<>> \o <<"done">> = <<"done">>
      /\ <<"root">> \o <<>> = <<"root">>
  <2>1. <<>> \in Seq(Marks) /\ <<"done">> \in Seq(Marks) /\ <<"root">> \in Seq(Marks)
    BY DEF Marks
  <2>2. QED
    BY <2>1, ConcatEmptySeq
<1>7. /\ Path("StreamStart", <<>>) = <<>> /\ Path("End", <<>>) = <<>>
      /\ \A st \in Waiting : Path(st, <<>>) = <<>>
  BY <1>4, <1>6, BelowEmpty DEF Path
<1>8. Path("DocumentEnd", <<>>) = <<"done">>
  BY <1>5, <1>6, BelowEmpty DEF Path
<1>9. \A st \in {"DocumentContent", "BlockNode"} : Path(st, Append(<<>>, "DocumentEnd")) = <<"root">>
  <2> SUFFICES ASSUME NEW st \in {"DocumentContent", "BlockNode"}
               PROVE  Path(st, Append(<<>>, "DocumentEnd")) = <<"root">>
    OBVIOUS
  <2>1. At(st) = <<>>
    BY <1>3
  <2>2. QED
    BY <1>2, <1>6, <2>1 DEF Path
<1>10. QED
  BY <1>7, <1>8, <1>9

\* While no call has failed, what such a call emits is one the consumer may see.
LEMMA CrossingStep ==
  ASSUME Inv, state \in Outside, errors = 0, errors' = 0, Crossing
  PROVE  ES!ESNext
<1>1. states = <<>>
  BY DEF Inv, Control, Inside, Outside, Continuations
<1>2. Open = Path(state, <<>>) /\ Open' = Path(state', states')
  BY <1>1, OpenIs
<1>3. CASE /\ state = "StreamStart" /\ event' = "StreamStart"
           /\ state' = "ImplicitDocumentStart" /\ states' = <<>>
  <2>1. Open = <<>> /\ Open' = <<>>
    BY <1>2, <1>3, PathOutside DEF Waiting
  <2>2. ES!StreamStart
    BY <1>3, <2>1 DEF ES!StreamStart
  <2>3. QED
    BY <2>2 DEF ES!ESNext
<1>4. CASE /\ state \in Waiting /\ event' = "DocumentStart"
           /\ state' \in {"DocumentContent", "BlockNode"} /\ states' = Append(<<>>, "DocumentEnd")
  <2>1. Open = <<>> /\ Open' = <<"root">>
    BY <1>2, <1>4, PathOutside
  <2>2. ES!DocumentStart
    BY <1>4, <2>1 DEF ES!DocumentStart, Waiting
  <2>3. QED
    BY <2>2 DEF ES!ESNext
<1>5. CASE /\ state = "DocumentEnd" /\ event' = "DocumentEnd"
           /\ state' \in Waiting /\ states' = <<>>
  <2>1. Open = <<"done">> /\ Open' = <<>>
    BY <1>2, <1>5, PathOutside
  <2>2. ES!DocumentEnd
    BY <1>5, <2>1 DEF ES!DocumentEnd, Waiting
  <2>3. QED
    BY <2>2 DEF ES!ESNext
<1>6. CASE /\ state \in Waiting \cup {"End"} /\ event' = "StreamEnd"
           /\ state' = "End" /\ states' = <<>>
  <2>1. Open = <<>> /\ Open' = <<>>
    BY <1>2, <1>6, PathOutside
  <2>2. ES!StreamEnd
    BY <1>6, <2>1 DEF ES!StreamEnd, Waiting
  <2>3. QED
    BY <2>2 DEF ES!ESNext
<1>7. QED
  BY <1>3, <1>4, <1>5, <1>6 DEF Crossing

\* The automaton implements EventStream.
LEMMA RefineNext == Inv /\ [Next]_vars => [ES!ESNext]_(ES!esVars)
<1> SUFFICES ASSUME Inv, [Next]_vars PROVE [ES!ESNext]_(ES!esVars)
  OBVIOUS
<1>0. errors \in Nat
  BY DEF Inv
<1>1. CASE UNCHANGED vars
  <2>1. state' = state /\ states' = states /\ errors' = errors /\ event' = event
    BY <1>1 DEF vars
  <2>2. Open' = Open
    BY <2>1, OpenIs
  <2>3. QED
    BY <2>1, <2>2 DEF ES!esVars
<1>2. CASE Handler
  <2>1. state \in Inside \/ state \in Outside
    BY DEF Inv, Control
  <2>2. errors' \in {errors, errors + 1}
    BY <1>2, <2>1, InsideTurn, OutsideCrosses DEF Turn, Crossing
  <2>3. CASE errors > 0
    <3>1. errors' > 0
      BY <1>0, <2>2, <2>3
    <3>2. QED
      BY <2>3, <3>1 DEF ES!esVars
  <2>4. CASE errors = 0 /\ errors' = errors + 1
    <3>1. errors' > 0
      BY <2>4
    <3>2. ES!Fail
      BY <2>4, <3>1 DEF ES!Fail
    <3>3. QED
      BY <3>2 DEF ES!ESNext
  <2>5. CASE errors = 0 /\ errors' = errors
    <3>1. CASE state \in Inside
      <4>1. Turn
        BY <1>2, <3>1, InsideTurn
      <4>2. Effect(event', Open, Open')
        BY <2>5, <4>1 DEF Turn
      <4>3. state' \notin {"StreamStart", "End"} /\ state \notin {"StreamStart", "End"}
        BY <3>1, <4>1 DEF Turn, Inside, Continuations
      <4>4. QED
        BY <2>5, <4>2, <4>3, EffectStep
    <3>2. CASE state \in Outside
      BY <1>2, <2>5, <3>2, OutsideCrosses, CrossingStep
    <3>3. QED
      BY <2>1, <3>1, <3>2
  <2>6. QED
    BY <1>0, <2>2, <2>3, <2>4, <2>5
<1>3. QED
  BY <1>1, <1>2 DEF Next, NextToken, GiveUp

\* The events up to the first Err form a prefix of a well-nested stream, whatever the
\* scanner delivers: the parser implements EventStream, which the builder counts on.
THEOREM WellNested == Spec => EventsWellNested
<1>1. Init => ES!ESInit
  <2> SUFFICES ASSUME Init PROVE ES!ESInit
    OBVIOUS
  <2>1. Open = <<>>
    BY OpenIs, PathOutside DEF Init
  <2>2. QED
    BY <2>1 DEF Init, ES!ESInit
<1>2. QED
  BY <1>1, RefineNext, InvHolds, PTL DEF Spec, EventsWellNested, ES!ESSpec

-------------------------------------------------------------------------------
(***************************************************************************)
(* The boundaries of documents.                                            *)
(***************************************************************************)
\* Where the marker of the document before decides what may follow: the automaton is back
\* in ImplicitDocumentStart after a `...' only; after an implicit end the token that showed
\* the end is still in the slot, and it is neither a directive nor a `...'.
Separation ==
  /\ state = "StreamStart" => boundary.event # "DocumentEnd"
  /\ state = "ImplicitDocumentStart" /\ boundary.event = "DocumentEnd" => boundary.explicit
  /\ state = "DocumentStart" =>
       \/ cur.token = NoToken /\ cur.scan = "error"
       \/ cur.token # NoToken /\ ~IsDirective(cur) /\ Kind(cur) # "DocumentEnd"

\* A document that must be explicit starts at the token in the slot, without directives.
LEMMA SlotDecides ==
  ASSUME Inv, Separation, state = "DocumentStart", NEW d \in Peek(cur),
         NEW c \in IF Kind(d) = "DocumentEnd" THEN Peek(Skip(d)) ELSE {d}, NEW r \in Directives(c)
  PROVE  r = [cur |-> cur, tags |-> {}, version |-> FALSE]
<1>1. cur.token # NoToken /\ ~IsDirective(cur) /\ Kind(cur) # "DocumentEnd"
  BY DEF Separation, Peek
<1>2. d = cur
  BY <1>1 DEF Peek
<1>3. c = cur
  BY <1>1, <1>2
<1>4. QED
  BY <1>1, <1>3 DEF Directives

\* The ways a document begins, seen from the slot and the boundary.
LEMMA DocumentStartCases ==
  ASSUME Inv, NEW b \in BOOLEAN, DocumentStart(b)
  PROVE  \E d \in Peek(cur) : \E c \in IF Kind(d) = "DocumentEnd" THEN Peek(Skip(d)) ELSE {d} :
           \/ state' = "End" /\ UNCHANGED boundary
           \/ \E r \in Directives(c) :
                \/ IsDirective(r.cur) /\ Err(r.cur)
                \/ Reject(r.cur, state, states)
                \/ /\ state' = "DocumentContent"
                   /\ Bound("DocumentStart", TRUE, r.version \/ r.tags # {})
           \/ state = "ImplicitDocumentStart" /\ state' = "BlockNode"
              /\ Bound("DocumentStart", FALSE, FALSE)
<1>1. PICK d \in Peek(cur) : \E c \in IF Kind(d) = "DocumentEnd" THEN Peek(Skip(d)) ELSE {d} :
       /\ Kind(c) # "DocumentEnd"
       /\ CASE Kind(c) = "StreamEnd" -> Return("StreamEnd", Skip(c), "End", states)
            [] Kind(c) # "StreamEnd" /\ (~b \/ IsDirective(c) \/ Kind(c) = "DocumentStart") ->
                 ExplicitDocumentStart(c)
            [] OTHER -> ImplicitDocument(c)
  BY DEF DocumentStart
<1>2. PICK c \in IF Kind(d) = "DocumentEnd" THEN Peek(Skip(d)) ELSE {d} :
       CASE Kind(c) = "StreamEnd" -> Return("StreamEnd", Skip(c), "End", states)
         [] Kind(c) # "StreamEnd" /\ (~b \/ IsDirective(c) \/ Kind(c) = "DocumentStart") ->
              ExplicitDocumentStart(c)
         [] OTHER -> ImplicitDocument(c)
  BY <1>1
<1>3. \/ Return("StreamEnd", Skip(c), "End", states)
      \/ ExplicitDocumentStart(c)
      \/ b /\ ImplicitDocument(c)
  BY <1>2
<1>4. CASE Return("StreamEnd", Skip(c), "End", states)
  BY <1>4 DEF Return
<1>5. CASE ExplicitDocumentStart(c)
  <2>1. PICK r \in Directives(c) :
          \/ IsDirective(r.cur) /\ Err(r.cur)
          \/ Reject(r.cur, state, states)
          \/ /\ state' = "DocumentContent"
             /\ Bound("DocumentStart", TRUE, r.version \/ r.tags # {})
    BY <1>5 DEF ExplicitDocumentStart
  <2>2. QED
    BY <2>1
<1>6. CASE b /\ ImplicitDocument(c)
  <2>1. state = "ImplicitDocumentStart"
    BY <1>6 DEF DocumentStart
  <2>2. QED
    BY <1>6, <2>1 DEF ImplicitDocument
<1>7. QED
  BY <1>3, <1>4, <1>5, <1>6

\* The boundary a step emits fits the one before.
Fits ==
  boundary.event = "DocumentEnd" /\ boundary'.event = "DocumentStart" =>
    /\ boundary.explicit \/ boundary'.explicit
    /\ boundary'.directives => boundary.explicit /\ boundary'.explicit

\* A step that emits no boundary.
LEMMA Unbounded ==
  ASSUME UNCHANGED boundary
  PROVE  Fits
BY DEF Fits

\* The start of a document.
LEMMA DocumentStartSeparates ==
  ASSUME Inv, Separation, NEW b \in BOOLEAN, DocumentStart(b)
  PROVE  Separation' /\ Fits
<1>0. state \in {"ImplicitDocumentStart", "DocumentStart"}
  BY DEF DocumentStart
<1>1. PICK d \in Peek(cur) : \E c \in IF Kind(d) = "DocumentEnd" THEN Peek(Skip(d)) ELSE {d} :
        \/ state' = "End" /\ UNCHANGED boundary
        \/ \E r \in Directives(c) :
             \/ IsDirective(r.cur) /\ Err(r.cur)
             \/ Reject(r.cur, state, states)
             \/ /\ state' = "DocumentContent"
                /\ Bound("DocumentStart", TRUE, r.version \/ r.tags # {})
        \/ state = "ImplicitDocumentStart" /\ state' = "BlockNode"
           /\ Bound("DocumentStart", FALSE, FALSE)
  BY DocumentStartCases
<1>2. PICK c \in IF Kind(d) = "DocumentEnd" THEN Peek(Skip(d)) ELSE {d} :
        \/ state' = "End" /\ UNCHANGED boundary
        \/ \E r \in Directives(c) :
             \/ IsDirective(r.cur) /\ Err(r.cur)
             \/ Reject(r.cur, state, states)
             \/ /\ state' = "DocumentContent"
                /\ Bound("DocumentStart", TRUE, r.version \/ r.tags # {})
        \/ state = "ImplicitDocumentStart" /\ state' = "BlockNode"
           /\ Bound("DocumentStart", FALSE, FALSE)
  BY <1>1
<1>3. CASE state' = "End" /\ UNCHANGED boundary
  BY <1>3, Unbounded DEF Separation
<1>4. ASSUME NEW r \in Directives(c),
             \/ IsDirective(r.cur) /\ Err(r.cur)
             \/ Reject(r.cur, state, states)
             \/ /\ state' = "DocumentContent"
                /\ Bound("DocumentStart", TRUE, r.version \/ r.tags # {})
      PROVE  Separation' /\ Fits
  <2>1. state = "DocumentStart" =>
          /\ r.cur = cur /\ r.tags = {} /\ r.version = FALSE
          /\ cur.token # NoToken /\ ~IsDirective(cur) /\ Kind(cur) # "DocumentEnd"
    <3> SUFFICES ASSUME state = "DocumentStart"
                 PROVE  /\ r.cur = cur /\ r.tags = {} /\ r.version = FALSE
                        /\ cur.token # NoToken /\ ~IsDirective(cur) /\ Kind(cur) # "DocumentEnd"
      OBVIOUS
    <3>1. r = [cur |-> cur, tags |-> {}, version |-> FALSE]
      BY <1>4, SlotDecides
    <3>2. cur.token # NoToken /\ ~IsDirective(cur) /\ Kind(cur) # "DocumentEnd"
      BY DEF Separation, Peek
    <3>3. QED
      BY <3>1, <3>2
  <2>2. CASE IsDirective(r.cur) /\ Err(r.cur)
    <3>1. state # "DocumentStart"
      BY <2>1, <2>2
    <3>2. state' = state /\ UNCHANGED boundary
      BY <2>2 DEF Err, Reject
    <3>3. QED
      BY <3>1, <3>2, Unbounded DEF Separation
  <2>3. CASE Reject(r.cur, state, states)
    <3>1. state' = state /\ UNCHANGED boundary /\ cur' = r.cur
      BY <2>3 DEF Reject
    <3>2. state = "DocumentStart" => cur' = cur
      BY <2>1, <3>1
    <3>3. Separation'
      BY <3>1, <3>2 DEF Separation, IsDirective, Kind
    <3>4. QED
      BY <3>1, <3>3, Unbounded
  <2>4. CASE /\ state' = "DocumentContent"
             /\ Bound("DocumentStart", TRUE, r.version \/ r.tags # {})
    <3>1. Separation'
      BY <2>4 DEF Separation
    <3>2. boundary'.explicit = TRUE /\ (boundary'.directives <=> r.version \/ r.tags # {})
      <4>1. boundary' = [event |-> "DocumentStart", explicit |-> TRUE,
                         directives |-> r.version \/ r.tags # {}]
        BY <2>4 DEF Bound
      <4>2. QED
        BY <4>1, Zenon
    <3>3. CASE state = "ImplicitDocumentStart"
      BY <3>1, <3>2, <3>3 DEF Separation, Fits
    <3>4. CASE state = "DocumentStart"
      <4>1. ~boundary'.directives
        BY <2>1, <3>2, <3>4
      <4>2. QED
        BY <3>1, <3>2, <4>1 DEF Fits
    <3>5. QED
      BY <1>0, <3>3, <3>4
  <2>5. QED
    BY <1>4, <2>2, <2>3, <2>4
<1>5. CASE state = "ImplicitDocumentStart" /\ state' = "BlockNode"
           /\ Bound("DocumentStart", FALSE, FALSE)
  <2>1. Separation'
    BY <1>5 DEF Separation
  <2>2. boundary' = [event |-> "DocumentStart", explicit |-> FALSE, directives |-> FALSE]
    BY <1>5 DEF Bound
  <2>3. QED
    BY <1>5, <2>1, <2>2 DEF Separation, Fits
<1>6. QED
  BY <1>2, <1>3, <1>4, <1>5

\* Its end.
LEMMA DocumentEndSeparates ==
  ASSUME Inv, Separation, DocumentEnd
  PROVE  Separation' /\ Fits
<1>1. PICK c \in Peek(cur) :
       \/ Reject(c, state, states)
       \/ /\ ~IsDirective(c)
          /\ Bound("DocumentEnd", Kind(c) = "DocumentEnd", FALSE)
          /\ cur' = IF Kind(c) = "DocumentEnd" THEN Skip(c) ELSE c
          /\ state' = IF Kind(c) = "DocumentEnd" THEN "ImplicitDocumentStart" ELSE "DocumentStart"
  BY DEF DocumentEnd
<1>2. CASE Reject(c, state, states)
  BY <1>2, Unbounded DEF DocumentEnd, Reject, Separation
<1>3. CASE /\ ~IsDirective(c)
           /\ Bound("DocumentEnd", Kind(c) = "DocumentEnd", FALSE)
           /\ cur' = IF Kind(c) = "DocumentEnd" THEN Skip(c) ELSE c
           /\ state' = IF Kind(c) = "DocumentEnd" THEN "ImplicitDocumentStart" ELSE "DocumentStart"
  <2>1. boundary'.event = "DocumentEnd" /\ (boundary'.explicit <=> Kind(c) = "DocumentEnd")
    <3>1. boundary' = [event |-> "DocumentEnd", explicit |-> Kind(c) = "DocumentEnd",
                       directives |-> FALSE]
      BY <1>3 DEF Bound
    <3>2. QED
      BY <3>1, Zenon
  <2>2. c.token # NoToken
    <3>1. c.token \in Token
      BY HeadType
    <3>2. QED
      BY <3>1 DEF NoToken, Token, Openers, Plain, Named, StreamStartToken, Tok
  <2>3. CASE Kind(c) = "DocumentEnd"
    BY <1>3, <2>1, <2>3 DEF Separation, Fits
  <2>4. CASE Kind(c) # "DocumentEnd"
    BY <1>3, <2>1, <2>2, <2>4 DEF Separation, Fits, IsDirective, Kind
  <2>5. QED
    BY <2>3, <2>4
<1>4. QED
  BY <1>1, <1>2, <1>3

\* Every step.
LEMMA SeparationStep == Inv /\ Separation /\ [Next]_vars => Separation' /\ Fits
<1> SUFFICES ASSUME Inv, Separation, [Next]_vars PROVE Separation' /\ Fits
  OBVIOUS
<1>1. CASE UNCHANGED vars
  BY <1>1, Unbounded DEF vars, Separation, IsDirective, Kind
<1>2. CASE Handler /\ state \in Inside
  <2>1. Turn
    BY <1>2, InsideTurn
  <2>2. QED
    BY <2>1, Unbounded DEF Turn, Separation, Inside, Continuations
<1>3. CASE Handler /\ state \in Outside
  <2>1. CASE StreamStart
    <3>1. PICK c : \/ Return("StreamStart", Skip(c), "ImplicitDocumentStart", states)
                   \/ Err(c)
      BY <2>1 DEF StreamStart
    <3>2. UNCHANGED boundary /\ state' \in {"ImplicitDocumentStart", "StreamStart"}
      BY <2>1, <3>1 DEF StreamStart, Return, Err, Reject
    <3>3. QED
      BY <2>1, <3>2, Unbounded DEF StreamStart, Separation
  <2>2. CASE DocumentEnd
    BY <2>2, DocumentEndSeparates
  <2>3. CASE \E b \in BOOLEAN : DocumentStart(b)
    BY <2>3, DocumentStartSeparates
  <2>4. CASE End
    BY <2>4, Unbounded DEF End, Return, Separation
  <2>5. CASE ScannerFails
    <3>1. state' = state /\ UNCHANGED boundary /\ cur' = [token |-> NoToken, scan |-> "error"]
      BY <2>5 DEF ScannerFails, Reject
    <3>2. QED
      BY <3>1, Unbounded DEF Separation
  <2>6. CASE ~(StreamStart \/ DocumentEnd \/ End \/ ScannerFails \/ \E b \in BOOLEAN : DocumentStart(b))
    <3>1. state \in Inside
      BY <1>3, <2>6, OtherHandlers
    <3>2. QED
      BY <1>2, <1>3, <3>1
  <2>7. QED
    BY <2>1, <2>2, <2>3, <2>4, <2>5, <2>6
<1>4. QED
  BY <1>1, <1>2, <1>3 DEF Next, NextToken, GiveUp, Inv, Control

\* Between two documents there is a marker, and directives stand between a `...' and a
\* `---': what the emitter writes back from the flags is read as the same documents.
THEOREM BoundariesSeparate == Spec => DocumentsAreSeparated
<1>1. Init => Separation
  BY DEF Init, Separation
<1>2. Inv /\ Separation /\ [Next]_vars => Separation' /\ [Fits]_vars
  BY SeparationStep
<1>3. QED
  <2>1. [Fits]_vars => [boundary.event = "DocumentEnd" /\ boundary'.event = "DocumentStart" =>
                          /\ boundary.explicit \/ boundary'.explicit
                          /\ boundary'.directives => boundary.explicit /\ boundary'.explicit]_vars
    BY DEF Fits
  <2>2. QED
    BY <1>1, <1>2, <2>1, InvHolds, PTL DEF Spec, DocumentsAreSeparated

================================================================================
