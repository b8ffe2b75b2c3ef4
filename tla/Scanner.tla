-------------------------------- MODULE Scanner --------------------------------
(***************************************************************************)
(* The tokenizer (src/core/scanner.rs).  A caller asks for one token after *)
(* another; a call fetches words of the text until the token at the head   *)
(* of the queue cannot become a key any more, and delivers it.             *)
(*                                                                         *)
(* The text is chosen as it is read: which word comes next and where it    *)
(* stands.  `ahead' says what may follow the words read so far, so that    *)
(* the words are those the code would tell apart in some text.  Columns    *)
(* count a word and the blank that must follow it; further blanks on the   *)
(* same line, tabs, and the spelling of words are left out.  A word that   *)
(* is misspelt (an escape, a tag, a directive) is the word "garbage".      *)
(***************************************************************************)
EXTENDS Integers, SequencesExt, FiniteSetsExt

CONSTANTS
  Texts,   \* the kinds of text: the words they are made of, bounds on their words and
           \* lines, and the columns at which the first word of a line may stand
  KeyLimit \* the greatest length of a simple key (1024 characters in the code)

Words == {"[", "{", "]", "}", ",", "-", "?", ":", "glued", "anchor", "tag", "alias",
          "plain", "quoted", "block", "---", "...", "%", "end", "garbage"}

FlowWords == {"[", "{", "]", "}", ","}

ASSUME ScannerConstants ==
  /\ Texts \subseteq [words : SUBSET Words, size : Nat, lines : Nat, cols : SUBSET Nat]
  /\ KeyLimit \in Nat

VARIABLES
  scanner,  \* struct Scanner
  ahead,    \* what may stand between the mark and the next word
  text,     \* the kind of the text
  left,     \* how many words may still be read
  brackets, \* the flow collections open in the text, with what the code opened for a pair
  tidy,     \* so far brackets match and a pair in a flow sequence has one `:'
  flat,     \* so far no flow collection stands inside a pair of a flow sequence
  nest      \* the tokens that opened the collections whose end is still to be delivered

history == <<brackets, tidy, flat>>
vars == <<scanner, ahead, text, left, history, nest>>

Token(kind, at) == [kind |-> kind, line |-> at.line, col |-> at.col]

At(t) == [line |-> t.line, col |-> t.col]

Start == [line |-> 1, col |-> 0]

(***************************************************************************)
(* The methods of the scanner, as functions of its state s.                *)
(***************************************************************************)
Failed(s) == [s EXCEPT !.error = TRUE]

AllowKey(s) == [s EXCEPT !.simple_key_allowed = TRUE]

DisallowKey(s) == [s EXCEPT !.simple_key_allowed = FALSE]

MoveTo(s, at) == [s EXCEPT !.mark = at]

Past(s, width) == [s EXCEPT !.mark.col = @ + width]

Push(s, kind, at) == [s EXCEPT !.tokens = Append(@, Token(kind, at))]

\* insert_token, before the token of that number.
Insert(s, number, kind, at) ==
  [s EXCEPT !.tokens = InsertAt(@, number - s.tokens_parsed + 1, Token(kind, at))]

NoKey == [possible |-> FALSE, required |-> FALSE, token_number |-> 0,
          mark |-> [line |-> 0, col |-> 0]]

\* The simple keys that the mark has left behind: outside flow collections a key stays
\* on one line and within KeyLimit characters.
Stale(s) ==
  {i \in DOMAIN s.simple_keys :
     /\ s.simple_keys[i].possible /\ s.flow_level = 0
     /\ \/ s.simple_keys[i].mark.line < s.mark.line
        \/ s.simple_keys[i].mark.col + KeyLimit < s.mark.col}

\* Fault for the checks: a required key may be forgotten.
ForgetAny(s, gone) ==
  [s EXCEPT !.simple_keys =
     [i \in DOMAIN @ |-> IF i \in gone THEN [@[i] EXCEPT !.possible = FALSE] ELSE @[i]]]

\* Forget the keys in the set gone; a key that was required is an error.
Forget(s, gone) ==
  IF \E i \in gone : s.simple_keys[i].possible /\ s.simple_keys[i].required
  THEN Failed(s)
  ELSE [s EXCEPT !.simple_keys =
          [i \in DOMAIN @ |-> IF i \in gone THEN [@[i] EXCEPT !.possible = FALSE] ELSE @[i]]]

StaleSimpleKeys(s) == Forget(s, Stale(s))

RemoveSimpleKey(s) == Forget(s, {Len(s.simple_keys)})

SaveSimpleKey(s) ==
  IF ~s.simple_key_allowed THEN s
  ELSE [s EXCEPT !.simple_keys[Len(s.simple_keys)] =
          [possible |-> TRUE,
           required |-> /\ s.flow_level = 0 /\ s.indent = s.mark.col
                        /\ Last(s.indents).needs_block_end,
           token_number |-> s.tokens_parsed + Len(s.tokens),
           mark |-> s.mark]]

\* The indentation once all levels above the first n are closed.
Level(s, n) == IF n = Len(s.indents) THEN s.indent ELSE s.indents[n + 1].indent

Closed(s, n) == [s EXCEPT !.indent = Level(s, n), !.indents = SubSeq(@, 1, n)]

\* The levels that stay open when a word begins at a column.
Kept(s, col) == Max({n \in 0 .. Len(s.indents) : Level(s, n) <= col})

UnrollIndent(s, col) ==
  IF s.flow_level > 0 THEN s
  ELSE LET n == Kept(s, col)
           ends == Cardinality({i \in n + 1 .. Len(s.indents) : s.indents[i].needs_block_end})
       IN  [Closed(s, n) EXCEPT !.tokens = @ \o [i \in 1 .. ends |-> Token("BlockEnd", s.mark)]]

Opened(s, block, indent) ==
  [s EXCEPT !.indents = Append(@, [indent |-> s.indent, needs_block_end |-> block]),
            !.indent = indent]

InnerIsBlock(s) == s.indents # <<>> /\ Last(s.indents).needs_block_end

InnerIsNoBlock(s) == s.indents # <<>> /\ ~Last(s.indents).needs_block_end

\* roll_one_col_indent
RollOneCol(s) ==
  IF s.flow_level = 0 /\ InnerIsBlock(s) THEN Opened(s, FALSE, s.indent + 1) ELSE s

\* unroll_non_block_indents: two of them never lie on one another.
UnrollNonBlock(s) == IF InnerIsNoBlock(s) THEN Closed(s, Len(s.indents) - 1) ELSE s

\* roll_indent: a collection of that kind begins at a column, before the token of that
\* number.
RollIndent(s, col, number, kind, at) ==
  LET r == IF s.indent <= col THEN UnrollNonBlock(s) ELSE s
  IN  IF s.flow_level > 0 \/ r.indent >= col
      THEN IF s.flow_level > 0 THEN s ELSE r
      ELSE Insert(Opened(r, TRUE, col), number, kind, at)

\* The number of the next token to be queued.
NextNumber(s) == s.tokens_parsed + Len(s.tokens)

EndImplicitMapping(s) ==
  IF s.implicit_flow_mapping
  THEN Push([s EXCEPT !.implicit_flow_mapping = FALSE, !.flow_mapping_started = FALSE],
            "FlowMappingEnd", s.mark)
  ELSE s

(***************************************************************************)
(* The text between the mark and the next word.                            *)
(*   "any"    : nothing, or the rest of the line, with or without comment  *)
(*   "swept"  : a comment on this line would have been read                *)
(*   "eol"    : nothing more stands on this line                           *)
(*   "flow", "inline" : a word on this line that is a flow indicator, or   *)
(*              one that is none                                           *)
(*   "plain", "quoted" : what may follow a scalar on its line              *)
(*   "word"   : the mark is where the next word begins                     *)
(*   "here"   : the mark is where the next word or a comment begins        *)
(*   "margin" : the same, where a line break has ended a plain scalar      *)
(***************************************************************************)
EndsPlain(s, w) == w = ":" \/ (s.flow_level > 0 /\ w \in FlowWords)

EndsQuoted(s, w) == w \in {":", "glued"} \/ (s.flow_level > 0 /\ w \in {"]", "}", ","})

\* May the word stand at the mark?  The text may end anywhere.
Follows(s, w) ==
  CASE w = "end"        -> TRUE
    [] ahead \in {"any", "swept", "word", "here"} -> TRUE
    [] ahead = "eol"    -> FALSE
    [] ahead = "flow"   -> w \in FlowWords
    [] ahead = "inline" -> w \notin FlowWords
    [] ahead = "plain"  -> EndsPlain(s, w)
    [] ahead = "quoted" -> EndsQuoted(s, w)
    [] ahead = "margin" -> \/ EndsPlain(s, w) \/ w \in {"---", "..."}
                           \/ s.flow_level = 0 /\ s.mark.col <= s.indent

Gap(line, col, notes) == [at |-> [line |-> line, col |-> col], notes |-> notes]

Lines(line, notes) == {Gap(l, c, notes) : l \in {line} \cap 1 .. text.lines, c \in text.cols}

\* The blanks, line breaks and comments that may come before a word; notes are the lines
\* of the comments.
Blanks(s, clean, noted) ==
  (IF clean THEN Lines(s.mark.line + 1, <<>>) \cup Lines(s.mark.line + 2, <<s.mark.line + 1>>)
   ELSE {})
    \cup (IF noted THEN Lines(s.mark.line + 1, <<s.mark.line>>) ELSE {})

Gaps(s, w) ==
  {gap \in (IF Follows(s, w) THEN {Gap(s.mark.line, s.mark.col, <<>>)} ELSE {})
           \cup Blanks(s, ahead \in {"any", "swept", "eol"},
                       ahead \in {"any", "plain", "here", "margin"}) :
     w \in {"%", "---", "..."} => gap.at.col = 0}

Note(line) == Token("Comment", [line |-> line, col |-> 0])

Notes(lines) == [i \in DOMAIN lines |-> Note(lines[i])]

\* skip_to_next_token
Skip(s, gap) ==
  [MoveTo(s, gap.at) EXCEPT
     !.tokens = @ \o Notes(gap.notes),
     !.simple_key_allowed = @ \/ (gap.at.line > s.mark.line /\ s.flow_level = 0)]

Result(s, next) == [to |-> s, ahead |-> next]

Error(s) == {Result(Failed(s), ahead)}

\* skip_ws_to_eol behind a word whose token is queued after the comment that follows it.
SweptLine(s, kind, at) ==
  {Result(Push(s, kind, at), "swept"),
   Result(Push([s EXCEPT !.tokens = Append(@, Note(s.mark.line))], kind, at), "eol")}

(***************************************************************************)
(* The fetch functions: what they make of the state s, in which the word   *)
(* is found, with the different texts that may follow it.                  *)
(***************************************************************************)
\* Fault for the checks: the collection shares the simple key of the level around it.
FlowStartNoKey(s, w) ==
  LET r == RollOneCol(SaveSimpleKey(s))
      t == [r EXCEPT !.flow_level = @ + 1, !.flow_mapping_started = @ \/ w = "{"]
  IN  SweptLine(Past(AllowKey(t), 1),
                IF w = "[" THEN "FlowSequenceStart" ELSE "FlowMappingStart", s.mark)

FlowCollectionStart(s, w) ==
  LET r == RollOneCol(SaveSimpleKey(s))
      t == [r EXCEPT !.simple_keys = Append(@, NoKey), !.flow_level = @ + 1,
                     !.flow_mapping_started = @ \/ w = "{"]
  IN  SweptLine(Past(AllowKey(t), 1),
                IF w = "[" THEN "FlowSequenceStart" ELSE "FlowMappingStart", s.mark)

\* Fault for the checks: a bracket too many is not noticed.
DecreaseAnyLevel(s) == [s EXCEPT !.flow_level = @ - 1, !.simple_keys = Front(@)]

\* decrease_flow_level: a closing bracket too many leaves level 0 alone.
DecreaseFlowLevel(s) ==
  IF s.flow_level = 0 THEN s
  ELSE [s EXCEPT !.flow_level = @ - 1, !.simple_keys = Front(@)]

\* Fault for the checks: the pair is ended behind the bracket.
FlowEndBeforePair(s, w) ==
  LET r == DisallowKey(DecreaseFlowLevel(RemoveSimpleKey(s)))
      kind == IF w = "]" THEN "FlowSequenceEnd" ELSE "FlowMappingEnd"
      t == Past(EndImplicitMapping(Push(r, kind, s.mark)), 1)
  IN  {Result(t, "swept")}

FlowCollectionEnd(s, w) ==
  LET r == EndImplicitMapping(DisallowKey(DecreaseFlowLevel(RemoveSimpleKey(s))))
      t == Past(Push(r, IF w = "]" THEN "FlowSequenceEnd" ELSE "FlowMappingEnd", s.mark), 1)
      u == IF t.flow_level > 0 THEN [t EXCEPT !.adjacent_value_allowed_at = t.mark] ELSE t
  IN  {Result(u, "swept"),
       Result([u EXCEPT !.tokens = Append(@, Note(s.mark.line))], "eol")}

FlowEntry(s, w) ==
  SweptLine(Past(EndImplicitMapping(AllowKey(RemoveSimpleKey(s))), 1), "FlowEntry", s.mark)

\* `- ': what follows on the line decides on the indentation of the entry.
BlockEntry(s, w) ==
  LET r == RollIndent(Past(s, 2), s.mark.col, NextNumber(s), "BlockSequenceStart", s.mark)
      Done(t, next) ==
        Result(Push(AllowKey(RemoveSimpleKey(t)), "BlockEntry", t.mark), next)
      misplaced == /\ s.tokens # <<>> /\ Last(s.tokens).kind \in {"Anchor", "Tag"}
                   /\ Last(s.tokens).col = 0 /\ s.mark.col = 0 /\ s.indent > -1
  IN  IF s.flow_level > 0 \/ ~s.simple_key_allowed \/ misplaced THEN Error(s)
      ELSE {Done(r, "inline"),
            Done(RollOneCol(r), "flow"),
            Done(RollOneCol(r), "eol"),
            Done(RollOneCol([r EXCEPT !.tokens = Append(@, Note(s.mark.line))]), "eol")}

\* `? ', with the white space behind it.
Key(s, w) ==
  LET r == IF s.flow_level = 0
           THEN AllowKey(RemoveSimpleKey(
                  RollIndent(s, s.mark.col, NextNumber(s), "BlockMappingStart", s.mark)))
           ELSE DisallowKey(RemoveSimpleKey([s EXCEPT !.flow_mapping_started = TRUE]))
      t == Past(r, 2)
  IN  IF s.flow_level = 0 /\ ~s.simple_key_allowed THEN Error(s)
      ELSE {Result(Push(t, "Key", s.mark), "word")}
             \cup {Result(Push(Skip(t, gap), "Key", s.mark), "word") :
                     gap \in Blanks(t, TRUE, TRUE)}

\* The present simple key turns out to be one: its Key, and what it opens, go before it.
ValueOfSimpleKey(s, at) ==
  LET key == Last(s.simple_keys)
      r == Insert(s, key.token_number, "Key", key.mark)
      t == IF s.implicit_flow_mapping
           THEN Insert(r, key.token_number, "FlowMappingStart", s.mark) ELSE r
      u == RollOneCol(RollIndent(t, key.mark.col, key.token_number, "BlockMappingStart", at))
  IN  IF s.implicit_flow_mapping /\ key.mark.line < at.line THEN Failed(s)
      ELSE DisallowKey([u EXCEPT !.simple_keys[Len(u.simple_keys)].possible = FALSE])

\* The key was introduced by `? ', or there is none.
ValueOfComplexKey(s, at) ==
  LET r == IF s.implicit_flow_mapping THEN Push(s, "FlowMappingStart", s.mark) ELSE s
  IN  IF s.flow_level > 0 THEN DisallowKey(r)
      ELSE IF ~s.simple_key_allowed THEN Failed(s)
      ELSE AllowKey(RollOneCol(RollIndent(r, at.col, NextNumber(r), "BlockMappingStart", at)))

\* `: ', or a `:' right behind a quoted scalar or a flow collection; another one is part
\* of a plain scalar.
Value(s, w) ==
  LET r == [Past(s, IF w = ":" THEN 2 ELSE 1) EXCEPT
              !.implicit_flow_mapping = s.flow_level > 0 /\ ~s.flow_mapping_started]
      t == IF Last(s.simple_keys).possible THEN ValueOfSimpleKey(r, s.mark)
           ELSE ValueOfComplexKey(r, s.mark)
      isValue == w = ":" \/ (s.flow_level > 0 /\ s.mark = s.adjacent_value_allowed_at)
  IN  {Result(Push(t, "Value", s.mark), next) :
         next \in IF ~isValue THEN {} ELSE IF w = ":" THEN {"any"} ELSE {"inline"}}

\* Anchors, aliases and tags.
Property(s, w) ==
  LET kind == CASE w = "anchor" -> "Anchor" [] w = "alias" -> "Alias" [] w = "tag" -> "Tag"
  IN  {Result(Push(Past(DisallowKey(SaveSimpleKey(s)), 2), kind, s.mark), "any")}

\* Where a line of text that the word goes on with may end up.
NextPlaces(line) == {gap.at : gap \in Lines(line, <<>>)}

\* A block scalar with up to one line of content, and a comment in its header.
BlockScalar(s, w) ==
  LET r == UnrollNonBlock(AllowKey(SaveSimpleKey(s)))
  IN  {Result(Push(MoveTo([r EXCEPT !.tokens = @ \o Notes(notes)], at), "Scalar", s.mark), "here") :
         notes \in IF s.flow_level = 0 THEN {<<>>, <<s.mark.line>>} ELSE {},
         at \in NextPlaces(s.mark.line + 1) \cup NextPlaces(s.mark.line + 2)}

\* A plain scalar, on one line or two, that ends on its line or with it.
PlainScalar(s, w) ==
  LET r == UnrollNonBlock(DisallowKey(SaveSimpleKey(s)))
      Scalar(t) == Push(t, "Scalar", s.mark)
      line == s.mark.line
  IN  IF s.flow_level > 0 /\ s.mark.col <= r.indent THEN Error(s)
      ELSE {Result(Scalar(Past(r, width)), "plain") : width \in {1, KeyLimit + 1}}
             \cup {Result(Scalar(MoveTo(r, [line |-> l, col |-> 2])), "plain") :
                     l \in {line + 1} \cap 1 .. text.lines}
             \cup {Result(Scalar(AllowKey(MoveTo(r, at))), "margin") :
                     at \in NextPlaces(line + 1) \cup NextPlaces(line + 2)}

\* A quoted scalar, on one line or two: what follows is skipped before it is queued.
QuotedScalar(s, w) ==
  LET r == DisallowKey(SaveSimpleKey(s))
      one == Past(r, 2)
      two == {MoveTo(r, [line |-> l, col |-> 2]) : l \in {s.mark.line + 1} \cap 1 .. text.lines}
      Scalar(t) == Push([t EXCEPT !.adjacent_value_allowed_at = t.mark], "Scalar", s.mark)
  IN  {Result(Scalar(t), "quoted") : t \in {one} \cup IF s.flow_level > 0 THEN two ELSE {}}
        \cup UNION {{Result(Scalar(Skip(t, gap)), "word") : gap \in Blanks(t, TRUE, TRUE)} :
                      t \in {one} \cup two}

\* fetch_document_indicator
Marker(s, w) ==
  LET r == Past(DisallowKey(RemoveSimpleKey(UnrollIndent(s, -1))), 4)
  IN  IF w = "---" THEN {Result(Push(r, "DocumentStart", s.mark), "any")}
      ELSE {Result([Push(r, "DocumentEnd", s.mark) EXCEPT !.tokens = @ \o Notes(notes)], "eol") :
              notes \in {<<>>, <<s.mark.line>>}}

\* fetch_directive reads its line with the line break.
Directive(s, w) ==
  LET r == DisallowKey(RemoveSimpleKey(UnrollIndent(s, -1)))
  IN  {Result(Push(MoveTo([r EXCEPT !.tokens = @ \o Notes(notes)], at), "Directive", s.mark), "here") :
         notes \in {<<>>, <<s.mark.line>>}, at \in NextPlaces(s.mark.line + 1)}

\* Fault for the checks: only the innermost simple key is given up.
StreamEndInnermost(s, w) ==
  LET r == IF s.mark.col = 0 THEN s ELSE MoveTo(s, [line |-> s.mark.line + 1, col |-> 0])
      t == RemoveSimpleKey(UnrollIndent(r, -1))
  IN  {Result(Push(DisallowKey(t), "StreamEnd", t.mark), "eol")}

StreamEnd(s, w) ==
  LET r == IF s.mark.col = 0 THEN s ELSE MoveTo(s, [line |-> s.mark.line + 1, col |-> 0])
      t == RemoveSimpleKey(UnrollIndent(Forget(r, DOMAIN r.simple_keys), -1))
  IN  {Result(Push(DisallowKey(t), "StreamEnd", t.mark), "eol")}

\* The word itself is in error.
Garbage(s, w) == Error(s)

(***************************************************************************)
(* One turn of the loop of fetch_more_tokens: either a word is fetched or  *)
(* the call returns the token at the head of the queue.                    *)
(***************************************************************************)
Calling == ~scanner.error /\ ~scanner.stream_end_produced

Checked == IF scanner.tokens = <<>> THEN scanner ELSE StaleSimpleKeys(scanner)

\* Fault for the checks: only the innermost simple key holds tokens back.
NeedMoreInnermost(s) ==
  \/ s.tokens = <<>>
  \/ s.simple_keys # <<>> /\ Last(s.simple_keys).possible
       /\ Last(s.simple_keys).token_number = s.tokens_parsed

NeedMore(s) ==
  \/ s.tokens = <<>>
  \/ \E i \in DOMAIN s.simple_keys :
       s.simple_keys[i].possible /\ s.simple_keys[i].token_number = s.tokens_parsed

\* Fault for the checks: blocks are closed before the comments are queued.
FoundUnrolledFirst(gap) ==
  LET s == StaleSimpleKeys(Skip(Checked, [gap EXCEPT !.notes = <<>>]))
  IN  IF s.error THEN s
      ELSE [UnrollIndent(s, gap.at.col) EXCEPT !.tokens = @ \o Notes(gap.notes)]

\* The state in which fetch_next_token looks at the word.
Found(gap) ==
  LET s == StaleSimpleKeys(Skip(Checked, gap))
  IN  IF s.error THEN s ELSE UnrollIndent(s, gap.at.col)

\* Words that are looked for before the indentation is checked.
Unindented == {"end", "%", "---", "..."}

\* An error is kept, and the state behind it is never looked at again.
Fetched(s, w, Results(_, _)) ==
  IF s.error \/ (w \notin Unindented /\ s.mark.col < s.indent) THEN Error(s) ELSE Results(s, w)

(***************************************************************************)
(* What the words mean in the text, for the properties: the flow           *)
(* collections that are open, each with the pair that stands open in it.   *)
(***************************************************************************)
InPair == brackets # <<>> /\ Last(brackets).pair

SetPair(pair) ==
  IF brackets = <<>> THEN brackets ELSE [brackets EXCEPT ![Len(brackets)].pair = pair]

Matching == [x \in {"]", "}"} |-> IF x = "]" THEN "[" ELSE "{"]

\* The word w is read; opens says that the code has opened a mapping for a pair.
Read(w, opens) ==
  /\ brackets' = CASE w \in {"[", "{"} -> Append(brackets, [open |-> w, pair |-> FALSE])
                   [] w \in {"]", "}"} /\ brackets # <<>> -> Front(brackets)
                   [] w = "," -> SetPair(FALSE)
                   [] w \in {":", "glued"} -> SetPair(opens)
                   [] OTHER -> brackets
  /\ tidy' = /\ tidy
             /\ w \in {"]", "}"} => brackets # <<>> /\ Last(brackets).open = Matching[w]
             /\ w \in {":", "glued", "?"} => ~InPair
             /\ w \in {"---", "...", "%"} => brackets = <<>>
  /\ flat' = (flat /\ (w \in {"[", "{"} => ~InPair))

(***************************************************************************)
(* The actions.                                                            *)
(***************************************************************************)
Fetch(w, Results(_, _)) ==
  /\ Calling /\ scanner.stream_start_produced
  /\ ~Checked.error /\ NeedMore(Checked)
  /\ w \in text.words \cup {"end"}
  /\ \/ w = "end" /\ UNCHANGED left
     \/ w # "end" /\ left > 0 /\ left' = left - 1
  /\ \E gap \in Gaps(Checked, w) : \E r \in Fetched(Found(gap), w, Results) :
       IF r.to.error
       THEN scanner' = Failed(scanner) /\ UNCHANGED <<ahead, history>>
       ELSE /\ scanner' = r.to /\ ahead' = r.ahead
            /\ Read(w, r.to.implicit_flow_mapping)
  /\ UNCHANGED <<text, nest>>

FetchFlowCollectionStart == \E w \in {"[", "{"} : Fetch(w, FlowCollectionStart)
FetchFlowCollectionEnd == \E w \in {"]", "}"} : Fetch(w, FlowCollectionEnd)
FetchFlowEntry == Fetch(",", FlowEntry)
FetchBlockEntry == Fetch("-", BlockEntry)
FetchKey == Fetch("?", Key)
FetchValue == \E w \in {":", "glued"} : Fetch(w, Value)
FetchProperty == \E w \in {"anchor", "alias", "tag"} : Fetch(w, Property)
FetchBlockScalar == Fetch("block", BlockScalar)
FetchPlainScalar == Fetch("plain", PlainScalar)
FetchFlowScalar == Fetch("quoted", QuotedScalar)
FetchDocumentIndicator == \E w \in {"---", "..."} : Fetch(w, Marker)
FetchDirective == Fetch("%", Directive)
FetchStreamEnd == Fetch("end", StreamEnd)
FetchGarbage == Fetch("garbage", Garbage)

FetchStreamStart ==
  /\ Calling /\ ~scanner.stream_start_produced
  /\ scanner' = [Push(AllowKey(scanner), "StreamStart", scanner.mark) EXCEPT
                   !.stream_start_produced = TRUE, !.simple_keys = Append(@, NoKey)]
  /\ UNCHANGED <<ahead, text, left, history, nest>>

\* A key that had to be one has been left behind.
StaleKeyIsRequired ==
  /\ Calling /\ Checked.error
  /\ scanner' = Failed(scanner)
  /\ UNCHANGED <<ahead, text, left, history, nest>>

Openers == {"BlockSequenceStart", "BlockMappingStart", "FlowSequenceStart", "FlowMappingStart"}

Closers == {"BlockEnd", "FlowSequenceEnd", "FlowMappingEnd"}

\* next_token returns the head of the queue.
Deliver ==
  LET kind == Head(scanner.tokens).kind
  IN  /\ Calling /\ scanner.tokens # <<>>
      /\ ~Checked.error /\ ~NeedMore(Checked)
      /\ scanner' = [Checked EXCEPT !.tokens = Tail(@), !.tokens_parsed = @ + 1,
                                    !.stream_end_produced = kind = "StreamEnd"]
      /\ nest' = CASE kind \in Openers -> Append(nest, kind)
                   [] kind \in Closers /\ nest # <<>> -> Front(nest)
                   [] OTHER -> nest
      /\ UNCHANGED <<ahead, text, left, history>>

Init ==
  /\ scanner = [mark |-> Start, tokens |-> <<>>, tokens_parsed |-> 0,
                simple_key_allowed |-> TRUE, simple_keys |-> <<>>,
                indent |-> -1, indents |-> <<>>, flow_level |-> 0,
                adjacent_value_allowed_at |-> Start,
                flow_mapping_started |-> FALSE, implicit_flow_mapping |-> FALSE,
                stream_start_produced |-> FALSE, stream_end_produced |-> FALSE,
                error |-> FALSE]
  /\ ahead = "any"
  /\ text \in Texts /\ left = text.size
  /\ brackets = <<>> /\ tidy = TRUE /\ flat = TRUE
  /\ nest = <<>>

Next ==
  \/ FetchStreamStart \/ FetchStreamEnd
  \/ FetchFlowCollectionStart \/ FetchFlowCollectionEnd \/ FetchFlowEntry
  \/ FetchBlockEntry \/ FetchKey \/ FetchValue \/ FetchProperty
  \/ FetchBlockScalar \/ FetchPlainScalar \/ FetchFlowScalar
  \/ FetchDocumentIndicator \/ FetchDirective \/ FetchGarbage
  \/ StaleKeyIsRequired \/ Deliver

Spec == Init /\ [][Next]_vars

(***************************************************************************)
(* Properties.                                                             *)
(***************************************************************************)
Kinds == Openers \cup Closers \cup
  {"StreamStart", "StreamEnd", "Directive", "DocumentStart", "DocumentEnd", "BlockEntry",
   "FlowEntry", "Key", "Value", "Alias", "Anchor", "Tag", "Scalar", "Comment"}

Positions == [line : Nat, col : Nat]

TypeOK ==
  /\ scanner \in [mark : Positions, tokens : Seq([kind : Kinds, line : Nat, col : Nat]),
                  tokens_parsed : Nat, simple_key_allowed : BOOLEAN,
                  simple_keys : Seq([possible : BOOLEAN, required : BOOLEAN,
                                     token_number : Nat, mark : Positions]),
                  indent : Nat \cup {-1},
                  indents : Seq([indent : Nat \cup {-1}, needs_block_end : BOOLEAN]),
                  flow_level : Nat, adjacent_value_allowed_at : Positions,
                  flow_mapping_started : BOOLEAN, implicit_flow_mapping : BOOLEAN,
                  stream_start_produced : BOOLEAN, stream_end_produced : BOOLEAN,
                  error : BOOLEAN]
  /\ left \in Nat /\ text \in Texts

\* Every `unwrap' of the scanner finds something: there is one simple key per flow level
\* and one for the block level; the indentation is that of no block exactly when no
\* level is open, and each level lies deeper than the one around it.
StacksConsistent ==
  /\ scanner.stream_start_produced => Len(scanner.simple_keys) = scanner.flow_level + 1
  /\ Level(scanner, 0) = -1
  /\ \A n \in 1 .. Len(scanner.indents) : Level(scanner, n - 1) < Level(scanner, n)

\* Behind the first n of the tokens come comments, and then a token at a place.
LeadsTo(tokens, n, at) ==
  \E j \in n + 1 .. Len(tokens) :
    /\ tokens[j].kind # "Comment" /\ At(tokens[j]) = at
    /\ \A i \in n + 1 .. j - 1 : tokens[i].kind = "Comment"

\* A simple key that is still possible refers to a token in the queue, and its number
\* still leads to the token that was queued for it or to the comments before that token,
\* whatever has been delivered or inserted since: so Key lands before its node and
\* insert_token inside the queue.  Once the end of the stream is queued no key is possible
\* and nothing comes behind it: a call that goes on fetching meets no more text.
KeysAreQueued ==
  /\ \A i \in DOMAIN scanner.simple_keys :
       LET key == scanner.simple_keys[i]
       IN  key.possible =>
             /\ key.token_number >= scanner.tokens_parsed
             /\ LeadsTo(scanner.tokens, key.token_number - scanner.tokens_parsed, key.mark)
  /\ \A i \in DOMAIN scanner.tokens :
       scanner.tokens[i].kind = "StreamEnd" =>
         /\ i = Len(scanner.tokens)
         /\ \A k \in DOMAIN scanner.simple_keys : ~scanner.simple_keys[k].possible

\* A node at the indentation of an open block mapping must become a key: it is never
\* forgotten, overwritten or passed on as content.
RequiredKeysAreKept ==
  [][\A i \in DOMAIN scanner.simple_keys :
       LET key == scanner.simple_keys[i]
       IN  key.possible /\ key.required =>
             \/ scanner'.error
             \/ i \in DOMAIN scanner'.simple_keys /\ scanner'.simple_keys[i] = key
             \/ Contains(scanner'.tokens, Token("Key", key.mark))]_vars

\* The builder attaches a comment to what comes after it: a comment never waits behind a
\* token of a later line.
CommentsInOrder ==
  \A i, j \in DOMAIN scanner.tokens :
    i < j /\ scanner.tokens[j].kind = "Comment" =>
      scanner.tokens[i].line <= scanner.tokens[j].line

Opens == [t \in Closers |-> CASE t = "BlockEnd" -> {"BlockSequenceStart", "BlockMappingStart"}
                              [] t = "FlowSequenceEnd" -> {"FlowSequenceStart"}
                              [] t = "FlowMappingEnd" -> {"FlowMappingStart"}]

\* The token that is about to be delivered closes what was opened last, and at the end
\* of the stream nothing is left open.
ClosesLast ==
  LET kind == Head(scanner.tokens).kind
  IN  /\ kind \in Closers => nest # <<>> /\ Last(nest) \in Opens[kind]
      /\ kind = "StreamEnd" /\ brackets = <<>> => nest = <<>>

Delivers == scanner'.tokens_parsed > scanner.tokens_parsed

\* Collections are delivered well nested, block and flow, also the mappings the scanner
\* makes of pairs in flow sequences, if the text's own brackets match and such pairs hold
\* scalars.
TokensNest == [][Delivers /\ tidy /\ flat => ClosesLast]_vars

\* The same for pairs that hold a flow collection: [a: [b]].
PairsNest == [][Delivers /\ tidy => ClosesLast]_vars
================================================================================
