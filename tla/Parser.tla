--------------------------------- MODULE Parser ---------------------------------
(***************************************************************************)
(* The event parser (src/core/parser.rs): a pushdown automaton that turns  *)
(* scanner tokens into events.  One action is one call of next_token; the  *)
(* tokens the call peeks at are chosen when it needs them, so a behaviour  *)
(* ranges over every token stream a scanner could deliver, well-formed or  *)
(* not.  Comments never reach the automaton (scan_next_token sets them     *)
(* aside) and marks are left out.                                          *)
(*                                                                         *)
(* A call that returns Err leaves the automaton as it was at the point of  *)
(* the failure, and YamlIter.__next__ may call again: the actions stay     *)
(* enabled until MaxErrors calls have failed.                              *)
(***************************************************************************)
EXTENDS Naturals, SequencesExt

CONSTANTS
  Names,      \* anchor names that occur in the input
  Handles,    \* %TAG handles of the form !x!, which must be declared
  None,       \* no token, no anchor
  MaxDepth,   \* bound on the state stack: no container token is read above it
  MaxErrors   \* bound on the failed calls after which the caller still calls

ASSUME ParserConstants ==
  /\ MaxDepth \in Nat /\ MaxErrors \in Nat
  /\ None \notin Names \cup Handles
  /\ Names \cap Handles = {}

VARIABLES
  state,    \* Parser.state
  states,   \* Parser.states, the return stack
  cur,      \* Parser.token (None when empty) and what the scanner has reached
  anchors,  \* the names in Parser.anchors
  tags,     \* the handles in Parser.tags
  event,    \* the event the last call returned, "Error" for Err
  boundary, \* the last DocumentStart or DocumentEnd, with its marker and directives
  errors    \* the number of calls that returned Err

vars == <<state, states, cur, anchors, tags, event, boundary, errors>>

Tok(kind, name) == [kind |-> kind, name |-> name]

Openers == {Tok(k, None) : k \in {"BlockSequenceStart", "BlockMappingStart",
                                  "FlowSequenceStart", "FlowMappingStart"}}

Plain == {Tok(k, None) : k \in {"StreamEnd", "VersionDirective", "DocumentStart",
                                "DocumentEnd", "BlockEnd", "FlowSequenceEnd",
                                "FlowMappingEnd", "BlockEntry", "FlowEntry",
                                "Key", "Value", "Scalar"}}

\* A tag named None is one that needs no declaration (!!x, !x); a directive named
\* None is the sentinel TagDirective("", "") of a reserved directive.  A %TAG of !!
\* or ! declares a handle that no tag token here is named after.
Named == {Tok(k, n) : k \in {"Alias", "Anchor"}, n \in Names}
           \cup {Tok(k, h) : k \in {"Tag", "TagDirective"}, h \in Handles \cup {None}}

StreamStartToken == Tok("StreamStart", None)

Token == Openers \cup Plain \cup Named \cup {StreamStartToken}

Kind(c) == c.token.kind

(***************************************************************************)
(* The token slot.  A cursor holds the slot and the scanner's progress:    *)
(* "start" before StreamStart, "open", "ended" after StreamEnd, "error".   *)
(***************************************************************************)
NoToken == Tok("None", None)

Skip(c) == [c EXCEPT !.token = NoToken]

\* peek_token: the slot when it is full, else any token the scanner may deliver.
Peek(c) ==
  IF c.token # NoToken THEN {c}
  ELSE CASE c.scan = "start" -> {[token |-> StreamStartToken, scan |-> "open"]}
         [] c.scan = "open"  ->
              {[token |-> t, scan |-> IF t.kind = "StreamEnd" THEN "ended" ELSE "open"] :
                 t \in Plain \cup Named
                         \cup (IF Len(states) < MaxDepth THEN Openers ELSE {})}
         [] OTHER -> {}

\* The cursors a handler may stand on once a first entry has dropped the token
\* that opened its container.
Entry(first) == IF first THEN UNION {Peek(Skip(c)) : c \in Peek(cur)} ELSE Peek(cur)

(***************************************************************************)
(* What a call returns.                                                    *)
(***************************************************************************)
Return(ev, c, st, stk) ==
  /\ event' = ev /\ cur' = c /\ state' = st /\ states' = stk
  /\ UNCHANGED <<anchors, tags, boundary, errors>>

\* The call emits ev and resumes at the state on top of the stack stk.
ReturnPop(ev, c, stk) ==
  Return(ev, c, stk[Len(stk)], SubSeq(stk, 1, Len(stk) - 1))

Reject(c, st, stk) ==
  /\ event' = "Error" /\ errors' = errors + 1
  /\ cur' = c /\ state' = st /\ states' = stk
  /\ UNCHANGED boundary

\* A ScanError at the cursor c: nothing but the tokens read so far is lost.
Err(c) == Reject(c, state, states) /\ UNCHANGED <<anchors, tags>>

(***************************************************************************)
(* parse_node.  Its first token is under the cursor c; stk is the stack    *)
(* the handler has prepared.                                               *)
(***************************************************************************)
\* resolve_tag accepts every tag but one with an undeclared handle !x!.
Resolves(t) == t.name = None \/ t.name \in tags

\* The ways the properties before a node may be read: an anchor, a tag, or both
\* in either order.  ok is FALSE when the tag did not resolve.
Properties(c) ==
  LET TagThen(d, a) ==
        IF Resolves(d.token)
        THEN {[cur |-> e, anchor |-> a, ok |-> TRUE, tagged |-> TRUE] : e \in Peek(Skip(d))}
        ELSE {[cur |-> Skip(d), anchor |-> a, ok |-> FALSE, tagged |-> TRUE]}
  IN CASE Kind(c) = "Anchor" ->
            UNION {IF Kind(d) = "Tag"
                   THEN TagThen(d, c.token.name)
                   ELSE {[cur |-> d, anchor |-> c.token.name, ok |-> TRUE, tagged |-> FALSE]} :
                     d \in Peek(Skip(c))}
       [] Kind(c) = "Tag" ->
            UNION {IF p.ok /\ Kind(p.cur) = "Anchor"
                   THEN {[p EXCEPT !.cur = e, !.anchor = p.cur.token.name] :
                           e \in Peek(Skip(p.cur))}
                   ELSE {p} :
                     p \in TagThen(c, None)}
       [] OTHER -> {[cur |-> c, anchor |-> None, ok |-> TRUE, tagged |-> FALSE]}

\* The container a content token opens, and the state that reads its entries.
Opens(kind, block, indentless) ==
  CASE kind = "BlockEntry" /\ indentless     -> <<"SequenceStart", "IndentlessSequenceEntry">>
    [] kind = "FlowSequenceStart"            -> <<"SequenceStart", "FlowSequenceFirstEntry">>
    [] kind = "FlowMappingStart"             -> <<"MappingStart", "FlowMappingFirstKey">>
    [] kind = "BlockSequenceStart" /\ block  -> <<"SequenceStart", "BlockSequenceFirstEntry">>
    [] kind = "BlockMappingStart" /\ block   -> <<"MappingStart", "BlockMappingFirstKey">>
    [] OTHER                                 -> <<>>

\* The state is popped before the anchor is looked up.
ParseAlias(c, stk) ==
  LET st == stk[Len(stk)]
      rest == SubSeq(stk, 1, Len(stk) - 1)
  IN  /\ Kind(c) = "Alias"
      /\ IF c.token.name \in anchors
         THEN Return("Alias", Skip(c), st, rest)
         ELSE Reject(Skip(c), st, rest) /\ UNCHANGED <<anchors, tags>>

ParseContent(p, stk, block, indentless) ==
  LET opened == Opens(Kind(p.cur), block, indentless)
      accept(ev, c, st, rest) ==
        /\ event' = ev /\ cur' = c /\ state' = st /\ states' = rest
        /\ UNCHANGED <<boundary, errors>>
      leaf(c) == accept("Scalar", c, stk[Len(stk)], SubSeq(stk, 1, Len(stk) - 1))
  IN  /\ anchors' = anchors \cup ({p.anchor} \ {None})
      /\ UNCHANGED tags
      /\ \/ ~p.ok /\ Reject(p.cur, state, stk)
         \/ p.ok /\ Kind(p.cur) = "Scalar" /\ leaf(Skip(p.cur))
         \/ p.ok /\ opened # <<>> /\ accept(opened[1], p.cur, opened[2], stk)
         \* an anchor or a tag with nothing after it is an empty scalar
         \/ /\ p.ok /\ Kind(p.cur) # "Scalar" /\ opened = <<>>
            /\ IF p.tagged \/ p.anchor # None
               THEN leaf(p.cur)
               ELSE Reject(p.cur, state, stk)

ParseNode(c, stk, block, indentless) ==
  \/ ParseAlias(c, stk)
  \/ Kind(c) # "Alias" /\ \E p \in Properties(c) : ParseContent(p, stk, block, indentless)

(***************************************************************************)
(* Stream and documents.                                                   *)
(***************************************************************************)
StreamStart ==
  /\ state = "StreamStart"
  /\ \E c \in Peek(cur) :
       IF Kind(c) = "StreamStart"
       THEN Return("StreamStart", Skip(c), "ImplicitDocumentStart", states)
       ELSE Err(c)

IsDirective(c) == Kind(c) \in {"VersionDirective", "TagDirective"}

\* What parser_process_directives has recorded by the time it has seen d.
Recorded(d, r) ==
  /\ Kind(d) = "VersionDirective" => r.version
  /\ Kind(d) = "TagDirective" => d.token.name \in r.tags \cup {None}

\* parser_process_directives from the cursor c: what the directives declare and the
\* cursor after them.  That cursor stands on a directive only when it is a repeated
\* one; the sentinel of a reserved directive is skipped however often it comes.
Directives(c) ==
  IF ~IsDirective(c)
  THEN {[cur |-> c, tags |-> {}, version |-> FALSE]}
  ELSE {r \in [cur : Peek(Skip(c)), tags : SUBSET Handles, version : BOOLEAN] :
          Recorded(c, r) /\ Recorded(r.cur, r) /\ r.cur.token # Tok("TagDirective", None)}

\* The document boundary the call emits.
Bound(ev, explicit, directives) ==
  /\ event' = ev
  /\ boundary' = [event |-> ev, explicit |-> explicit, directives |-> directives]

\* Fault for the checks: the return state is pushed before the marker is there.
PushBeforeMarker(c) ==
  \E r \in Directives(c) :
    IF IsDirective(r.cur) THEN Err(r.cur)
    ELSE /\ tags' = r.tags /\ UNCHANGED anchors
         /\ IF Kind(r.cur) = "DocumentStart"
            THEN /\ Bound("DocumentStart", TRUE, r.version \/ r.tags # {})
                 /\ cur' = Skip(r.cur)
                 /\ state' = "DocumentContent" /\ states' = Append(states, "DocumentEnd")
                 /\ UNCHANGED errors
            ELSE Reject(r.cur, state, Append(states, "DocumentEnd"))

ExplicitDocumentStart(c) ==
  \E r \in Directives(c) :
    IF IsDirective(r.cur) THEN Err(r.cur)
    ELSE /\ tags' = r.tags /\ UNCHANGED anchors
         /\ IF Kind(r.cur) = "DocumentStart"
            THEN /\ Bound("DocumentStart", TRUE, r.version \/ r.tags # {})
                 /\ cur' = Skip(r.cur)
                 /\ state' = "DocumentContent" /\ states' = Append(states, "DocumentEnd")
                 /\ UNCHANGED errors
            ELSE Reject(r.cur, state, states)

ImplicitDocument(c) ==
  /\ Bound("DocumentStart", FALSE, FALSE)
  /\ cur' = c
  /\ state' = "BlockNode" /\ states' = Append(states, "DocumentEnd")
  /\ tags' = {}
  /\ UNCHANGED <<anchors, errors>>

\* The `...' markers before a document are skipped first.
DocumentStart(implicit) ==
  /\ state = IF implicit THEN "ImplicitDocumentStart" ELSE "DocumentStart"
  /\ \E c \in UNION {IF Kind(d) = "DocumentEnd" THEN Peek(Skip(d)) ELSE {d} : d \in Peek(cur)} :
       /\ Kind(c) # "DocumentEnd"
       /\ CASE Kind(c) = "StreamEnd" -> Return("StreamEnd", Skip(c), "End", states)
            [] Kind(c) # "StreamEnd" /\ (~implicit \/ IsDirective(c) \/ Kind(c) = "DocumentStart") ->
                 ExplicitDocumentStart(c)
            [] OTHER -> ImplicitDocument(c)

DocumentContent ==
  /\ state = "DocumentContent"
  /\ \E c \in Peek(cur) :
       IF IsDirective(c) \/ Kind(c) \in {"DocumentStart", "DocumentEnd", "StreamEnd"}
       THEN ReturnPop("Scalar", c, states)
       ELSE ParseNode(c, states, TRUE, FALSE)

\* Fault for the checks: an implicit end does not ask for an explicit start.
AnyStartAfterEnd ==
  /\ state = "DocumentEnd"
  /\ \E c \in Peek(cur) :
       /\ tags' = {} /\ UNCHANGED anchors
       /\ IF IsDirective(c)
          THEN Reject(c, state, states)
          ELSE /\ Bound("DocumentEnd", Kind(c) = "DocumentEnd", FALSE)
               /\ cur' = IF Kind(c) = "DocumentEnd" THEN Skip(c) ELSE c
               /\ state' = "ImplicitDocumentStart"
               /\ UNCHANGED <<states, errors>>

\* A document without `...' may not be followed by a directive.
DocumentEnd ==
  /\ state = "DocumentEnd"
  /\ \E c \in Peek(cur) :
       /\ tags' = {} /\ UNCHANGED anchors
       /\ IF IsDirective(c)
          THEN Reject(c, state, states)
          ELSE /\ Bound("DocumentEnd", Kind(c) = "DocumentEnd", FALSE)
               /\ cur' = IF Kind(c) = "DocumentEnd" THEN Skip(c) ELSE c
               /\ state' = IF Kind(c) = "DocumentEnd" THEN "ImplicitDocumentStart"
                                                      ELSE "DocumentStart"
               /\ UNCHANGED <<states, errors>>

BlockNode ==
  /\ state = "BlockNode"
  /\ \E c \in Peek(cur) : ParseNode(c, states, TRUE, FALSE)

(***************************************************************************)
(* Block collections.                                                      *)
(***************************************************************************)
\* Consume the indicator under c; the entry is empty when the next token is in
\* ends, else a node that returns to next.
EmptyOrNode(c, ends, next, block, indentless) ==
  \E d \in Peek(Skip(c)) :
    IF Kind(d) \in ends
    THEN Return("Scalar", d, next, states)
    ELSE ParseNode(d, Append(states, next), block, indentless)

BlockMappingKey(first) ==
  /\ state = IF first THEN "BlockMappingFirstKey" ELSE "BlockMappingKey"
  /\ \E c \in Entry(first) :
       CASE Kind(c) = "Key" ->
              EmptyOrNode(c, {"Key", "Value", "BlockEnd"}, "BlockMappingValue", TRUE, TRUE)
         [] Kind(c) = "Value" -> Return("Scalar", c, "BlockMappingValue", states)
         [] Kind(c) = "BlockEnd" -> ReturnPop("MappingEnd", Skip(c), states)
         [] OTHER -> Err(c)

BlockMappingValue ==
  /\ state = "BlockMappingValue"
  /\ \E c \in Peek(cur) :
       IF Kind(c) = "Value"
       THEN EmptyOrNode(c, {"Key", "Value", "BlockEnd"}, "BlockMappingKey", TRUE, TRUE)
       ELSE Return("Scalar", c, "BlockMappingKey", states)

\* Fault for the checks: an item returns to the state that drops a token first.
ReturnToFirstEntry(first) ==
  /\ state = IF first THEN "BlockSequenceFirstEntry" ELSE "BlockSequenceEntry"
  /\ \E c \in Entry(first) :
       CASE Kind(c) = "BlockEnd" -> ReturnPop("SequenceEnd", Skip(c), states)
         [] Kind(c) = "BlockEntry" ->
              EmptyOrNode(c, {"BlockEntry", "BlockEnd"}, "BlockSequenceFirstEntry", TRUE, FALSE)
         [] OTHER -> Err(c)

BlockSequenceEntry(first) ==
  /\ state = IF first THEN "BlockSequenceFirstEntry" ELSE "BlockSequenceEntry"
  /\ \E c \in Entry(first) :
       CASE Kind(c) = "BlockEnd" -> ReturnPop("SequenceEnd", Skip(c), states)
         [] Kind(c) = "BlockEntry" ->
              EmptyOrNode(c, {"BlockEntry", "BlockEnd"}, "BlockSequenceEntry", TRUE, FALSE)
         [] OTHER -> Err(c)

\* Fault for the checks: only the tokens of the parent mapping end the sequence.
EndOnlyAtParentTokens ==
  /\ state = "IndentlessSequenceEntry"
  /\ \E c \in Peek(cur) :
       CASE Kind(c) = "BlockEntry" ->
              EmptyOrNode(c, {"BlockEntry", "Key", "Value", "BlockEnd"},
                          "IndentlessSequenceEntry", TRUE, FALSE)
         [] Kind(c) \in {"Key", "Value", "BlockEnd"} -> ReturnPop("SequenceEnd", c, states)
         [] OTHER -> Return("Scalar", c, "IndentlessSequenceEntry", states)

\* A sequence at its parent mapping's indentation ends at the first token that
\* is not a dash; that token is left for the mapping.
IndentlessSequenceEntry ==
  /\ state = "IndentlessSequenceEntry"
  /\ \E c \in Peek(cur) :
       IF Kind(c) = "BlockEntry"
       THEN EmptyOrNode(c, {"BlockEntry", "Key", "Value", "BlockEnd"},
                        "IndentlessSequenceEntry", TRUE, FALSE)
       ELSE ReturnPop("SequenceEnd", c, states)

(***************************************************************************)
(* Flow collections.                                                       *)
(***************************************************************************)
\* After the first entry a comma must separate the entries: the cursors past it.
PastComma(first, c) ==
  IF first THEN {c} ELSE IF Kind(c) = "FlowEntry" THEN Peek(Skip(c)) ELSE {}

FlowMappingKey(first) ==
  /\ state = IF first THEN "FlowMappingFirstKey" ELSE "FlowMappingKey"
  /\ \E c \in Entry(first) :
       \/ Kind(c) = "FlowMappingEnd" /\ ReturnPop("MappingEnd", Skip(c), states)
       \/ Kind(c) \notin {"FlowMappingEnd", "FlowEntry"} /\ ~first /\ Err(c)
       \/ /\ Kind(c) # "FlowMappingEnd"
          /\ \E d \in PastComma(first, c) :
               CASE Kind(d) = "Key" ->
                      EmptyOrNode(d, {"Value", "FlowEntry", "FlowMappingEnd"},
                                  "FlowMappingValue", FALSE, FALSE)
                 [] Kind(d) = "Value" -> Return("Scalar", d, "FlowMappingValue", states)
                 [] Kind(d) = "FlowMappingEnd" -> ReturnPop("MappingEnd", Skip(d), states)
                 [] OTHER -> ParseNode(d, Append(states, "FlowMappingEmptyValue"), FALSE, FALSE)

FlowMappingValue(empty) ==
  /\ state = IF empty THEN "FlowMappingEmptyValue" ELSE "FlowMappingValue"
  /\ \E c \in Peek(cur) :
       IF ~empty /\ Kind(c) = "Value"
       THEN EmptyOrNode(c, {"FlowEntry", "FlowMappingEnd"}, "FlowMappingKey", FALSE, FALSE)
       ELSE Return("Scalar", c, "FlowMappingKey", states)

FlowSequenceEntry(first) ==
  /\ state = IF first THEN "FlowSequenceFirstEntry" ELSE "FlowSequenceEntry"
  /\ \E c \in Entry(first) :
       \/ Kind(c) = "FlowSequenceEnd" /\ ReturnPop("SequenceEnd", Skip(c), states)
       \/ Kind(c) \notin {"FlowSequenceEnd", "FlowEntry"} /\ ~first /\ Err(c)
       \/ /\ Kind(c) # "FlowSequenceEnd"
          /\ \E d \in PastComma(first, c) :
               CASE Kind(d) = "FlowSequenceEnd" -> ReturnPop("SequenceEnd", Skip(d), states)
                 [] Kind(d) = "Key" ->
                      Return("MappingStart", Skip(d), "FlowSequenceEntryMappingKey", states)
                 [] OTHER -> ParseNode(d, Append(states, "FlowSequenceEntry"), FALSE, FALSE)

\* A single-pair mapping [? k : v].  With no key the token that shows it is
\* consumed, whatever it is.
FlowSequenceEntryMappingKey ==
  /\ state = "FlowSequenceEntryMappingKey"
  /\ \E c \in Peek(cur) :
       IF Kind(c) \in {"Value", "FlowEntry", "FlowSequenceEnd"}
       THEN Return("Scalar", Skip(c), "FlowSequenceEntryMappingValue", states)
       ELSE ParseNode(c, Append(states, "FlowSequenceEntryMappingValue"), FALSE, FALSE)

\* Fault for the checks: a pair without a value is not closed.
PairLeftOpen ==
  /\ state = "FlowSequenceEntryMappingValue"
  /\ \E c \in Peek(cur) :
       IF Kind(c) = "Value"
       THEN EmptyOrNode(c, {"FlowEntry", "FlowSequenceEnd"},
                        "FlowSequenceEntryMappingEnd", FALSE, FALSE)
       ELSE Return("Scalar", c, "FlowSequenceEntry", states)

FlowSequenceEntryMappingValue ==
  /\ state = "FlowSequenceEntryMappingValue"
  /\ \E c \in Peek(cur) :
       IF Kind(c) = "Value"
       THEN EmptyOrNode(c, {"FlowEntry", "FlowSequenceEnd"},
                        "FlowSequenceEntryMappingEnd", FALSE, FALSE)
       ELSE Return("Scalar", c, "FlowSequenceEntryMappingEnd", states)

FlowSequenceEntryMappingEnd ==
  /\ state = "FlowSequenceEntryMappingEnd"
  /\ Return("MappingEnd", cur, "FlowSequenceEntry", states)

(***************************************************************************)
(* The end of the stream and of the scanner.                               *)
(***************************************************************************)
End ==
  /\ state = "End"
  /\ Return("StreamEnd", cur, state, states)

FirstEntries == {"BlockSequenceFirstEntry", "BlockMappingFirstKey",
                 "FlowSequenceFirstEntry", "FlowMappingFirstKey"}

\* The scanner fails at one of the call's peeks; it keeps the error and every
\* later read fails again.  What the call pushed or declared before the peek is
\* never read again, so the action leaves it alone.  Past StreamEnd, which only a
\* first entry retried after a failure can drop, the read fails as well.
ScannerFails ==
  /\ state \notin {"End", "FlowSequenceEntryMappingEnd"}
  /\ cur.scan = "ended" => cur.token = NoToken \/ state \in FirstEntries
  /\ Reject([token |-> NoToken, scan |-> "error"], state, states)
  /\ UNCHANGED <<anchors, tags>>

Handler ==
  \/ StreamStart \/ DocumentContent \/ DocumentEnd \/ BlockNode
  \/ \E b \in BOOLEAN : DocumentStart(b)
  \/ \E b \in BOOLEAN : BlockMappingKey(b)
  \/ BlockMappingValue
  \/ \E b \in BOOLEAN : BlockSequenceEntry(b)
  \/ IndentlessSequenceEntry
  \/ \E b \in BOOLEAN : FlowMappingKey(b)
  \/ \E b \in BOOLEAN : FlowMappingValue(b)
  \/ \E b \in BOOLEAN : FlowSequenceEntry(b)
  \/ FlowSequenceEntryMappingKey \/ FlowSequenceEntryMappingValue
  \/ FlowSequenceEntryMappingEnd
  \/ End
  \/ ScannerFails

\* The caller gives up.
GiveUp == errors > MaxErrors /\ UNCHANGED vars

Init ==
  /\ state = "StreamStart" /\ states = <<>>
  /\ cur = [token |-> NoToken, scan |-> "start"]
  /\ anchors = {} /\ tags = {}
  /\ event = "Nothing" /\ errors = 0
  /\ boundary = [event |-> "Nothing", explicit |-> FALSE, directives |-> FALSE]

NextToken == errors <= MaxErrors /\ Handler

Next == NextToken \/ GiveUp

Spec == Init /\ [][Next]_vars

FairSpec == Spec /\ WF_vars(NextToken)

(***************************************************************************)
(* Properties.                                                             *)
(***************************************************************************)
Continuations == {"BlockSequenceEntry", "IndentlessSequenceEntry", "BlockMappingKey",
                  "BlockMappingValue", "FlowSequenceEntry", "FlowSequenceEntryMappingValue",
                  "FlowSequenceEntryMappingEnd", "FlowMappingKey", "FlowMappingValue",
                  "FlowMappingEmptyValue"}

Outside == {"StreamStart", "ImplicitDocumentStart", "DocumentStart", "DocumentEnd", "End"}

Inside == Continuations \cup {"DocumentContent", "BlockNode", "BlockSequenceFirstEntry",
                              "BlockMappingFirstKey", "FlowSequenceFirstEntry",
                              "FlowMappingFirstKey", "FlowSequenceEntryMappingKey"}

Events == {"Nothing", "StreamStart", "StreamEnd", "DocumentStart", "DocumentEnd", "Alias",
           "Scalar", "SequenceStart", "SequenceEnd", "MappingStart", "MappingEnd", "Error"}

TypeOK ==
  /\ state \in Outside \cup Inside
  /\ states \in Seq(Continuations \cup {"DocumentEnd"})
  /\ cur \in [token : Token \cup {NoToken}, scan : {"start", "open", "ended", "error"}]
  /\ anchors \subseteq Names /\ tags \subseteq Handles
  /\ event \in Events
  /\ boundary \in [event : Events, explicit : BOOLEAN, directives : BOOLEAN]
  /\ errors \in Nat

\* pop_state unwraps the top of the return stack and next_token then runs the
\* state it found: inside a document the stack is never empty and DocumentEnd
\* lies at its bottom and nowhere else, outside one it is empty, even when calls
\* have failed half-way and the caller went on.
StackDiscipline ==
  /\ state \in Outside <=> states = <<>>
  /\ \A i \in 1 .. Len(states) : states[i] = "DocumentEnd" <=> i = 1

\* The marker flags the emitter later reproduces tell the documents apart: between
\* two documents there is a `...' or a `---', and directives come only after a `...'
\* (or first in the stream) and before a `---', otherwise they would be read as
\* content of the document before them.
DocumentsAreSeparated ==
  [][boundary.event = "DocumentEnd" /\ boundary'.event = "DocumentStart" =>
       /\ boundary.explicit \/ boundary'.explicit
       /\ boundary'.directives => boundary.explicit /\ boundary'.explicit]_vars

(***************************************************************************)
(* The automaton implements EventStream until a call fails.  A state on    *)
(* the return stack stands for a container one of whose nodes is open; the *)
(* current state for one that has just been opened, or whose last node is  *)
(* complete.                                                               *)
(***************************************************************************)
Held == [DocumentEnd |-> <<"root">>,
         BlockSequenceEntry |-> <<"seq">>, IndentlessSequenceEntry |-> <<"seq">>,
         FlowSequenceEntry |-> <<"seq">>,
         BlockMappingValue |-> <<"key">>, BlockMappingKey |-> <<"val">>,
         FlowMappingValue |-> <<"key">>, FlowMappingEmptyValue |-> <<"key">>,
         FlowMappingKey |-> <<"val">>,
         FlowSequenceEntryMappingValue |-> <<"seq", "key">>,
         FlowSequenceEntryMappingEnd |-> <<"seq", "val">>]

At(st) ==
  CASE st = "DocumentEnd" -> <<"done">>
    [] st \in {"BlockSequenceFirstEntry", "BlockSequenceEntry", "IndentlessSequenceEntry",
               "FlowSequenceFirstEntry", "FlowSequenceEntry"} -> <<"seq">>
    [] st \in {"BlockMappingFirstKey", "BlockMappingKey",
               "FlowMappingFirstKey", "FlowMappingKey"} -> <<"key">>
    [] st \in {"BlockMappingValue", "FlowMappingValue", "FlowMappingEmptyValue"} -> <<"val">>
    [] st \in {"FlowSequenceEntryMappingKey", "FlowSequenceEntryMappingEnd"} -> <<"seq", "key">>
    [] st = "FlowSequenceEntryMappingValue" -> <<"seq", "val">>
    [] OTHER -> <<>>

Below(stk) == FlattenSeq([i \in 1 .. Len(stk) |-> Held[stk[i]]])

Open == Below(states) \o At(state)

ES == INSTANCE EventStream WITH
        phase <- IF errors > 0 THEN "failed"
                 ELSE CASE state = "StreamStart" -> "start"
                        [] state = "End" -> "ended"
                        [] OTHER -> "open",
        nest  <- IF errors > 0 THEN <<>> ELSE Open,
        event <- IF errors > 0 THEN "Error" ELSE event

\* Whatever the scanner delivers, the events up to the first Err form a prefix of
\* a well-nested stream: one root per document, containers closed in order,
\* mappings made of whole pairs (the builder counts on it and checks nothing).
EventsWellNested == ES!ESSpec

\* Once the scanner has delivered StreamEnd the parser closes every open
\* container with a bounded number of empty nodes and ends (or fails): it never
\* goes on producing empty scalars for ever.
StreamEndIsReached ==
  (Kind(cur) = "StreamEnd") ~> (state = "End" \/ errors > 0)
================================================================================
