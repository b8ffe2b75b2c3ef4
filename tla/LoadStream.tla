------------------------------ MODULE LoadStream ------------------------------
(***************************************************************************)
(* Loading from a Python stream: PyIoCharsIter (src/py/streaming.rs) reads *)
(* chunks and decodes them, the scanner pulls characters from it, and one  *)
(* of three callers turns the parser's events into documents: iter_load_all*)
(* (src/py/py_iter.rs), load_all and load (parse_stream, parse_stream_first*)
(* in src/py/convert.rs).                                                  *)
(*                                                                         *)
(* A character is a content character, a document marker or a quote (a     *)
(* quoted scalar is one token, so that an error can strike inside one). A  *)
(* document is the characters of its content.  Scanner, parser and builder *)
(* are cut down to what decides when a document is complete; Parser and    *)
(* Builder model the rest.                                                 *)
(***************************************************************************)
EXTENDS Integers, SequencesExt

CONSTANTS
  Chars,      \* the characters the stream may hold, among those of Utf8
  Bytes,      \* the bytes a binary stream may hold
  ChunkSize,  \* the most a call of read() returns
  MaxInput,   \* bound on the bytes the stream holds
  Apis,       \* who loads: "iter", "all", "first"
  Sources,    \* from what: "stream", "string"
  MayConvertFail \* may the conversion of a document fail (a schema's loader)?

Utf8 == [c \in {"x", "-", "q", "e2", "e3"} |->
           CASE c = "e2" -> <<"l2", "c">>
             [] c = "e3" -> <<"l3", "c", "c">>
             [] OTHER    -> <<c>>]

Marker == "-"
Quote == "q"

ASSUME LoadStreamConstants ==
  /\ Chars \subseteq DOMAIN Utf8
  /\ Bytes \subseteq {"x", "-", "q", "l2", "l3", "c", "ff"}
  /\ ChunkSize \in Nat \ {0} /\ MaxInput \in Nat
  /\ Apis \subseteq {"iter", "all", "first"}
  /\ Sources \subseteq {"stream", "string"}
  /\ MayConvertFail \in BOOLEAN

VARIABLES
  api,       \* which of the three loads
  source,    \* a Python stream or a string
  reader,    \* PyIoCharsIter: buf (what is left of it), pending, mode, done
  slot,      \* is an error stored in the shared error slot?
  scanner,   \* ahead: characters pulled and not yet in a token; ended: it met the end;
             \* failed: its error, which it keeps
  parser,    \* between documents, in a document, or at the end of the stream
  builder,   \* docs and the content of the document being built
  caller,    \* calling: inside a call; done: YamlIterInner.done
  answer,    \* how the last call ended
  \* What has happened, for the properties.
  input,     \* the bytes accepted from the stream
  taken,     \* the characters the scanner has pulled
  delivered, \* the documents handed over, or lost to a failed conversion
  raised     \* the kinds of errors raised so far

reading == <<reader, slot, input>>
scanning == <<scanner, taken>>
building == <<parser, builder>>
calling == <<caller, answer, delivered, raised>>
vars == <<api, source, reading, scanning, building, calling>>

(***************************************************************************)
(* Decoding.                                                               *)
(***************************************************************************)
Encode(text) == FlattenSeq([i \in DOMAIN text |-> Utf8[text[i]]])

\* One byte more: it completes a character, or waits with those before it.
WithByte(sofar, b) ==
  LET rest == Append(sofar.rest, b)
  IN  IF \E c \in DOMAIN Utf8 : Utf8[c] = rest
      THEN [text |-> Append(sofar.text, CHOOSE c \in DOMAIN Utf8 : Utf8[c] = rest),
            rest |-> <<>>]
      ELSE [text |-> sofar.text, rest |-> rest]

\* The longest decodable beginning of `bytes', and what is left of them.
Decode(bytes) ==
  LET after[n \in 0 .. Len(bytes)] ==
        IF n = 0 THEN [text |-> <<>>, rest |-> <<>>] ELSE WithByte(after[n - 1], bytes[n])
  IN  after[Len(bytes)]

\* is_utf8_partial
IsPartial(rest) ==
  LET expected == CASE rest[1] = "l2" -> 2 [] rest[1] = "l3" -> 3
                    [] rest[1] \in {"c", "ff"} -> 0 [] OTHER -> 1
  IN  Len(rest) < expected /\ \A i \in 2 .. Len(rest) : rest[i] = "c"

(***************************************************************************)
(* The reader.  read_chunk is called while the scanner asks for a character*)
(* and none is buffered; each action is one call and its outcome.          *)
(***************************************************************************)
Wanted ==
  /\ caller.calling
  /\ reader.buf = <<>> /\ ~reader.done

SetError ==
  /\ slot' = TRUE
  /\ reader' = [reader EXCEPT !.done = TRUE]
  /\ UNCHANGED input

ReadText(chunk) ==
  IF reader.mode = "binary" \/ reader.pending # <<>>
  THEN SetError
  ELSE /\ reader' = [reader EXCEPT !.mode = "text", !.buf = chunk]
       /\ input' = input \o Encode(chunk)
       /\ UNCHANGED slot

\* Fault for the checks: bytes that wait for the rest of their character are dropped
\* when the next chunk comes.
ReadBytesForgetful(chunk) ==
  LET got == Decode(chunk)
  IN  IF got.rest = <<>> \/ IsPartial(got.rest)
      THEN /\ reader' = [reader EXCEPT !.mode = "binary", !.buf = got.text, !.pending = got.rest]
           /\ input' = input \o chunk
           /\ UNCHANGED slot
      ELSE SetError

\* An empty decoded beginning (NeedMore) leaves nothing buffered, and fill_buf reads on.
ReadBytes(chunk) ==
  LET bytes == reader.pending \o chunk
      got == Decode(bytes)
      ok == got.rest = <<>> \/ IsPartial(got.rest)
  IN  IF reader.mode = "text"
      THEN SetError
      ELSE IF ok
      THEN /\ reader' = [reader EXCEPT !.mode = "binary", !.buf = got.text, !.pending = got.rest]
           /\ input' = input \o chunk
           /\ UNCHANGED slot
      ELSE SetError

ReadEmpty ==
  IF reader.pending # <<>>
  THEN SetError
  ELSE /\ reader' = [reader EXCEPT !.done = TRUE]
       /\ UNCHANGED <<slot, input>>

SeqsUpTo(S, n) == UNION {[1 .. k -> S] : k \in 1 .. n}

Room == MaxInput - Len(input)

Fits(n) == IF n < ChunkSize THEN n ELSE ChunkSize

(***************************************************************************)
(* The scanner's lookahead, and the events of the parser.                  *)
(***************************************************************************)
LookAhead == 2

Closing(s) == {i \in 2 .. Len(s) : s[i] \in {Quote, Marker}}

\* Enough characters are pulled to make the next token.
TokenReady ==
  \/ scanner.ended \/ scanner.failed
  \/ /\ Len(scanner.ahead) >= LookAhead
     /\ scanner.ahead[1] = Quote => Closing(scanner.ahead) # {}

Starved == caller.calling /\ ~TokenReady

TakeChar ==
  /\ Starved /\ reader.buf # <<>>
  /\ reader' = [reader EXCEPT !.buf = Tail(@)]
  /\ scanner' = [scanner EXCEPT !.ahead = Append(@, Head(reader.buf))]
  /\ taken' = Append(taken, Head(reader.buf))
  /\ UNCHANGED <<api, source, slot, input, building, calling>>

\* Fault for the checks: the scanner keeps the NUL that stands for the end as a character.
MeetEndAsChar ==
  /\ Starved /\ reader.buf = <<>> /\ reader.done
  /\ scanner' = [scanner EXCEPT !.ahead = Append(@, "nul"), !.ended = TRUE]
  /\ UNCHANGED <<api, source, reading, taken, building, calling>>

MeetEnd ==
  /\ Starved /\ reader.buf = <<>> /\ reader.done
  /\ scanner' = [scanner EXCEPT !.ended = TRUE]
  /\ UNCHANGED <<api, source, reading, taken, building, calling>>

ReadChunk ==
  /\ Starved /\ Wanted
  /\ \/ \E n \in 1 .. Fits(Room) : \E chunk \in [1 .. n -> Bytes] : ReadBytes(chunk)
     \/ \E chunk \in SeqsUpTo(Chars, ChunkSize) : Len(Encode(chunk)) <= Room /\ ReadText(chunk)
     \/ ReadEmpty
     \/ SetError \* read() raises, or returns neither str nor bytes
  /\ UNCHANGED <<api, source, scanning, building, calling>>

\* The token that starts with what is pulled, and how much of it the scanner consumes.
HeadToken ==
  LET ahead == scanner.ahead
      closing == Closing(ahead)
      token(kind, n) == [kind |-> kind, size |-> n]
      first == IF ahead = <<>> THEN "end" ELSE ahead[1]
      \* Of a quoted scalar: unexpected end of stream, unexpected document indicator.
      unclosed == first = Quote /\ (closing = {} \/ ahead[Min(closing)] = Marker)
  IN  CASE scanner.failed \/ unclosed -> token("Error", 0)
        [] ~scanner.failed /\ first = "end" -> token("StreamEnd", 0)
        [] ~scanner.failed /\ first = Marker -> token("DocumentStart", 1)
        [] ~scanner.failed /\ first = Quote /\ ~unclosed -> token("Scalar", Min(closing))
        [] OTHER -> token("Scalar", 1)

\* The next event: its name, the characters it consumes, and the parser's state after it.
NextEvent ==
  LET token == HeadToken
      event(name, n, next) == [name |-> name, size |-> n, next |-> next]
  IN  CASE token.kind = "Error" -> event("Error", token.size, parser)
        [] token.kind = "Scalar" -> IF parser = "in" THEN event("Scalar", token.size, "in")
                                                     ELSE event("DocumentStart", 0, "in")
        [] token.kind = "DocumentStart" -> IF parser = "in" THEN event("DocumentEnd", 0, "between")
                                                            ELSE event("DocumentStart", 1, "in")
        [] token.kind = "StreamEnd" -> IF parser = "in" THEN event("DocumentEnd", 0, "between")
                                                        ELSE event("StreamEnd", 0, "end")

Consume(ev) == scanner' = [scanner EXCEPT !.ahead = SubSeq(@, ev.size + 1, Len(@)),
                                          !.failed = ev.name = "Error"]

\* What process_event does for the documents: the next value of the builder.
Processed(ev) ==
  CASE ev.name = "DocumentStart" -> [builder EXCEPT !.open = <<>>]
    [] ev.name = "Scalar" -> [builder EXCEPT !.open = @ \o SubSeq(scanner.ahead, 1, ev.size)]
    [] ev.name = "DocumentEnd" -> [docs |-> Append(builder.docs, builder.open), open |-> <<>>]
    [] ev.name = "StreamEnd" -> builder

(***************************************************************************)
(* The callers.                                                            *)
(***************************************************************************)
\* Fault for the checks: an exception does not end the iteration.
RaiseAndGoOn(kind, done) ==
  /\ answer' = kind
  /\ raised' = raised \cup {kind}
  /\ caller' = [calling |-> FALSE, done |-> FALSE]
  /\ UNCHANGED delivered

Raise(kind, done) ==
  /\ answer' = kind
  /\ raised' = raised \cup {kind}
  /\ caller' = [calling |-> FALSE, done |-> done]
  /\ UNCHANGED delivered

\* Nothing is left: StopIteration, an empty list or None.
Stop(done) ==
  /\ answer' = "stop"
  /\ caller' = [calling |-> FALSE, done |-> done]
  /\ UNCHANGED <<delivered, raised>>

\* The head of YamlIter.__next__: an iterator that is done answers at once.
Call ==
  /\ ~caller.calling
  /\ api # "iter" => ~caller.done \* load and load_all are called once
  /\ IF caller.done
     THEN answer' = "stop" /\ UNCHANGED caller
     ELSE answer' = "none" /\ caller' = [caller EXCEPT !.calling = TRUE]
  /\ UNCHANGED <<api, source, reading, scanning, building, delivered, raised>>

\* `docs' are popped from the builder `b' and converted; those that fail are gone.
HandOver(b, docs, left, done) ==
  /\ builder' = [b EXCEPT !.docs = left]
  /\ delivered' = delivered \o docs
  /\ caller' = [calling |-> FALSE, done |-> done]
  /\ \/ answer' = "doc" /\ UNCHANGED raised
     \/ MayConvertFail /\ answer' = "convert" /\ raised' = raised \cup {"convert"}

\* Fault for the checks: __next__ looks at the error slot only at the end of the stream.
IterTurnLateCheck(ev) ==
  LET b == Processed(ev)
      end == ev.name = "StreamEnd"
  IN  IF ev.name = "Error"
      THEN Raise("parse", FALSE) /\ UNCHANGED <<builder, slot>>
      ELSE IF slot /\ end
      THEN Raise("io", TRUE) /\ slot' = FALSE /\ UNCHANGED builder
      ELSE /\ UNCHANGED slot
           /\ IF ~end /\ ev.name # "DocumentEnd"
              THEN builder' = b /\ UNCHANGED calling
              ELSE IF b.docs = <<>>
              THEN builder' = b /\ Stop(end)
              ELSE HandOver(b, <<b.docs[1]>>, Tail(b.docs), end)

\* Fault for the checks: the iterator is done as soon as its source is.
IterTurnDoneEarly(ev) ==
  IF ev.name = "Error"
  THEN Raise("parse", FALSE) /\ UNCHANGED <<builder, slot>>
  ELSE IF slot
  THEN Raise("io", TRUE) /\ slot' = FALSE /\ UNCHANGED builder
  ELSE LET b == Processed(ev)
       IN  /\ UNCHANGED slot
           /\ IF ev.name \notin {"DocumentEnd", "StreamEnd"}
              THEN builder' = b /\ UNCHANGED calling
              ELSE IF b.docs = <<>>
              THEN builder' = b /\ Stop(reader.done)
              ELSE HandOver(b, <<b.docs[1]>>, Tail(b.docs), reader.done)

\* One turn of the loop of __next__: `?' leaves before the slot is looked at.
IterTurn(ev) ==
  IF ev.name = "Error"
  THEN Raise("parse", FALSE) /\ UNCHANGED <<builder, slot>>
  ELSE IF slot
  THEN Raise("io", TRUE) /\ slot' = FALSE /\ UNCHANGED builder
  ELSE LET b == Processed(ev)
           end == ev.name = "StreamEnd"
       IN  /\ UNCHANGED slot
           /\ IF ~end /\ ev.name # "DocumentEnd"
              THEN builder' = b /\ UNCHANGED calling
              ELSE IF b.docs = <<>>
              THEN builder' = b /\ Stop(end)
              ELSE HandOver(b, <<b.docs[1]>>, Tail(b.docs), end)

\* Fault for the checks: load goes on until the stream ends, and keeps the first document.
LoadTurnToTheEnd(ev) ==
  LET b == IF ev.name = "Error" THEN builder ELSE Processed(ev)
  IN  IF ev.name \notin {"Error", "StreamEnd"}
      THEN builder' = b /\ UNCHANGED <<slot, calling>>
      ELSE IF slot
      THEN Raise("io", TRUE) /\ slot' = FALSE /\ builder' = b
      ELSE /\ UNCHANGED slot
           /\ IF ev.name = "Error"
              THEN Raise("parse", TRUE) /\ builder' = b
              ELSE IF b.docs = <<>>
              THEN builder' = b /\ Stop(TRUE)
              ELSE HandOver(b, <<b.docs[1]>>, <<>>, TRUE)

\* parse_stream and parse_stream_first look at the slot once the loop has ended, in
\* whichever way; then do_load converts the documents.
LoadTurn(ev) ==
  LET b == IF ev.name = "Error" THEN builder ELSE Processed(ev)
      over == \/ ev.name \in {"Error", "StreamEnd"}
              \/ api = "first" /\ ev.name = "DocumentEnd"
  IN  IF ~over
      THEN builder' = b /\ UNCHANGED <<slot, calling>>
      ELSE IF slot
      THEN Raise("io", TRUE) /\ slot' = FALSE /\ builder' = b
      ELSE /\ UNCHANGED slot
           /\ IF ev.name = "Error"
              THEN Raise("parse", TRUE) /\ builder' = b
              ELSE IF b.docs = <<>>
              THEN builder' = b /\ Stop(TRUE)
              ELSE HandOver(b, b.docs, <<>>, TRUE)

\* Fault for the checks: the loops end at a document and not at the end of the stream.
NextTokenNoEnd ==
  /\ caller.calling /\ TokenReady
  /\ NextEvent.name # "StreamEnd"
  /\ LET ev == NextEvent
     IN  /\ Consume(ev)
         /\ parser' = ev.next
         /\ IF api = "iter" THEN IterTurn(ev) ELSE LoadTurn(ev)
  /\ UNCHANGED <<api, source, reader, input, taken>>

NextToken ==
  /\ caller.calling /\ TokenReady
  /\ LET ev == NextEvent
     IN  /\ Consume(ev)
         /\ parser' = ev.next
         /\ IF api = "iter" THEN IterTurn(ev) ELSE LoadTurn(ev)
  /\ UNCHANGED <<api, source, reader, input, taken>>

(***************************************************************************)
(* The specification.                                                      *)
(***************************************************************************)
OpenStream ==
  /\ source = "stream"
  /\ reader = [buf |-> <<>>, pending |-> <<>>, mode |-> "none", done |-> FALSE]
  /\ input = <<>>

\* A string is a source that is read already (StringCharsIter) and cannot fail.
OpenString ==
  /\ source = "string"
  /\ \E text \in SeqsUpTo(Chars, MaxInput) \cup {<<>>} :
       /\ reader = [buf |-> text, pending |-> <<>>, mode |-> "text", done |-> TRUE]
       /\ input = Encode(text)

Init ==
  /\ api \in Apis /\ source \in Sources
  /\ OpenStream \/ OpenString
  /\ slot = FALSE
  /\ scanner = [ahead |-> <<>>, ended |-> FALSE, failed |-> FALSE]
  /\ parser = "between"
  /\ builder = [docs |-> <<>>, open |-> <<>>]
  /\ caller = [calling |-> FALSE, done |-> FALSE]
  /\ answer = "none"
  /\ taken = <<>> /\ delivered = <<>> /\ raised = {}

Next == Call \/ ReadChunk \/ TakeChar \/ MeetEnd \/ NextToken

Spec == Init /\ [][Next]_vars

\* A call runs to its end once it is made; nobody has to make another.
FairSpec == Spec /\ WF_vars(ReadChunk \/ TakeChar \/ MeetEnd \/ NextToken)

(***************************************************************************)
(* Properties.                                                             *)
(***************************************************************************)
\* Every variable has its type.
TypeOK ==
  /\ api \in Apis /\ source \in Sources
  /\ reader.buf \in Seq(DOMAIN Utf8) /\ reader.pending \in Seq(Bytes)
  /\ reader.mode \in {"none", "text", "binary"} /\ reader.done \in BOOLEAN
  /\ slot \in BOOLEAN
  /\ scanner.ahead \in Seq(DOMAIN Utf8)
  /\ scanner.ended \in BOOLEAN /\ scanner.failed \in BOOLEAN
  /\ parser \in {"between", "in", "end"}
  /\ caller \in [calling : BOOLEAN, done : BOOLEAN]
  /\ answer \in {"none", "doc", "stop", "parse", "io", "convert"}
  /\ raised \subseteq {"parse", "io", "convert"}

\* Whatever the chunks are that the bytes come in, also when they cut characters, each
\* byte that was read is in exactly one place: in a character the scanner has, in a
\* character of the buffer, or among the pending bytes; and the end of the source is
\* reported only when none is pending (PyIoCharsIter).
EveryByteDecodedOnce ==
  /\ Encode(taken \o reader.buf) \o reader.pending = input
  /\ reader.done /\ ~slot /\ "io" \notin raised => reader.pending = <<>>

\* The documents of a text: a marker starts one, and so does content before any marker.
WithChar(docs, c) ==
  IF c = Marker THEN Append(docs, <<>>)
  ELSE IF docs = <<>> THEN <<<<c>>>>
  ELSE [docs EXCEPT ![Len(docs)] = Append(@, c)]

DocumentsOf(text) ==
  LET docs[n \in 0 .. Len(text)] ==
        IF n = 0 THEN <<>> ELSE WithChar(docs[n - 1], text[n])
  IN  docs[Len(text)]

\* What a caller gets is documents of the text, in order, and none that a failing
\* stream has cut short: the last one is handed over only when the source has ended
\* well (the checks of the error slot in __next__, parse_stream, parse_stream_first).
\* When iter_load_all stops, or load_all returns its list, and no error was raised, all of
\* the source has been read and all of its documents have been handed over.
DocumentsAreWhole ==
  LET docs == DocumentsOf(taken)
  IN  /\ IsPrefix(delivered, docs)
      /\ delivered # <<>> /\ Len(delivered) = Len(docs) =>
           reader.done /\ ~slot /\ "io" \notin raised
      /\ api # "first" /\ caller.done /\ raised = {} =>
           Encode(taken) = input /\ delivered = docs

\* An iterator and load consume the tokens of one document and no more before they hand
\* it over: documents never accumulate, and load does not parse later ones (docs/api.md).
OneDocumentAtATime ==
  api # "all" =>
    LET consumed == SubSeq(taken, 1, Len(taken) - Len(scanner.ahead))
    IN  /\ Len(builder.docs) <= 1
        /\ Len(DocumentsOf(consumed)) <= Len(delivered) + 1

\* Once an iterator has raised the stream's error it only ever stops: it does not read
\* the broken stream again, nor hand over what was parsed before the error.
StreamErrorIsFinal ==
  [][api = "iter" /\ "io" \in raised =>
       answer' \in {"io", "stop"} /\ UNCHANGED <<input, taken, delivered>>]_vars

\* Every call returns: reading ends even when a chunk decodes to nothing and when the
\* stream fails inside a token.
CallsReturn == caller.calling ~> ~caller.calling
===============================================================================
