---------------------------- MODULE DumpStreamProofs ----------------------------
(***************************************************************************)
(* What the destination of a dump holds, for every iterable, every size of *)
(* the documents and of the writer's buffer, and every write that raises.  *)
(***************************************************************************)
EXTENDS DumpStream, SequenceFacts

Pieces == Nat \X Nat

\* The variables have their types.
Typed ==
  /\ api \in Apis
  /\ pulled \in Seq(Docs) /\ drained \in BOOLEAN
  /\ at \in Nat /\ at <= Len(pulled)
  /\ rest \in Seq(Pieces) /\ dest \in Seq(Pieces)
  /\ writer \in [mode : {"none", "text", "binary"}, error : BOOLEAN, buffer : Seq(Pieces)]
  /\ Len(writer.buffer) < Capacity
  /\ broken \in BOOLEAN
  /\ pc \in {"pull", "emit", "returned"}
  /\ outcome \in {"none", "ok", "iterable", "conversion", "write"}

\* The texts of the documents begun do not change any more: whether a second one follows
\* is known by then.
Settled == at > 0 => drained \/ Multiple

\* The one form that the destination has taken is the one the writer keeps.
OneForm == forms = {writer.mode} \ {"none"}

\* Where the fragments are.
Whole ==
  /\ ~broken => dest \o (writer.buffer \o rest) = TextOf(at)
  /\ IsPrefix(dest, TextOf(at))

\* An error is kept until the document is finished, and the buffer is empty between
\* documents.
Control ==
  /\ outcome = "none" <=> pc # "returned"
  /\ writer.error => broken
  /\ pc = "pull" => rest = <<>> /\ writer.buffer = <<>> /\ ~broken
  /\ pc = "emit" => at > 0 /\ (broken => writer.error)
  /\ outcome \in {"ok", "iterable", "conversion"} =>
       rest = <<>> /\ writer.buffer = <<>> /\ ~broken
  /\ outcome = "ok" => Len(pulled) = at
  /\ outcome = "write" => at > 0

\* The documents before the present one are in the destination.
Before == at > 0 /\ (pc = "emit" \/ outcome = "write") => IsPrefix(TextOf(at - 1), dest)

IInv == Typed /\ Settled /\ OneForm /\ Whole /\ Control /\ Before

(***************************************************************************)
(* The texts.                                                              *)
(***************************************************************************)
LEMMA FragmentsType ==
  ASSUME pulled \in Seq(Docs), NEW i \in 1 .. Len(pulled)
  PROVE  Fragments(i) \in Seq(Pieces)
<1> DEFINE body == [j \in 1 .. pulled[i].size |-> <<i, j>>]
           head == IF Marked(i) THEN <<<<i, 0>>>> ELSE <<>>
<1>1. pulled[i] \in Docs /\ Len(pulled) \in Nat
  OBVIOUS
<1>2. pulled[i].size \in Nat /\ i \in Nat
  BY <1>1, DumpStreamConstants DEF Docs
<1>3. body \in Seq(Pieces)
  <2>1. \A j \in 1 .. pulled[i].size : <<i, j>> \in Pieces
    BY <1>2 DEF Pieces
  <2>2. QED
    BY <1>2, <2>1
<1>4. head \in Seq(Pieces)
  <2>1. <<i, 0>> \in Pieces
    BY <1>2 DEF Pieces
  <2>2. QED
    BY <2>1
<1>5. Fragments(i) = head \o body
  BY DEF Fragments
<1> HIDE DEF head, body
<1>6. QED
  BY <1>3, <1>4, <1>5, ConcatProperties

\* The text of one document more.
LEMMA TextStep ==
  ASSUME pulled \in Seq(Docs), NEW n \in Nat, n < Len(pulled)
  PROVE  /\ TextOf(n) \in Seq(Pieces)
         /\ Fragments(n + 1) \in Seq(Pieces)
         /\ TextOf(n + 1) = TextOf(n) \o Fragments(n + 1)
<1> DEFINE F(i) == Fragments(i)
           ss == [i \in 1 .. n |-> F(i)]
           tt == [i \in 1 .. n + 1 |-> F(i)]
<1>1. Len(pulled) \in Nat
  OBVIOUS
<1>2. \A i \in 1 .. n + 1 : F(i) \in Seq(Pieces)
  BY <1>1, FragmentsType
<1> HIDE DEF F
<1>3. ss \in Seq(Seq(Pieces)) /\ F(n + 1) \in Seq(Pieces)
  BY <1>2
<1>4. tt = Append(ss, F(n + 1))
  OBVIOUS
<1> HIDE DEF ss, tt
<1>5. FlattenSeq(tt) = FlattenSeq(ss) \o F(n + 1) /\ FlattenSeq(ss) \in Seq(Pieces)
  BY <1>3, <1>4, FlattenSeqAppend, FlattenSeqType
<1>6. QED
  BY <1>3, <1>5 DEF TextOf, ss, tt, F

LEMMA TextType ==
  ASSUME pulled \in Seq(Docs), NEW n \in Nat, n <= Len(pulled)
  PROVE  TextOf(n) \in Seq(Pieces)
<1> DEFINE F(i) == Fragments(i)
           ss == [i \in 1 .. n |-> F(i)]
<1>1. Len(pulled) \in Nat
  OBVIOUS
<1>2. \A i \in 1 .. n : F(i) \in Seq(Pieces)
  BY <1>1, FragmentsType
<1> HIDE DEF F
<1>3. ss \in Seq(Seq(Pieces))
  BY <1>2
<1> HIDE DEF ss
<1>4. FlattenSeq(ss) \in Seq(Pieces)
  BY <1>3, FlattenSeqType
<1>5. QED
  BY <1>4 DEF TextOf, ss, F

LEMMA NoText == TextOf(0) = <<>>
BY DEF TextOf, FlattenSeq

\* Pulling a document does not change the texts of those begun before.
LEMMA TextKept ==
  ASSUME pulled \in Seq(Docs), NEW d \in Docs, pulled' = Append(pulled, d),
         NEW n \in Nat, n <= Len(pulled), n > 0 => Len(pulled) > 1
  PROVE  TextOf(n)' = TextOf(n)
<1>1. Len(pulled) \in Nat /\ Len(pulled') = Len(pulled) + 1
  BY AppendProperties
<1>2. \A i \in 1 .. n : pulled'[i] = pulled[i]
  BY <1>1, AppendProperties
<1>3. n > 0 => (Multiple <=> Multiple')
  BY <1>1 DEF Multiple
<1>4. ASSUME NEW i \in 1 .. n PROVE Fragments(i)' = Fragments(i)
  <2>1. n > 0 /\ pulled'[i] = pulled[i]
    BY <1>2
  <2>2. Marked(i)' = Marked(i)
    BY <1>3, <2>1 DEF Marked
  <2>3. QED
    BY <2>1, <2>2 DEF Fragments
<1>5. [i \in 1 .. n |-> Fragments(i)'] = [i \in 1 .. n |-> Fragments(i)]
  BY <1>4
<1>6. QED
  BY <1>5 DEF TextOf

\* What the texts are made of is left alone.
LEMMA TextSame ==
  ASSUME pulled' = pulled
  PROVE  TextOf(at)' = TextOf(at') /\ TextOf(at - 1)' = TextOf(at' - 1)
BY DEF TextOf, Fragments, Marked, Multiple

(***************************************************************************)
(* PyStreamWriter.                                                         *)
(***************************************************************************)
\* A write takes all of what is pending, or raises and takes a beginning of it.
LEMMA TryWriteTakes ==
  ASSUME Typed, OneForm, NEW pending \in Seq(Pieces), NEW stored \in BOOLEAN,
         TryWrite(pending, stored)
  PROVE  /\ writer' \in [mode : {"none", "text", "binary"}, error : BOOLEAN,
                         buffer : Seq(Pieces)]
         /\ writer'.buffer = <<>>
         /\ broken' \in BOOLEAN
         /\ OneForm'
         /\ \/ dest' = dest \o pending /\ broken' = broken /\ ~writer'.error
            \/ /\ \E n \in 0 .. Len(pending) : dest' = dest \o SubSeq(pending, 1, n)
               /\ broken' /\ writer'.error = stored
<1>1. CASE \E mode \in IF writer.mode = "none" THEN {"text", "binary"} ELSE {writer.mode} :
             /\ dest' = dest \o pending
             /\ forms' = forms \cup {mode}
             /\ writer' = [mode |-> mode, error |-> FALSE, buffer |-> <<>>]
             /\ UNCHANGED broken
  <2>1. PICK mode \in IF writer.mode = "none" THEN {"text", "binary"} ELSE {writer.mode} :
             /\ dest' = dest \o pending
             /\ forms' = forms \cup {mode}
             /\ writer' = [mode |-> mode, error |-> FALSE, buffer |-> <<>>]
             /\ UNCHANGED broken
    BY <1>1
  <2>2. mode \in {"text", "binary"} /\ (writer.mode # "none" => mode = writer.mode)
    BY DEF Typed
  <2>3. forms' = {mode}
    BY <2>1, <2>2 DEF OneForm
  <2>4. OneForm'
    BY <2>1, <2>2, <2>3 DEF OneForm
  <2>5. QED
    BY <2>1, <2>2, <2>4 DEF Typed
<1>2. CASE /\ \E n \in 0 .. Len(pending) : dest' = dest \o SubSeq(pending, 1, n)
           /\ broken' = TRUE
           /\ writer' = [writer EXCEPT !.error = stored, !.buffer = <<>>]
           /\ UNCHANGED forms
  <2>1. /\ writer' \in [mode : {"none", "text", "binary"}, error : BOOLEAN,
                       buffer : Seq(Pieces)]
        /\ writer'.mode = writer.mode /\ writer'.error = stored /\ writer'.buffer = <<>>
    <3>1. writer \in [mode : {"none", "text", "binary"}, error : BOOLEAN, buffer : Seq(Pieces)]
      BY DEF Typed
    <3>2. <<>> \in Seq(Pieces)
      OBVIOUS
    <3>3. QED
      BY <1>2, <3>1, <3>2
  <2>2. OneForm'
    BY <1>2, <2>1 DEF OneForm
  <2>3. QED
    BY <1>2, <2>1, <2>2
<1>3. QED
  BY <1>1, <1>2 DEF TryWrite

\* Then the destination has a beginning of the text, and all it had before.
LEMMA TryWriteWhole ==
  ASSUME Typed, OneForm, NEW pending \in Seq(Pieces), NEW stored \in BOOLEAN,
         TryWrite(pending, stored),
         NEW r \in Seq(Pieces), NEW text \in Seq(Pieces), dest \o (pending \o r) = text
  PROVE  /\ dest' \in Seq(Pieces)
         /\ IsPrefix(dest', text)
         /\ \A b \in Seq(Pieces) : IsPrefix(b, dest) => IsPrefix(b, dest')
         /\ ~broken' => dest' \o (<<>> \o r) = text
<1>0. dest \in Seq(Pieces)
  BY DEF Typed
<1>1. CASE dest' = dest \o pending /\ broken' = broken /\ ~writer'.error
  <2>1. /\ dest \o pending \in Seq(Pieces)
        /\ (dest \o pending) \o (<<>> \o r) = dest \o (pending \o r)
        /\ IsPrefix(dest \o pending, dest \o (pending \o r))
    BY <1>0, PartMoves
  <2>2. \A b \in Seq(Pieces) : IsPrefix(b, dest) => IsPrefix(b, dest \o pending)
    BY <1>0, PrefixLonger
  <2>3. QED
    BY <1>1, <2>1, <2>2
<1>2. CASE broken' /\ \E n \in 0 .. Len(pending) : dest' = dest \o SubSeq(pending, 1, n)
  <2>1. PICK n \in 0 .. Len(pending) : dest' = dest \o SubSeq(pending, 1, n)
    BY <1>2
  <2> DEFINE u == SubSeq(pending, 1, n)
  <2>2. u \in Seq(Pieces)
    BY PrefixWithin
  <2>3. dest \o u \in Seq(Pieces) /\ IsPrefix(dest \o u, dest \o (pending \o r))
    BY <1>0, BeginningMoves
  <2> HIDE DEF u
  <2>4. \A b \in Seq(Pieces) : IsPrefix(b, dest) => IsPrefix(b, dest \o u)
    BY <1>0, <2>2, PrefixLonger
  <2>5. dest' = dest \o u
    BY <2>1 DEF u
  <2>6. QED
    BY <1>2, <2>3, <2>4, <2>5
<1>3. QED
  BY <1>1, <1>2, TryWriteTakes

(***************************************************************************)
(* One lemma for each action.                                              *)
(***************************************************************************)
LEMMA InitInv == Init => IInv
<1> SUFFICES ASSUME Init PROVE IInv
  OBVIOUS
<1>1. pulled \in Seq(Docs) /\ Len(pulled) \in Nat
  <2>1. CASE \E d \in Docs : pulled = <<d>>
    BY <2>1
  <2>2. CASE pulled = <<>>
    BY <2>2
  <2>3. QED
    BY <2>1, <2>2 DEF Init
<1>2. Typed
  <2>1. <<>> \in Seq(Pieces) /\ Len(<<>>) = 0
    OBVIOUS
  <2>2. writer \in [mode : {"none", "text", "binary"}, error : BOOLEAN, buffer : Seq(Pieces)]
        /\ writer.buffer = <<>>
    BY <2>1 DEF Init
  <2>3. Len(writer.buffer) < Capacity
    BY <2>1, <2>2, DumpStreamConstants
  <2>4. drained \in BOOLEAN /\ at \in Nat /\ at <= Len(pulled)
    <3>1. drained \in BOOLEAN
      BY Zenon DEF Init
    <3>2. at = 0
      BY DEF Init
    <3>3. QED
      BY <1>1, <3>1, <3>2
  <2>5. QED
    BY <1>1, <2>1, <2>2, <2>3, <2>4 DEF Init, Typed
<1>3. Settled /\ OneForm /\ Control /\ Before
  BY DEF Init, Settled, OneForm, Control, Before
<1>4. Whole
  <2>1. TextOf(at) = <<>> /\ dest = <<>> /\ writer.buffer = <<>> /\ rest = <<>>
    BY NoText DEF Init
  <2>2. IsPrefix(<<>>, <<>>)
    BY DEF IsPrefix
  <2>3. <<>> \o (<<>> \o <<>>) = <<>>
    OBVIOUS
  <2>4. QED
    BY <2>1, <2>2, <2>3 DEF Whole
<1>5. QED
  BY <1>2, <1>3, <1>4 DEF IInv

LEMMA PullInv == IInv /\ Pull => IInv'
<1> SUFFICES ASSUME IInv, Pull PROVE IInv'
  OBVIOUS
<1>0. /\ UNCHANGED <<api, at, rest, writer, dest, forms, broken>>
      /\ pc = "pull" /\ ~EnoughPulled
  BY DEF Pull, receiving
<1>1. CASE \E d \in Docs : pulled' = Append(pulled, d) /\ UNCHANGED <<drained, pc, outcome>>
  <2>1. PICK d \in Docs : pulled' = Append(pulled, d)
    BY <1>1
  <2>2. /\ pulled \in Seq(Docs) /\ Len(pulled) \in Nat
        /\ pulled' \in Seq(Docs) /\ Len(pulled') = Len(pulled) + 1
    BY <2>1, AppendProperties DEF IInv, Typed
  <2>3. ~drained /\ (at > 0 => Len(pulled) > 1)
    BY <1>0 DEF IInv, Settled, Multiple, EnoughPulled
  <2>4. TextOf(at)' = TextOf(at) /\ (at > 0 => TextOf(at - 1)' = TextOf(at - 1))
    <3>1. at \in Nat /\ at <= Len(pulled)
      BY DEF IInv, Typed
    <3>2. \A n \in 0 .. at : TextOf(n)' = TextOf(n)
      BY <2>1, <2>2, <2>3, <3>1, TextKept
    <3>3. at \in 0 .. at /\ (at > 0 => at - 1 \in 0 .. at)
      BY <3>1
    <3>4. TextOf(at)' = [n \in 0 .. at |-> TextOf(n)'][at]
      BY <1>0, <3>3 DEF TextOf
    <3>5. at > 0 => TextOf(at - 1)' = [n \in 0 .. at |-> TextOf(n)'][at - 1]
      BY <1>0, <3>3 DEF TextOf
    <3>6. QED
      BY <3>2, <3>3, <3>4, <3>5
  <2>5. Typed'
    BY <1>0, <1>1, <2>2 DEF IInv, Typed
  <2>6. Settled'
    BY <1>0, <2>2, <2>3 DEF Settled, Multiple
  <2>7. OneForm' /\ Whole' /\ Control' /\ Before'
    BY <1>0, <1>1, <2>4 DEF IInv, OneForm, Whole, Control, Before
  <2>8. QED
    BY <2>5, <2>6, <2>7 DEF IInv
<1>2. CASE UNCHANGED pulled /\ drained' \in BOOLEAN /\ (drained => drained')
           /\ (UNCHANGED <<pc, outcome>> \/ Exit("iterable"))
  <2>1. TextOf(at)' = TextOf(at) /\ TextOf(at - 1)' = TextOf(at - 1)
    BY <1>0, <1>2, TextSame
  <2>2. Typed'
    BY <1>0, <1>2 DEF IInv, Typed, Exit
  <2>3. Settled'
    BY <1>0, <1>2 DEF IInv, Settled, Multiple
  <2>4. OneForm' /\ Whole' /\ Control' /\ Before'
    BY <1>0, <1>2, <2>1 DEF IInv, OneForm, Whole, Control, Before, Exit
  <2>5. QED
    BY <2>2, <2>3, <2>4 DEF IInv
<1>3. \/ \E d \in Docs : pulled' = Append(pulled, d) /\ UNCHANGED <<drained, pc, outcome>>
      \/ drained' = TRUE /\ UNCHANGED <<pulled, pc, outcome>>
      \/ Exit("iterable") /\ UNCHANGED <<pulled, drained>>
  BY DEF Pull, pulling
<1>4. drained \in BOOLEAN
  BY DEF IInv, Typed
<1>5. QED
  BY <1>1, <1>2, <1>3, <1>4

LEMMA ConvertInv == IInv /\ Convert => IInv'
<1> SUFFICES ASSUME IInv, Convert PROVE IInv'
  OBVIOUS
<1>0. /\ UNCHANGED <<api, pulled, drained, writer, dest, forms, broken>>
      /\ pc = "pull" /\ EnoughPulled /\ Len(pulled) > at
      /\ rest = <<>> /\ writer.buffer = <<>> /\ ~broken /\ outcome = "none"
      /\ at \in Nat /\ Len(pulled) \in Nat /\ pulled \in Seq(Docs) /\ dest \in Seq(Pieces)
  BY DEF Convert, pulling, receiving, IInv, Control, Typed
<1>1. dest = TextOf(at)
  <2>1. dest \o (<<>> \o <<>>) = dest
    BY <1>0
  <2>2. QED
    BY <1>0, <2>1 DEF IInv, Whole
<1>2. CASE pulled[at + 1].convertible
  <2>1. at' = at + 1 /\ rest' = Fragments(at + 1) /\ pc' = "emit" /\ outcome' = outcome
    BY <1>2 DEF Convert
  <2>2. /\ Fragments(at + 1) \in Seq(Pieces)
        /\ TextOf(at + 1) = TextOf(at) \o Fragments(at + 1)
    BY <1>0, TextStep
  <2>3. TextOf(at)' = TextOf(at + 1) /\ TextOf(at - 1)' = TextOf(at)
    <3>1. (at + 1) - 1 = at
      BY <1>0
    <3>2. QED
      BY <1>0, <2>1, <3>1, TextSame
  <2>4. Typed'
    BY <1>0, <2>1, <2>2 DEF IInv, Typed
  <2>5. Settled'
    <3>1. at = 0 => drained \/ Len(pulled) > 1
      <4>1. at = 0 => drained \/ Len(pulled) = 2
        BY <1>0, Zenon DEF EnoughPulled
      <4>2. QED
        BY <4>1
    <3>2. at > 0 => drained \/ Len(pulled) > 1
      BY DEF IInv, Settled, Multiple
    <3>3. drained \/ Len(pulled) > 1
      BY <1>0, <3>1, <3>2
    <3>4. QED
      BY <1>0, <3>3 DEF Settled, Multiple
  <2>6. Whole'
    <3>1. <<>> \o Fragments(at + 1) = Fragments(at + 1)
      BY <2>2
    <3>2. IsPrefix(dest, dest \o Fragments(at + 1))
      BY <1>0, <2>2, PrefixOfConcat
    <3>3. QED
      BY <1>0, <1>1, <2>1, <2>2, <2>3, <3>1, <3>2 DEF Whole
  <2>7. Before'
    <3>1. IsPrefix(dest, dest)
      BY <1>0, PrefixIs
    <3>2. QED
      BY <1>0, <1>1, <2>3, <3>1 DEF Before
  <2>8. OneForm' /\ Control'
    BY <1>0, <2>1 DEF IInv, OneForm, Control
  <2>9. QED
    BY <2>4, <2>5, <2>6, <2>7, <2>8 DEF IInv
<1>3. CASE ~pulled[at + 1].convertible
  <2>1. Exit("conversion") /\ UNCHANGED <<at, rest>>
    BY <1>3 DEF Convert
  <2>2. TextOf(at)' = TextOf(at) /\ TextOf(at - 1)' = TextOf(at - 1)
    BY <1>0, <2>1, TextSame
  <2>3. Typed'
    BY <1>0, <2>1 DEF IInv, Typed, Exit
  <2>4. Settled' /\ OneForm' /\ Whole' /\ Control' /\ Before'
    BY <1>0, <2>1, <2>2 DEF IInv, Settled, Multiple, OneForm, Whole, Control, Before, Exit
  <2>5. QED
    BY <2>3, <2>4 DEF IInv
<1>4. QED
  BY <1>2, <1>3

LEMMA AllWrittenInv == IInv /\ AllWritten => IInv'
<1> SUFFICES ASSUME IInv, AllWritten PROVE IInv'
  OBVIOUS
<1>0. /\ UNCHANGED <<api, pulled, drained, at, rest, writer, dest, forms, broken>>
      /\ pc = "pull" /\ Len(pulled) = at /\ Exit("ok")
  BY DEF AllWritten, pulling, receiving
<1>1. TextOf(at)' = TextOf(at) /\ TextOf(at - 1)' = TextOf(at - 1)
  BY <1>0, TextSame
<1>2. Typed'
  BY <1>0 DEF IInv, Typed, Exit
<1>3. Settled' /\ OneForm' /\ Whole' /\ Control' /\ Before'
  BY <1>0, <1>1 DEF IInv, Settled, Multiple, OneForm, Whole, Control, Before, Exit
<1>4. QED
  BY <1>2, <1>3 DEF IInv

LEMMA WriteStrInv == IInv /\ WriteStr => IInv'
<1> SUFFICES ASSUME IInv, WriteStr PROVE IInv'
  OBVIOUS
<1> DEFINE filled == Append(writer.buffer, Head(rest))
<1>0. /\ UNCHANGED <<api, pulled, drained, at, pc, outcome>>
      /\ pc = "emit" /\ rest # <<>>
      /\ at \in Nat /\ Len(pulled) \in Nat /\ pulled \in Seq(Docs) /\ dest \in Seq(Pieces)
      /\ rest \in Seq(Pieces) /\ writer.buffer \in Seq(Pieces) /\ at <= Len(pulled)
  BY DEF WriteStr, pulling, IInv, Typed
<1>1. TextOf(at)' = TextOf(at) /\ TextOf(at - 1)' = TextOf(at - 1)
  BY <1>0, TextSame
<1>2. TextOf(at) \in Seq(Pieces) /\ (at > 0 => TextOf(at - 1) \in Seq(Pieces))
  <2>1. at > 0 => at - 1 \in Nat /\ at - 1 <= Len(pulled)
    BY <1>0
  <2>2. QED
    BY <1>0, <2>1, TextType
<1>3. /\ filled \in Seq(Pieces) /\ Tail(rest) \in Seq(Pieces)
      /\ filled \o Tail(rest) = writer.buffer \o rest
  BY <1>0, HeadTailMoves
<1>4. CASE writer.error
  <2>1. rest' = <<>> /\ UNCHANGED <<writer, dest, forms, broken>>
    BY <1>4 DEF WriteStr, receiving
  <2>2. broken
    BY <1>4 DEF IInv, Control
  <2>3. Typed'
    BY <1>0, <2>1 DEF IInv, Typed
  <2>4. Settled' /\ OneForm' /\ Whole' /\ Control' /\ Before'
    BY <1>0, <1>1, <2>1, <2>2 DEF IInv, Settled, Multiple, OneForm, Whole, Control, Before
  <2>5. QED
    BY <2>3, <2>4 DEF IInv
<1>5. CASE ~writer.error /\ Len(filled) < Capacity
  <2>1. rest' = Tail(rest) /\ writer' = [writer EXCEPT !.buffer = filled]
        /\ UNCHANGED <<dest, forms, broken>>
    BY <1>5 DEF WriteStr, receiving
  <2>2. /\ writer' \in [mode : {"none", "text", "binary"}, error : BOOLEAN,
                       buffer : Seq(Pieces)]
        /\ writer'.mode = writer.mode /\ writer'.error = writer.error
        /\ writer'.buffer = filled
    BY <1>3, <2>1 DEF IInv, Typed
  <2>3. Typed'
    BY <1>0, <1>3, <1>5, <2>1, <2>2 DEF IInv, Typed
  <2>4. Whole'
    BY <1>0, <1>1, <1>3, <2>1, <2>2 DEF IInv, Whole
  <2>5. Settled' /\ OneForm' /\ Control' /\ Before'
    BY <1>0, <1>1, <2>1, <2>2 DEF IInv, Settled, Multiple, OneForm, Control, Before
  <2>6. QED
    BY <2>3, <2>4, <2>5 DEF IInv
<1>6. CASE ~writer.error /\ ~(Len(filled) < Capacity)
  <2>1. rest' = Tail(rest) /\ TryWrite(filled, TRUE)
    BY <1>6 DEF WriteStr
  <2>2. ~broken
    BY <1>0, <1>6 DEF IInv, Control
  <2>3. dest \o (filled \o Tail(rest)) = TextOf(at)
    BY <1>3, <2>2 DEF IInv, Whole
  <2> HIDE DEF filled
  <2>4. /\ writer' \in [mode : {"none", "text", "binary"}, error : BOOLEAN,
                         buffer : Seq(Pieces)]
        /\ writer'.buffer = <<>> /\ broken' \in BOOLEAN /\ OneForm'
        /\ writer'.error <=> broken'
    BY <1>3, <2>1, <2>2, TryWriteTakes DEF IInv
  <2>5. /\ dest' \in Seq(Pieces)
        /\ IsPrefix(dest', TextOf(at))
        /\ \A b \in Seq(Pieces) : IsPrefix(b, dest) => IsPrefix(b, dest')
        /\ ~broken' => dest' \o (<<>> \o Tail(rest)) = TextOf(at)
    BY <1>2, <1>3, <2>1, <2>3, TryWriteWhole DEF IInv
  <2>6. Typed'
    BY <1>0, <1>3, <2>1, <2>4, <2>5, DumpStreamConstants DEF IInv, Typed
  <2>7. Whole'
    BY <1>1, <2>1, <2>4, <2>5 DEF Whole
  <2>8. Before'
    BY <1>0, <1>1, <1>2, <2>5 DEF IInv, Before
  <2>9. Settled' /\ Control'
    BY <1>0, <2>4 DEF IInv, Settled, Multiple, Control
  <2>10. QED
    BY <2>4, <2>6, <2>7, <2>8, <2>9 DEF IInv
<1>7. QED
  BY <1>4, <1>5, <1>6

LEMMA FinishInv == IInv /\ Finish => IInv'
<1> SUFFICES ASSUME IInv, Finish PROVE IInv'
  OBVIOUS
<1>0. /\ UNCHANGED <<api, pulled, drained, at, rest>>
      /\ pc = "emit" /\ rest = <<>> /\ at > 0
      /\ at \in Nat /\ Len(pulled) \in Nat /\ pulled \in Seq(Docs) /\ dest \in Seq(Pieces)
      /\ writer.buffer \in Seq(Pieces) /\ at <= Len(pulled)
  BY DEF Finish, pulling, IInv, Typed, Control
<1>1. TextOf(at)' = TextOf(at) /\ TextOf(at - 1)' = TextOf(at - 1)
  BY <1>0, TextSame
<1>2. TextOf(at) \in Seq(Pieces) /\ TextOf(at - 1) \in Seq(Pieces)
  <2>1. at - 1 \in Nat /\ at - 1 <= Len(pulled)
    BY <1>0
  <2>2. QED
    BY <1>0, <2>1, TextType
<1>3. CASE writer.error
  <2>1. writer' = [writer EXCEPT !.error = FALSE] /\ Exit("write")
        /\ UNCHANGED <<dest, forms, broken>>
    BY <1>3 DEF Finish, receiving
  <2>2. broken
    BY <1>3 DEF IInv, Control
  <2>3. /\ writer' \in [mode : {"none", "text", "binary"}, error : BOOLEAN,
                       buffer : Seq(Pieces)]
        /\ writer'.mode = writer.mode /\ writer'.buffer = writer.buffer /\ ~writer'.error
    BY <2>1 DEF IInv, Typed
  <2>4. Typed'
    BY <1>0, <2>1, <2>3 DEF IInv, Typed, Exit
  <2>5. Settled' /\ OneForm' /\ Whole' /\ Control' /\ Before'
    BY <1>0, <1>1, <2>1, <2>2, <2>3
    DEF IInv, Settled, Multiple, OneForm, Whole, Control, Before, Exit
  <2>6. QED
    BY <2>4, <2>5 DEF IInv
<1>4. CASE ~writer.error /\ writer.buffer = <<>>
  <2>1. pc' = "pull" /\ UNCHANGED <<writer, dest, forms, broken, outcome>>
    BY <1>4 DEF Finish, receiving
  <2>2. Typed'
    BY <1>0, <2>1 DEF IInv, Typed
  <2>3. Settled' /\ OneForm' /\ Whole' /\ Control' /\ Before'
    BY <1>0, <1>1, <1>4, <2>1 DEF IInv, Settled, Multiple, OneForm, Whole, Control, Before
  <2>4. QED
    BY <2>2, <2>3 DEF IInv
<1>5. CASE ~writer.error /\ writer.buffer # <<>>
  <2>1. TryWrite(writer.buffer, FALSE)
        /\ IF broken' THEN Exit("write") ELSE pc' = "pull" /\ UNCHANGED outcome
    BY <1>5 DEF Finish
  <2>2. ~broken /\ dest \o (writer.buffer \o <<>>) = TextOf(at)
    BY <1>0, <1>5 DEF IInv, Control, Whole
  <2>3. /\ writer' \in [mode : {"none", "text", "binary"}, error : BOOLEAN,
                         buffer : Seq(Pieces)]
        /\ writer'.buffer = <<>> /\ broken' \in BOOLEAN /\ OneForm' /\ ~writer'.error
    BY <1>0, <2>1, <2>2, TryWriteTakes DEF IInv
  <2>4. /\ dest' \in Seq(Pieces)
        /\ IsPrefix(dest', TextOf(at))
        /\ \A b \in Seq(Pieces) : IsPrefix(b, dest) => IsPrefix(b, dest')
        /\ ~broken' => dest' \o (<<>> \o <<>>) = TextOf(at)
    <3> DEFINE buf == writer.buffer
               text == TextOf(at)
    <3>0. Typed /\ OneForm
      BY DEF IInv
    <3>1. /\ buf \in Seq(Pieces) /\ rest \in Seq(Pieces) /\ text \in Seq(Pieces)
          /\ dest \o (buf \o rest) = text
          /\ TryWrite(buf, FALSE)
      BY <1>0, <1>2, <2>1, <2>2 DEF IInv, Typed
    <3> HIDE DEF buf, text
    <3>2. /\ dest' \in Seq(Pieces)
          /\ IsPrefix(dest', text)
          /\ \A b \in Seq(Pieces) : IsPrefix(b, dest) => IsPrefix(b, dest')
          /\ ~broken' => dest' \o (<<>> \o rest) = text
      BY <3>0, <3>1, TryWriteWhole
    <3> USE DEF text
    <3>3. QED
      BY <1>0, <3>2
  <2>5. outcome = "none" /\ (pc' = "pull" \/ pc' = "returned")
    BY <1>0, <2>1 DEF IInv, Control, Exit
  <2>6. Typed'
    BY <1>0, <2>1, <2>3, <2>4, DumpStreamConstants DEF IInv, Typed, Exit
  <2>7. Whole'
    BY <1>0, <1>1, <2>3, <2>4 DEF Whole
  <2>8. Before'
    BY <1>0, <1>1, <1>2, <2>4 DEF IInv, Before
  <2>9. Settled' /\ Control'
    BY <1>0, <2>1, <2>3, <2>5 DEF IInv, Settled, Multiple, Control, Exit
  <2>10. QED
    BY <2>3, <2>6, <2>7, <2>8, <2>9 DEF IInv
<1>6. QED
  BY <1>3, <1>4, <1>5

LEMMA NextInv == IInv /\ [Next]_vars => IInv'
<1> SUFFICES ASSUME IInv, [Next]_vars PROVE IInv'
  OBVIOUS
<1>1. CASE UNCHANGED vars
  <2>1. UNCHANGED <<api, pulled, drained, at, rest, writer, dest, forms, broken, pc, outcome>>
    BY <1>1 DEF vars, pulling, receiving
  <2>2. TextOf(at)' = TextOf(at) /\ TextOf(at - 1)' = TextOf(at - 1)
    BY <2>1, TextSame
  <2>3. QED
    BY <2>1, <2>2 DEF IInv, Typed, Settled, Multiple, OneForm, Whole, Control, Before
<1>2. QED
  BY <1>1, PullInv, ConvertInv, AllWrittenInv, WriteStrInv, FinishInv DEF Next

LEMMA InvHolds == Spec => []IInv
BY InitInv, NextInv, PTL DEF Spec

(***************************************************************************)
(* The theorems.                                                           *)
(***************************************************************************)
\* Every variable has its type; the writer's buffer stays below what fills it.
THEOREM TypeCorrect == Spec => []TypeOK
<1>1. IInv => TypeOK
  <2> SUFFICES ASSUME IInv PROVE TypeOK
    OBVIOUS
  <2>1. Len(pulled) \in Nat
    BY DEF IInv, Typed
  <2>2. QED
    BY <2>1 DEF IInv, Typed, OneForm, TypeOK, Pieces
<1>2. QED
  BY <1>1, InvHolds, PTL

\* Until a write raises, every fragment is received, in the buffer or still to be
\* emitted, in the order of the text; and one form only is written (PyStreamWriter).
THEOREM FragmentsAreKept == Spec => []NoFragmentLost
<1>1. IInv => NoFragmentLost
  <2> SUFFICES ASSUME IInv PROVE NoFragmentLost
    OBVIOUS
  <2>1. forms # {"text", "binary"}
    BY DEF IInv, OneForm
  <2>2. (dest \o writer.buffer) \o rest = dest \o (writer.buffer \o rest)
    BY ConcatAssociative DEF IInv, Typed
  <2>3. QED
    BY <2>1, <2>2 DEF IInv, Whole, NoFragmentLost
<1>2. QED
  BY <1>1, InvHolds, PTL

\* A dump_all that fails leaves all of the earlier documents in the destination, and
\* nothing of one that could not be converted (do_dump_all).
THEOREM FailureKeepsDocuments == Spec => []EarlierDocumentsRemain
<1>1. IInv => EarlierDocumentsRemain
  <2> SUFFICES ASSUME IInv PROVE EarlierDocumentsRemain
    OBVIOUS
  <2>1. ASSUME outcome \in {"conversion", "iterable"} PROVE dest = TextOf(at)
    <3>1. dest \o (<<>> \o <<>>) = TextOf(at) /\ dest \in Seq(Pieces)
      BY <2>1 DEF IInv, Typed, Control, Whole
    <3>2. QED
      BY <3>1
  <2>2. ASSUME outcome = "write" PROVE at > 0 /\ IsPrefix(TextOf(at - 1), dest)
    BY <2>2 DEF IInv, Control, Before
  <2>3. QED
    BY <2>1, <2>2 DEF EarlierDocumentsRemain
<1>2. QED
  BY <1>1, InvHolds, PTL

\* When there are several documents, the text holds the marker of each (do_dump_all).
LEMMA MarkersAreThere ==
  ASSUME pulled \in Seq(Docs), Multiple, NEW n \in Nat, n <= Len(pulled), NEW i \in 1 .. n
  PROVE  Contains(TextOf(n), <<i, 0>>)
<1> DEFINE D == {m \in Nat : m <= Len(pulled) =>
                   \A k \in 1 .. m : Contains(TextOf(m), <<k, 0>>)}
<1>0. Len(pulled) \in Nat
  OBVIOUS
<1>1. 0 \in D
  OBVIOUS
<1>2. ASSUME NEW m \in D PROVE m + 1 \in D
  <2>1. m \in Nat /\ m + 1 \in Nat
    OBVIOUS
  <2> SUFFICES ASSUME m + 1 <= Len(pulled), NEW k \in 1 .. m + 1
               PROVE  Contains(TextOf(m + 1), <<k, 0>>)
    BY <2>1
  <2>2. m < Len(pulled) /\ m <= Len(pulled)
    BY <1>0, <2>1
  <2> DEFINE text == TextOf(m)
             more == Fragments(m + 1)
  <2>3. text \in Seq(Pieces) /\ more \in Seq(Pieces) /\ TextOf(m + 1) = text \o more
    BY <2>1, <2>2, TextStep
  <2>4. CASE k \in 1 .. m
    <3>1. Contains(text, <<k, 0>>)
      BY <2>2, <2>4
    <3> HIDE DEF text, more
    <3>2. PICK p \in 1 .. Len(text) : text[p] = <<k, 0>>
      BY <3>1 DEF Contains
    <3>3. p \in 1 .. Len(text \o more) /\ (text \o more)[p] = <<k, 0>>
      BY <2>3, <3>2, ConcatProperties
    <3>4. QED
      BY <2>3, <3>3 DEF Contains
  <2>5. CASE k = m + 1
    <3> DEFINE body == [j \in 1 .. pulled[m + 1].size |-> <<m + 1, j>>]
    <3>1. more = <<<<m + 1, 0>>>> \o body
      BY DEF Fragments, Marked
    <3>2. body \in Seq(Pieces)
      <4>1. m + 1 \in 1 .. Len(pulled)
        BY <1>0, <2>1, <2>2
      <4>2. pulled[m + 1] \in Docs
        BY <4>1
      <4>3. pulled[m + 1].size \in Nat
        BY <4>2, DumpStreamConstants DEF Docs
      <4>4. \A j \in 1 .. pulled[m + 1].size : <<m + 1, j>> \in Pieces
        BY <2>1, <4>3 DEF Pieces
      <4>5. QED
        BY <4>3, <4>4
    <3> HIDE DEF body, text
    <3>3. <<m + 1, 0>> \in Pieces
      BY <2>1 DEF Pieces
    <3>4. Len(more) >= 1 /\ more[1] = <<m + 1, 0>>
      BY <3>1, <3>2, <3>3
    <3> HIDE DEF more
    <3>5. /\ Len(text) + 1 \in 1 .. Len(text \o more)
          /\ (text \o more)[Len(text) + 1] = <<k, 0>>
      BY <2>3, <2>5, <3>4, ConcatProperties
    <3>6. QED
      BY <2>3, <3>5 DEF Contains
  <2>6. QED
    BY <2>1, <2>4, <2>5
<1> HIDE DEF D
<1>3. Nat \subseteq D
  BY <1>1, <1>2, InductionOverSet
<1>4. n \in D
  BY <1>3
<1>5. QED
  BY <1>4 DEF D

\* A dump that reports success has written all documents, each with its marker when there
\* are several, has nothing left in the buffer and has met no write that raised.
THEOREM SuccessMeansAll == Spec => []SuccessIsComplete
<1>1. IInv => SuccessIsComplete
  <2> SUFFICES ASSUME IInv, outcome = "ok"
               PROVE  /\ dest = TextOf(Len(pulled)) /\ writer.buffer = <<>> /\ ~broken
                      /\ Len(pulled) > 1 =>
                           \A i \in 1 .. Len(pulled) : Contains(dest, <<i, 0>>)
    BY DEF SuccessIsComplete
  <2>1. pulled \in Seq(Docs) /\ Len(pulled) \in Nat /\ dest \in Seq(Pieces)
    BY DEF IInv, Typed
  <2>2. writer.buffer = <<>> /\ rest = <<>> /\ ~broken /\ at = Len(pulled)
    BY DEF IInv, Control
  <2>3. dest = TextOf(at)
    <3>1. dest \o (<<>> \o <<>>) = TextOf(at)
      BY <2>2 DEF IInv, Whole
    <3>2. QED
      BY <2>1, <3>1
  <2>4. ASSUME Len(pulled) > 1, NEW i \in 1 .. Len(pulled)
        PROVE  Contains(TextOf(Len(pulled)), <<i, 0>>)
    <3>1. Multiple
      BY <2>4 DEF Multiple
    <3>2. QED
      BY <2>1, <3>1, MarkersAreThere
  <2>5. QED
    BY <2>2, <2>3, <2>4
<1>2. QED
  BY <1>1, InvHolds, PTL
=================================================================================
