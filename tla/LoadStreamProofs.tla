---------------------------- MODULE LoadStreamProofs ----------------------------
(***************************************************************************)
(* Loading from a stream, for every alphabet, every size of the chunks and *)
(* every stream.  The first part proves that an iterator which has raised  *)
(* the stream's error only ever stops.  The second proves that no byte is  *)
(* lost or decoded twice, and that the callers get whole documents: IInv   *)
(* says which documents the characters in tokens make, and where each of   *)
(* them is (delivered, in the builder, or open).                           *)
(***************************************************************************)
EXTENDS LoadStream, SequenceFacts

(***************************************************************************)
(* The stream's error is final.                                            *)
(***************************************************************************)
\* Nothing but Call is enabled when no call is running, and Call answers at once when
\* the iterator is done: so it suffices that the error has left the iterator done.
Inv == api = "iter" /\ "io" \in raised =>
         caller.done /\ ~caller.calling /\ answer \in {"io", "stop"}

LEMMA InitInv == Init => Inv
BY DEF Init, Inv

\* A turn of __next__ runs in a call, so no error of the stream was raised before it;
\* if it raises one it leaves the iterator done.
LEMMA IterTurnInv ==
  ASSUME NEW ev, api = "iter", api' = api, caller.calling, Inv, IterTurn(ev)
  PROVE  Inv'
<1>1. "io" \notin raised
  BY DEF Inv
<1>2. CASE ev.name = "Error"
  BY <1>1, <1>2 DEF IterTurn, Raise, Inv
<1>3. CASE ev.name # "Error" /\ slot
  BY <1>3 DEF IterTurn, Raise, Inv
<1>4. CASE ev.name # "Error" /\ ~slot
  <2>1. raised' = raised \/ raised' = raised \cup {"convert"}
    BY <1>4 DEF IterTurn, Stop, HandOver, calling
  <2>2. QED
    BY <1>1, <2>1 DEF Inv
<1>5. QED
  BY <1>2, <1>3, <1>4

LEMMA NextInv == Inv /\ [Next]_vars => Inv'
<1> SUFFICES ASSUME Inv, [Next]_vars PROVE Inv'
  OBVIOUS
<1>1. CASE Call
  BY <1>1 DEF Call, Inv
<1>2. CASE ReadChunk \/ TakeChar \/ MeetEnd
  BY <1>2 DEF ReadChunk, TakeChar, MeetEnd, calling, Inv
<1>3. CASE NextToken
  <2>1. api' = api /\ caller.calling
    BY <1>3 DEF NextToken
  <2>2. CASE api = "iter"
    BY <1>3, <2>1, <2>2, IterTurnInv DEF NextToken
  <2>3. CASE api # "iter"
    BY <2>1, <2>3 DEF Inv
  <2>4. QED
    BY <2>2, <2>3
<1>4. CASE UNCHANGED vars
  BY <1>4 DEF vars, calling, Inv
<1>5. QED
  BY <1>1, <1>2, <1>3, <1>4 DEF Next

\* The error ends the iteration: __next__ answers at once, and neither the stream nor
\* the documents parsed before the error are touched again (py_iter.rs).
THEOREM ErrorIsFinal == Spec => StreamErrorIsFinal
<1>1. Inv /\ Inv' /\ [Next]_vars =>
        [api = "iter" /\ "io" \in raised =>
           answer' \in {"io", "stop"} /\ UNCHANGED <<input, taken, delivered>>]_vars
  <2> SUFFICES ASSUME Inv, [Next]_vars, api = "iter", "io" \in raised
               PROVE  answer' \in {"io", "stop"} /\ UNCHANGED <<input, taken, delivered>>
    OBVIOUS
  <2>1. caller.done /\ ~caller.calling /\ answer \in {"io", "stop"}
    BY DEF Inv
  <2>2. ~(ReadChunk \/ TakeChar \/ MeetEnd \/ NextToken)
    BY <2>1 DEF ReadChunk, TakeChar, MeetEnd, NextToken, Starved
  <2>3. CASE Call
    BY <2>1, <2>3 DEF Call, reading, scanning
  <2>4. CASE UNCHANGED vars
    BY <2>1, <2>4 DEF vars, reading, scanning, calling
  <2>5. QED
    BY <2>2, <2>3, <2>4 DEF Next
<1>2. QED
  BY <1>1, InitInv, NextInv, PTL DEF Spec, StreamErrorIsFinal

C == DOMAIN Utf8
Octets == {"x", "-", "q", "l2", "l3", "c", "ff"}

(***************************************************************************)
(* Decoding.                                                               *)
(***************************************************************************)
LEMMA Utf8Type == \A c \in C : Utf8[c] \in Seq(Octets) /\ Utf8[c] # <<>>
<1>1. C = {"x", "-", "q", "e2", "e3"}
  BY DEF C, Utf8
<1>2. /\ Utf8["x"] = <<"x">> /\ Utf8["-"] = <<"-">> /\ Utf8["q"] = <<"q">>
      /\ Utf8["e2"] = <<"l2", "c">> /\ Utf8["e3"] = <<"l3", "c", "c">>
  BY DEF Utf8
<1>3. "x" \in Octets /\ "-" \in Octets /\ "q" \in Octets /\ "l2" \in Octets
      /\ "l3" \in Octets /\ "c" \in Octets
  BY DEF Octets
<1>4. \A i, j, k \in Octets : /\ <<i>> \in Seq(Octets) /\ <<i>> # <<>>
                             /\ <<i, j>> \in Seq(Octets) /\ <<i, j>> # <<>>
                             /\ <<i, j, k>> \in Seq(Octets) /\ <<i, j, k>> # <<>>
  OBVIOUS
<1> HIDE DEF C
<1>5. ASSUME NEW c \in C
      PROVE  \/ \E i \in Octets : Utf8[c] = <<i>>
             \/ \E i, j \in Octets : Utf8[c] = <<i, j>>
             \/ \E i, j, k \in Octets : Utf8[c] = <<i, j, k>>
  BY <1>1, <1>2, <1>3, Zenon
<1>6. QED
  BY <1>4, <1>5

LEMMA EncodeMore ==
  ASSUME NEW text \in Seq(C), NEW c \in C
  PROVE  /\ Encode(text) \in Seq(Octets)
         /\ Encode(Append(text, c)) = Encode(text) \o Utf8[c]
<1> DEFINE U(x) == Utf8[x]
           ss == [i \in DOMAIN text |-> U(text[i])]
           more == Append(text, c)
           tt == [i \in DOMAIN more |-> U(more[i])]
           n == Len(text)
<1>0. n \in Nat /\ DOMAIN text = 1 .. n /\ \A i \in 1 .. n : text[i] \in C
  OBVIOUS
<1>1. \A x \in C : U(x) \in Seq(Octets)
  BY Utf8Type
<1> HIDE DEF U
<1>2. /\ DOMAIN more = 1 .. n + 1 /\ more[n + 1] = c
      /\ \A i \in 1 .. n : more[i] = text[i]
  BY AppendProperties
<1> HIDE DEF n, more
<1>3. ss \in Seq(Seq(Octets)) /\ U(c) \in Seq(Octets) /\ Len(ss) = n
  BY <1>0, <1>1
<1>4. tt = Append(ss, U(c))
  <2> DEFINE F == [i \in 1 .. n + 1 |-> IF i = n + 1 THEN U(c) ELSE U(text[i])]
  <2>1. tt = F
    BY <1>0, <1>2
  <2>2. ss = [i \in 1 .. n |-> U(text[i])]
    BY <1>0
  <2>3. Append(ss, U(c)) = F
    BY <1>0, <2>2
  <2>4. QED
    BY <2>1, <2>3
<1> HIDE DEF ss, tt
<1>5. FlattenSeq(tt) = FlattenSeq(ss) \o U(c) /\ FlattenSeq(ss) \in Seq(Octets)
  BY <1>3, <1>4, FlattenSeqAppend, FlattenSeqType
<1>6. QED
  BY <1>5 DEF Encode, U, ss, tt, more

LEMMA EncodeType == \A text \in Seq(C) : Encode(text) \in Seq(Octets)
<1>1. "x" \in C
  BY DEF C, Utf8
<1>2. QED
  BY <1>1, EncodeMore

LEMMA EncodeNothing == Encode(<<>>) = <<>>
BY DEF Encode, FlattenSeq

LEMMA EncodeConcat ==
  ASSUME NEW s \in Seq(C), NEW t \in Seq(C)
  PROVE  Encode(s \o t) = Encode(s) \o Encode(t)
<1> DEFINE D == {u \in Seq(C) : Encode(s \o u) = Encode(s) \o Encode(u)}
<1>1. <<>> \in D
  <2>1. s \o <<>> = s /\ Encode(s) \o <<>> = Encode(s) /\ <<>> \in Seq(C)
    BY EncodeMore
  <2>2. QED
    BY <2>1, EncodeNothing
<1>2. ASSUME NEW u \in Seq(C), NEW c \in C, u \in D PROVE Append(u, c) \in D
  <2>1. s \o Append(u, c) = Append(s \o u, c) /\ s \o u \in Seq(C) /\ Append(u, c) \in Seq(C)
    OBVIOUS
  <2> DEFINE es == Encode(s)
             eu == Encode(u)
             ec == Utf8[c]
             su == s \o u
             uc == Append(u, c)
  <2>2. es \in Seq(Octets) /\ eu \in Seq(Octets) /\ ec \in Seq(Octets)
    BY EncodeMore, Utf8Type
  <2>3. Encode(uc) = eu \o ec
    BY EncodeMore
  <2>4. Encode(Append(su, c)) = Encode(su) \o ec
    <3> HIDE DEF su, ec
    <3>1. su \in Seq(C)
      BY <2>1 DEF su
    <3>2. QED
      BY <3>1, EncodeMore DEF ec
  <2>5. Encode(su) = es \o eu
    BY <1>2
  <2>6. s \o uc = Append(su, c)
    BY <2>1
  <2>7. uc \in Seq(C)
    BY <2>1
  <2> HIDE DEF es, eu, ec, su, uc
  <2>8. (es \o eu) \o ec = es \o (eu \o ec)
    <3>1. \A x, y, z \in Seq(Octets) : (x \o y) \o z = x \o (y \o z)
      BY ConcatAssociative
    <3>2. QED
      BY <2>2, <3>1, Zenon
  <2>9. Encode(s \o uc) = es \o Encode(uc)
    BY <2>3, <2>4, <2>5, <2>6, <2>8
  <2>10. QED
    BY <2>7, <2>9 DEF es, uc
<1> HIDE DEF D
<1>3. Seq(C) \subseteq D
  BY <1>1, <1>2, SequenceInduction
<1>4. QED
  BY <1>3 DEF D

\* Decoding loses nothing and makes nothing up.
LEMMA WithByteKeeps ==
  ASSUME NEW B, NEW sofar \in [text : Seq(C), rest : Seq(B)], NEW b \in B, B \subseteq Octets
  PROVE  /\ WithByte(sofar, b) \in [text : Seq(C), rest : Seq(B)]
         /\ Encode(WithByte(sofar, b).text) \o WithByte(sofar, b).rest =
              Append(Encode(sofar.text) \o sofar.rest, b)
<1> DEFINE t == sofar.text
           r == sofar.rest
           rest == Append(r, b)
           e == Encode(t)
<1>1. t \in Seq(C) /\ r \in Seq(B) /\ rest \in Seq(B)
  OBVIOUS
<1>2. e \in Seq(Octets) /\ r \in Seq(Octets) /\ b \in Octets
  <2>1. e \in Seq(Octets)
    BY <1>1, EncodeType
  <2> HIDE DEF e, r
  <2>2. r \in Seq(Octets)
    BY <1>1
  <2>3. QED
    BY <2>1, <2>2
<1>3. e \o rest = Append(e \o r, b)
  <2> HIDE DEF e, r
  <2>1. QED
    BY <1>2
<1>4. CASE \E c \in C : Utf8[c] = rest
  <2> DEFINE c == CHOOSE x \in C : Utf8[x] = rest
  <2>1. c \in C /\ Utf8[c] = rest
    BY <1>4
  <2>2. WithByte(sofar, b) = [text |-> Append(t, c), rest |-> <<>>]
    BY <1>4 DEF WithByte, C
  <2> HIDE DEF c
  <2>3. Append(t, c) \in Seq(C) /\ <<>> \in Seq(B)
    BY <1>1, <2>1
  <2>4. Encode(Append(t, c)) = e \o rest
    BY <1>1, <2>1, EncodeMore
  <2>5. (e \o rest) \o <<>> = e \o rest
    <3>1. e \o rest \in Seq(Octets)
      <4> HIDE DEF e
      <4>1. rest \in Seq(Octets)
        BY <1>2
      <4>2. QED
        BY <1>2, <4>1, ConcatProperties
    <3> HIDE DEF e, rest
    <3>2. QED
      BY <3>1
  <2>6. QED
    BY <1>3, <2>2, <2>3, <2>4, <2>5
<1>5. CASE ~\E c \in C : Utf8[c] = rest
  <2>1. WithByte(sofar, b) = [text |-> t, rest |-> rest]
    BY <1>5 DEF WithByte, C
  <2>2. QED
    BY <1>1, <1>3, <2>1
<1>6. QED
  BY <1>4, <1>5

LEMMA DecodeKeeps ==
  ASSUME NEW B, NEW bytes \in Seq(B), B \subseteq Octets
  PROVE  /\ Decode(bytes).text \in Seq(C) /\ Decode(bytes).rest \in Seq(B)
         /\ Encode(Decode(bytes).text) \o Decode(bytes).rest = bytes
<1> DEFINE V == [text : Seq(C), rest : Seq(B)]
           base == [text |-> <<>>, rest |-> <<>>]
           n == Len(bytes)
           Decodes(g) == g = [i \in 0 .. n |-> IF i = 0 THEN base ELSE WithByte(g[i - 1], bytes[i])]
           f == CHOOSE g : Decodes(g)
           D == {i \in Nat : i \in 0 .. n =>
                   f[i] \in V /\ Encode(f[i].text) \o f[i].rest = SubSeq(bytes, 1, i)}
<1>0. n \in Nat /\ base \in V /\ \A i \in 1 .. n : bytes[i] \in B
  OBVIOUS
<1>1. \A v \in V, b \in B :
        /\ WithByte(v, b) \in V
        /\ Encode(WithByte(v, b).text) \o WithByte(v, b).rest = Append(Encode(v.text) \o v.rest, b)
  BY WithByteKeeps
<1>a. n \in Nat /\ base \in V
  BY <1>0
<1>2. \E g : Decodes(g)
  <2> DEFINE T == [i \in 1 .. n |-> [v \in V |-> WithByte(v, bytes[i])]]
  <2>1. T \in [1 .. n -> [V -> V]]
    BY <1>0, <1>1
  <2>2. \A i \in 1 .. n, v \in V : T[i][v] = WithByte(v, bytes[i])
    OBVIOUS
  <2> HIDE DEF T, V, base, n
  <2> HIDE DEF Decodes, D
  <2>3. PICK g \in [0 .. n -> V] : Recursion(g, base, n, T)
    BY <1>a, <2>1, RecursionExists
  <2>4. \A i \in 0 .. n : g[i] = IF i = 0 THEN base ELSE WithByte(g[i - 1], bytes[i])
    <3> SUFFICES ASSUME NEW i \in 0 .. n, i # 0 PROVE g[i] = WithByte(g[i - 1], bytes[i])
      BY <2>3 DEF Recursion
    <3>1. i \in 1 .. n /\ i - 1 \in 0 .. n
      BY <1>0
    <3>2. QED
      BY <2>2, <2>3, <3>1 DEF Recursion
  <2> USE DEF Decodes
  <2>5. QED
    BY <2>4
<1>3. Decodes(f) /\ Decode(bytes) = f[n]
  BY <1>2 DEF Decode
<1> HIDE DEF f
<1>4. f[0] = base /\ \A i \in 1 .. n : f[i] = WithByte(f[i - 1], bytes[i])
  BY <1>0, <1>3
<1>5. 0 \in D
  <2>1. SubSeq(bytes, 1, 0) = <<>> /\ <<>> \o <<>> = <<>>
    OBVIOUS
  <2>2. f[0].text = <<>> /\ f[0].rest = <<>>
    BY <1>4
  <2>3. Encode(f[0].text) \o f[0].rest = SubSeq(bytes, 1, 0)
    BY <2>1, <2>2, EncodeNothing
  <2>4. f[0] \in V
    BY <1>0, <1>4
  <2> HIDE DEF V
  <2>5. QED
    BY <2>3, <2>4
<1>6. ASSUME NEW i \in Nat, i \in D PROVE i + 1 \in D
  <2> HIDE DEF V
  <2>0. i + 1 \in Nat
    OBVIOUS
  <2> SUFFICES ASSUME i + 1 \in 0 .. n
               PROVE  /\ f[i + 1] \in V
                      /\ Encode(f[i + 1].text) \o f[i + 1].rest = SubSeq(bytes, 1, i + 1)
    BY <2>0
  <2>1. i \in 0 .. n /\ i + 1 \in 1 .. n /\ (i + 1) - 1 = i
    BY <1>0
  <2>2. f[i] \in V /\ Encode(f[i].text) \o f[i].rest = SubSeq(bytes, 1, i)
    BY <1>6, <2>1
  <2>3. f[i + 1] = WithByte(f[i], bytes[i + 1]) /\ bytes[i + 1] \in B
    BY <1>0, <1>4, <2>1
  <2>4. SubSeq(bytes, 1, i + 1) = Append(SubSeq(bytes, 1, i), bytes[i + 1])
    BY <2>1
  <2> DEFINE v == f[i]
             b == bytes[i + 1]
             w == WithByte(v, b)
  <2>5. v \in V /\ b \in B
    BY <2>2, <2>3
  <2> HIDE DEF v, b
  <2>6. w \in V /\ Encode(w.text) \o w.rest = Append(Encode(v.text) \o v.rest, b)
    BY <1>1, <2>5
  <2>7. f[i + 1] = w
    BY <2>3 DEF v, b
  <2> HIDE DEF w
  <2>8. QED
    BY <2>2, <2>4, <2>6, <2>7 DEF v, b
<1> HIDE DEF D
<1>7. Nat \subseteq D
  BY <1>5, <1>6, InductionOverSet
<1>8. f[n] \in V /\ Encode(f[n].text) \o f[n].rest = SubSeq(bytes, 1, n)
  <2>1. n \in D /\ n \in 0 .. n
    BY <1>0, <1>7
  <2> HIDE DEF V, n
  <2>2. QED
    BY <2>1 DEF D
<1>9. SubSeq(bytes, 1, n) = bytes
  OBVIOUS
<1>10. QED
  BY <1>3, <1>8, <1>9

(***************************************************************************)
(* The documents of a text.                                                *)
(***************************************************************************)
LEMMA WithCharType ==
  ASSUME NEW d \in Seq(Seq(C)), NEW c \in C
  PROVE  /\ WithChar(d, c) \in Seq(Seq(C))
         /\ Len(d) <= Len(WithChar(d, c))
         /\ \A i \in 1 .. Len(d) - 1 : WithChar(d, c)[i] = d[i]
<1> DEFINE n == Len(d)
<1>0. n \in Nat /\ \A i \in 1 .. n : d[i] \in Seq(C)
  OBVIOUS
<1>1. CASE c = Marker
  <2>1. <<>> \in Seq(C)
    OBVIOUS
  <2>2. Append(d, <<>>) \in Seq(Seq(C)) /\ Len(Append(d, <<>>)) = n + 1
        /\ \A i \in 1 .. n : Append(d, <<>>)[i] = d[i]
    BY <2>1, AppendProperties
  <2>3. WithChar(d, c) = Append(d, <<>>)
    BY <1>1 DEF WithChar
  <2> HIDE DEF n
  <2>4. QED
    BY <1>0, <2>2, <2>3 DEF n
<1>2. CASE c # Marker /\ d = <<>>
  <2>1. <<c>> \in Seq(C)
    OBVIOUS
  <2>2. <<<<c>>>> \in Seq(Seq(C)) /\ Len(d) = 0
    BY <1>2, <2>1
  <2>3. WithChar(d, c) = <<<<c>>>>
    BY <1>2 DEF WithChar
  <2>4. QED
    BY <2>2, <2>3
<1>3. CASE c # Marker /\ d # <<>>
  <2> DEFINE last == Append(d[n], c)
             e == [d EXCEPT ![n] = last]
  <2>1. n \in 1 .. n /\ last \in Seq(C)
    BY <1>0, <1>3
  <2>2. e \in Seq(Seq(C)) /\ Len(e) = n /\ \A i \in 1 .. n - 1 : e[i] = d[i]
    <3> HIDE DEF last, n
    <3>1. Len(d) = n
      BY DEF n
    <3>2. QED
      BY <1>0, <2>1, <3>1, ExceptSeq
  <2>3. WithChar(d, c) = e
    BY <1>3 DEF WithChar
  <2> HIDE DEF e, n
  <2>4. QED
    BY <1>0, <2>2, <2>3 DEF n
<1>4. QED
  BY <1>1, <1>2, <1>3

\* f takes the characters one after the other.
Collects(f, text) ==
  f = [i \in 0 .. Len(text) |-> IF i = 0 THEN <<>> ELSE WithChar(f[i - 1], text[i])]

LEMMA DocumentsAre ==
  ASSUME NEW text \in Seq(C)
  PROVE  \E f : /\ Collects(f, text)
                /\ \A i \in 0 .. Len(text) : f[i] \in Seq(Seq(C))
                /\ DocumentsOf(text) = f[Len(text)]
<1> DEFINE V == Seq(Seq(C))
           n == Len(text)
           f == CHOOSE g : Collects(g, text)
           D == {i \in Nat : i \in 0 .. n => f[i] \in V}
<1>0. n \in Nat /\ \A i \in 1 .. n : text[i] \in C
  OBVIOUS
<1>1. \A v \in V, c \in C : WithChar(v, c) \in V
  BY WithCharType
<1>2. \E g : Collects(g, text)
  <2> DEFINE T == [i \in 1 .. n |-> [v \in V |-> WithChar(v, text[i])]]
  <2>1. T \in [1 .. n -> [V -> V]]
    BY <1>0, <1>1
  <2>2. \A i \in 1 .. n, v \in V : T[i][v] = WithChar(v, text[i])
    OBVIOUS
  <2>3. <<>> \in V /\ n \in Nat
    BY <1>0
  <2> HIDE DEF T, V, n, D
  <2>4. PICK g \in [0 .. n -> V] : Recursion(g, <<>>, n, T)
    BY <2>1, <2>3, RecursionExists
  <2>5. \A i \in 0 .. n : g[i] = IF i = 0 THEN <<>> ELSE WithChar(g[i - 1], text[i])
    <3> SUFFICES ASSUME NEW i \in 0 .. n, i # 0 PROVE g[i] = WithChar(g[i - 1], text[i])
      BY <2>4 DEF Recursion
    <3>1. i \in 1 .. n /\ i - 1 \in 0 .. n
      BY <1>0
    <3>2. QED
      BY <2>2, <2>4, <3>1 DEF Recursion
  <2>6. QED
    BY <2>5 DEF Collects, n
<1>3. Collects(f, text) /\ DocumentsOf(text) = f[n]
  BY <1>2 DEF DocumentsOf, Collects
<1> HIDE DEF f
<1>4. f[0] = <<>> /\ \A i \in 1 .. n : f[i] = WithChar(f[i - 1], text[i])
  BY <1>0, <1>3 DEF Collects
<1>5. <<>> \in V
  OBVIOUS
<1> HIDE DEF V, n
<1>6. 0 \in D
  BY <1>0, <1>4, <1>5
<1>7. ASSUME NEW i \in Nat, i \in D PROVE i + 1 \in D
  <2>1. i + 1 \in Nat
    OBVIOUS
  <2> SUFFICES ASSUME i + 1 \in 0 .. n PROVE f[i + 1] \in V
    BY <2>1
  <2>2. i \in 0 .. n /\ i + 1 \in 1 .. n /\ (i + 1) - 1 = i
    BY <1>0
  <2>3. f[i] \in V
    BY <1>7, <2>2
  <2>4. QED
    BY <1>0, <1>1, <1>4, <2>2, <2>3
<1> HIDE DEF D
<1>8. Nat \subseteq D
  BY <1>6, <1>7, InductionOverSet
<1>9. \A i \in 0 .. n : f[i] \in V
  BY <1>0, <1>8 DEF D
<1>10. QED
  BY <1>3, <1>9 DEF V, n

\* One character more.
LEMMA DocumentsMore ==
  ASSUME NEW text \in Seq(C), NEW c \in C
  PROVE  DocumentsOf(Append(text, c)) = WithChar(DocumentsOf(text), c)
<1> DEFINE n == Len(text)
           more == Append(text, c)
<1>0. n \in Nat /\ more \in Seq(C) /\ Len(more) = n + 1 /\ more[n + 1] = c
      /\ \A i \in 1 .. n : more[i] = text[i]
  BY AppendProperties
<1>1. PICK f : Collects(f, text) /\ DocumentsOf(text) = f[n]
  BY DocumentsAre
<1> HIDE DEF more
<1>2. PICK g : Collects(g, more) /\ DocumentsOf(more) = g[n + 1]
  BY <1>0, DocumentsAre
<1> DEFINE D == {i \in Nat : i \in 0 .. n => g[i] = f[i]}
<1>3. f[0] = <<>> /\ \A i \in 1 .. n : f[i] = WithChar(f[i - 1], text[i])
  BY <1>0, <1>1 DEF Collects
<1> HIDE DEF n
<1>4. g[0] = <<>> /\ \A i \in 1 .. n + 1 : g[i] = WithChar(g[i - 1], more[i])
  BY <1>0, <1>2 DEF Collects
<1>5. 0 \in D
  BY <1>3, <1>4
<1>6. ASSUME NEW i \in Nat, i \in D PROVE i + 1 \in D
  <2>1. i + 1 \in Nat
    OBVIOUS
  <2> SUFFICES ASSUME i + 1 \in 0 .. n PROVE g[i + 1] = f[i + 1]
    BY <2>1
  <2>2. i \in 0 .. n /\ i + 1 \in 1 .. n /\ i + 1 \in 1 .. n + 1 /\ (i + 1) - 1 = i
    BY <1>0
  <2>3. g[i] = f[i]
    BY <1>6, <2>2
  <2>4. QED
    BY <1>0, <1>3, <1>4, <2>2, <2>3
<1> HIDE DEF D
<1>7. Nat \subseteq D
  BY <1>5, <1>6, InductionOverSet
<1>8. g[n] = f[n]
  BY <1>0, <1>7 DEF D
<1>9. n + 1 \in 1 .. n + 1 /\ (n + 1) - 1 = n
  BY <1>0
<1>10. g[n + 1] = WithChar(g[n], c)
  BY <1>0, <1>4, <1>9
<1>11. QED
  BY <1>1, <1>2, <1>8, <1>10 DEF more

LEMMA NoDocuments == DocumentsOf(<<>>) = <<>>
<1>1. <<>> \in Seq(C) /\ Len(<<>>) = 0
  OBVIOUS
<1>2. PICK f : Collects(f, <<>>) /\ DocumentsOf(<<>>) = f[0]
  BY <1>1, DocumentsAre
<1>3. QED
  BY <1>1, <1>2 DEF Collects

LEMMA DocumentsType == \A text \in Seq(C) : DocumentsOf(text) \in Seq(Seq(C))
<1> TAKE text \in Seq(C)
<1>1. Len(text) \in 0 .. Len(text)
  OBVIOUS
<1>2. QED
  BY <1>1, DocumentsAre

\* What follows never takes a document away, and changes the last at most.
LEMMA DocumentsGrow ==
  ASSUME NEW s \in Seq(C), NEW t \in Seq(C)
  PROVE  /\ Len(DocumentsOf(s)) <= Len(DocumentsOf(s \o t))
         /\ \A i \in 1 .. Len(DocumentsOf(s)) - 1 : DocumentsOf(s \o t)[i] = DocumentsOf(s)[i]
<1> DEFINE d == DocumentsOf(s)
           Kept(e) == Len(d) <= Len(e) /\ \A i \in 1 .. Len(d) - 1 : e[i] = d[i]
           D == {u \in Seq(C) : Kept(DocumentsOf(s \o u))}
<1>1. d \in Seq(Seq(C)) /\ Len(d) \in Nat
  <2>1. d \in Seq(Seq(C))
    BY DocumentsType
  <2> HIDE DEF d
  <2>2. QED
    BY <2>1
<1> HIDE DEF d
<1>2. <<>> \in D
  <2>1. s \o <<>> = s /\ <<>> \in Seq(C)
    OBVIOUS
  <2>2. Kept(d)
    BY <1>1
  <2>3. QED
    BY <2>1, <2>2 DEF d
<1>3. ASSUME NEW u \in Seq(C), NEW c \in C, u \in D PROVE Append(u, c) \in D
  <2> DEFINE su == s \o u
             e == DocumentsOf(su)
             w == WithChar(e, c)
  <2>1. s \o Append(u, c) = Append(su, c) /\ su \in Seq(C) /\ Append(u, c) \in Seq(C)
    OBVIOUS
  <2> HIDE DEF su
  <2>2. e \in Seq(Seq(C)) /\ DocumentsOf(Append(su, c)) = w
    BY <2>1, DocumentsMore, DocumentsType
  <2>3. Kept(e)
    BY <1>3 DEF su
  <2> HIDE DEF e
  <2>4. w \in Seq(Seq(C)) /\ Len(e) <= Len(w) /\ \A i \in 1 .. Len(e) - 1 : w[i] = e[i]
    BY <2>2, WithCharType
  <2> HIDE DEF w
  <2>5. Len(e) \in Nat /\ Len(w) \in Nat
    BY <2>2, <2>4
  <2>6. Kept(w)
    BY <1>1, <2>3, <2>4, <2>5
  <2> HIDE DEF Kept
  <2>7. QED
    BY <2>1, <2>2, <2>6
<1> HIDE DEF D
<1>4. Seq(C) \subseteq D
  BY <1>2, <1>3, SequenceInduction
<1>5. QED
  BY <1>4 DEF D, d

\* Content goes to the last document, and makes the first.
LEMMA ContentGoes ==
  ASSUME NEW s \in Seq(C), NEW w \in Seq(C), \A i \in 1 .. Len(w) : w[i] # Marker
  PROVE  /\ \A g \in Seq(Seq(C)), o \in Seq(C) :
              DocumentsOf(s) = Append(g, o) => DocumentsOf(s \o w) = Append(g, o \o w)
         /\ DocumentsOf(s) = <<>> /\ w # <<>> => DocumentsOf(s \o w) = <<w>>
<1> DEFINE Content(u) == \A i \in 1 .. Len(u) : u[i] # Marker
           Goes(u) ==
             /\ \A g \in Seq(Seq(C)), o \in Seq(C) :
                  DocumentsOf(s) = Append(g, o) => DocumentsOf(s \o u) = Append(g, o \o u)
             /\ DocumentsOf(s) = <<>> /\ u # <<>> => DocumentsOf(s \o u) = <<u>>
           D == {u \in Seq(C) : Content(u) => Goes(u)}
<1>1. <<>> \in D
  <2>1. s \o <<>> = s /\ <<>> \in Seq(C) /\ \A o \in Seq(C) : o \o <<>> = o
    OBVIOUS
  <2>2. Goes(<<>>)
    BY <2>1
  <2> HIDE DEF Goes, Content
  <2>3. QED
    BY <2>1, <2>2
<1>2. ASSUME NEW u \in Seq(C), NEW c \in C, u \in D PROVE Append(u, c) \in D
  <2> DEFINE su == s \o u
             uc == Append(u, c)
  <2>1. s \o uc = Append(su, c) /\ su \in Seq(C) /\ uc \in Seq(C)
    OBVIOUS
  <2>a. uc \in Seq(C)
    BY <2>1
  <2> SUFFICES ASSUME Content(uc) PROVE Goes(uc)
    <3> HIDE DEF Goes, Content
    <3>1. QED
      BY <2>a
  <2>2. Content(u) /\ c # Marker
    <3>1. /\ Len(uc) = Len(u) + 1 /\ uc[Len(u) + 1] = c /\ Len(u) \in Nat
          /\ \A i \in 1 .. Len(u) : uc[i] = u[i]
      BY AppendProperties
    <3> HIDE DEF uc
    <3>2. QED
      BY <3>1
  <2>3. Goes(u)
    <3> HIDE DEF Goes, Content
    <3>1. QED
      BY <1>2, <2>2
  <2> DEFINE e == DocumentsOf(su)
  <2>4. DocumentsOf(s \o uc) = WithChar(e, c)
    <3> HIDE DEF su
    <3>1. QED
      BY <2>1, DocumentsMore
  <2>5. ASSUME NEW g \in Seq(Seq(C)), NEW o \in Seq(C), DocumentsOf(s) = Append(g, o)
        PROVE  DocumentsOf(s \o uc) = Append(g, o \o uc)
    <3> DEFINE ou == o \o u
               f == Append(g, ou)
    <3>1. e = f
      BY <2>3, <2>5
    <3>2. ou \in Seq(C) /\ o \o uc = Append(ou, c)
      OBVIOUS
    <3> HIDE DEF ou, e
    <3>3. f # <<>> /\ Len(f) = Len(g) + 1 /\ f[Len(g) + 1] = ou
      BY <3>2, AppendProperties
    <3>a. Append(ou, c) \in Seq(C)
      BY <3>2
    <3>4. WithChar(f, c) = [f EXCEPT ![Len(f)] = Append(@, c)]
      BY <2>2, <3>3 DEF WithChar
    <3>5. [f EXCEPT ![Len(f)] = Append(@, c)] = Append(g, Append(ou, c))
      <4> DEFINE o2 == Append(ou, c)
                 V == Seq(C)
      <4>1. ou \in V /\ o2 \in V /\ g \in Seq(V)
        BY <3>2, <3>a
      <4>2. f[Len(f)] = ou
        BY <3>3
      <4> HIDE DEF o2, V
      <4>3. [f EXCEPT ![Len(f)] = o2] = Append(g, o2)
        BY <4>1, LastReplaced
      <4>4. QED
        BY <4>2, <4>3 DEF o2
    <3>6. QED
      BY <2>4, <3>1, <3>2, <3>4, <3>5
  <2>6. ASSUME DocumentsOf(s) = <<>> PROVE DocumentsOf(s \o uc) = <<uc>>
    <3>1. CASE u = <<>>
      <4>1. su = s /\ uc = <<c>>
        BY <3>1
      <4>2. WithChar(<<>>, c) = <<<<c>>>>
        BY <2>2 DEF WithChar
      <4> HIDE DEF su, uc
      <4>3. QED
        BY <2>4, <2>6, <4>1, <4>2
    <3>2. CASE u # <<>>
      <4>1. e = <<u>>
        BY <2>3, <2>6, <3>2
      <4> HIDE DEF e
      <4>2. e # <<>> /\ WithChar(e, c) = [e EXCEPT ![Len(e)] = Append(@, c)]
        BY <2>2, <4>1 DEF WithChar
      <4>3. WithChar(e, c) = <<Append(u, c)>>
        BY <4>1, <4>2
      <4>4. QED
        BY <2>4, <4>3
    <3>3. QED
      BY <3>1, <3>2
  <2> HIDE DEF uc
  <2>7. QED
    BY <2>5, <2>6
<1> HIDE DEF D
<1>3. Seq(C) \subseteq D
  BY <1>1, <1>2, SequenceInduction
<1>4. QED
  BY <1>3 DEF D

\* A marker ahead completes the documents before it.
LEMMA MarkerCompletes ==
  ASSUME NEW s \in Seq(C), NEW t \in Seq(C), t # <<>>, t[1] = Marker
  PROVE  /\ IsPrefix(DocumentsOf(s), DocumentsOf(s \o t))
         /\ Len(DocumentsOf(s)) < Len(DocumentsOf(s \o t))
<1> DEFINE d == DocumentsOf(s)
           sm == Append(s, Marker)
           e == DocumentsOf(sm)
           st == s \o t
           tail == Tail(t)
           all == DocumentsOf(st)
           V == Seq(C)
<1>1. Marker \in C
  BY DEF Marker, C, Utf8
<1>2. sm \in Seq(C) /\ tail \in Seq(C) /\ st = sm \o tail /\ st \in Seq(C)
  <2>1. Head(t) = Marker
    OBVIOUS
  <2>2. QED
    BY <1>1, <2>1, HeadTailMoves
<1>3. d \in Seq(Seq(C)) /\ e = Append(d, <<>>)
  <2>1. e = WithChar(d, Marker)
    BY <1>1, DocumentsMore
  <2>2. QED
    BY <2>1, DocumentsType DEF WithChar
<1> HIDE DEF sm, tail, st
<1>4. Len(e) <= Len(all) /\ \A i \in 1 .. Len(e) - 1 : all[i] = e[i]
  BY <1>2, DocumentsGrow
<1>5. all \in Seq(V) /\ d \in Seq(V)
  BY <1>2, <1>3, DocumentsType
<1> HIDE DEF d, e, all
<1>6. Len(e) = Len(d) + 1 /\ \A i \in 1 .. Len(d) : e[i] = d[i]
  <2>1. <<>> \in Seq(C)
    OBVIOUS
  <2>2. QED
    BY <1>3, <2>1, AppendProperties
<1>7. Len(d) \in Nat /\ Len(all) \in Nat
  BY <1>3, <1>5
<1>8. Len(d) < Len(all) /\ \A i \in 1 .. Len(d) : d[i] = all[i]
  BY <1>4, <1>6, <1>7
<1> HIDE DEF V
<1>9. IsPrefix(d, all)
  BY <1>5, <1>7, <1>8, PrefixIs
<1>10. QED
  BY <1>8, <1>9 DEF d, all, st

\* The variables have their types.
Typed ==
  /\ api \in Apis /\ source \in Sources
  /\ reader \in [buf : Seq(C), pending : Seq(Bytes), mode : {"none", "text", "binary"},
                 done : BOOLEAN]
  /\ slot \in BOOLEAN
  /\ scanner \in [ahead : Seq(C), ended : BOOLEAN, failed : BOOLEAN]
  /\ parser \in {"between", "in", "end"}
  /\ builder \in [docs : Seq(Seq(C)), open : Seq(C)]
  /\ caller \in [calling : BOOLEAN, done : BOOLEAN]
  /\ answer \in {"none", "doc", "stop", "parse", "io", "convert"}
  /\ raised \subseteq {"parse", "io", "convert"}
  /\ input \in Seq(Octets) /\ taken \in Seq(C) /\ delivered \in Seq(Seq(C))

\* Every byte is in a character or pending; the reader has ended before the scanner has.
Reads ==
  /\ Encode(taken \o reader.buf) \o reader.pending = input
  /\ reader.done /\ ~slot /\ "io" \notin raised => reader.pending = <<>>
  /\ slot \/ "io" \in raised => reader.done
  /\ scanner.ended => reader.done /\ reader.buf = <<>>

\* The characters that are in tokens, and those that are not yet.
Consumed == SubSeq(taken, 1, Len(taken) - Len(scanner.ahead))

Pulled ==
  /\ Len(scanner.ahead) <= Len(taken)
  /\ Consumed \in Seq(C) /\ taken = Consumed \o scanner.ahead

AtMarker(ahead) == ahead # <<>> /\ ahead[1] = Marker
AtContent(ahead) == ahead # <<>> /\ ahead[1] # Marker

\* The documents d of the characters consumed are those delivered, those that the builder
\* has and the one it builds; a document that starts without a marker is open before its
\* first character is consumed.
Built(d, gone, b, p, ahead) ==
  \/ p # "in" /\ d = gone \o b.docs
  \/ p = "in" /\ d = Append(gone \o b.docs, b.open)
  \/ p = "in" /\ d = <<>> /\ gone = <<>> /\ b.docs = <<>> /\ b.open = <<>> /\ AtContent(ahead)

\* Between documents the last one is complete: a marker follows or the end.
Closed(d, p, ahead) ==
  p # "in" /\ d # <<>> => AtMarker(ahead) \/ (scanner.ended /\ ahead = <<>>)

\* What holds until the stream's error is raised.
Parsing ==
  /\ Built(DocumentsOf(Consumed), delivered, builder, parser, scanner.ahead)
  /\ Closed(DocumentsOf(Consumed), parser, scanner.ahead)
  /\ delivered # <<>> /\ parser # "in" /\ scanner.ahead = <<>> => ~slot
  /\ api # "all" => builder.docs = <<>>
  /\ api # "iter" /\ ~caller.done => delivered = <<>>

\* What holds for good once it is.
Broken ==
  /\ caller.done
  /\ IsPrefix(delivered, DocumentsOf(taken))
  /\ delivered # <<>> => Len(delivered) < Len(DocumentsOf(taken))
  /\ api # "all" =>
       Len(builder.docs) <= 1 /\ Len(DocumentsOf(Consumed)) <= Len(delivered) + 1

Calls ==
  /\ caller.done => ~caller.calling
  /\ IF "io" \in raised THEN Broken ELSE Parsing
  /\ caller.done /\ raised = {} /\ api # "first" =>
       /\ scanner.ended /\ scanner.ahead = <<>> /\ parser # "in"
       /\ ~slot /\ builder.docs = <<>>

IInv == Typed /\ Reads /\ Pulled /\ Calls

(***************************************************************************)
(* The events.                                                             *)
(***************************************************************************)
\* A closed quoted scalar holds no marker.
LEMMA QuoteHoldsNoMarker ==
  ASSUME NEW ahead \in Seq(C), ahead # <<>>, ahead[1] = Quote,
         Closing(ahead) # {}, ahead[Min(Closing(ahead))] # Marker
  PROVE  /\ Min(Closing(ahead)) \in 1 .. Len(ahead)
         /\ \A i \in 1 .. Min(Closing(ahead)) : ahead[i] # Marker
<1> DEFINE n == Len(ahead)
           m == Min(Closing(ahead))
<1>0. n \in Nat /\ n >= 1
  OBVIOUS
<1>1. Closing(ahead) \in SUBSET Nat
  BY DEF Closing
<1>2. m \in Closing(ahead) /\ \A k \in Closing(ahead) : m <= k
  BY <1>1, MinIs
<1>3. m \in 2 .. n
  BY <1>2 DEF Closing
<1>4. ASSUME NEW i \in 1 .. m, ahead[i] = Marker PROVE FALSE
  <2>1. i # 1
    BY <1>4 DEF Quote, Marker
  <2>2. i \in 2 .. n
    BY <1>0, <1>3, <2>1
  <2>3. i \in Closing(ahead)
    BY <1>4, <2>2 DEF Closing
  <2>4. i = m
    BY <1>2, <1>3, <2>2, <2>3
  <2>5. QED
    BY <1>4, <2>4
<1>5. QED
  BY <1>0, <1>3, <1>4

\* The token ahead, by kind.
LEMMA TokenIs ==
  ASSUME Typed, TokenReady
  PROVE  \/ HeadToken = [kind |-> "Error", size |-> 0]
         \/ /\ HeadToken = [kind |-> "StreamEnd", size |-> 0]
            /\ scanner.ended /\ scanner.ahead = <<>>
         \/ HeadToken = [kind |-> "DocumentStart", size |-> 1] /\ AtMarker(scanner.ahead)
         \/ \E n \in 1 .. Len(scanner.ahead) :
              /\ HeadToken = [kind |-> "Scalar", size |-> n]
              /\ \A i \in 1 .. n : scanner.ahead[i] # Marker
<1> DEFINE ahead == scanner.ahead
           closing == Closing(ahead)
           first == IF ahead = <<>> THEN "end" ELSE ahead[1]
           unclosed == first = Quote /\ (closing = {} \/ ahead[Min(closing)] = Marker)
<1>0. ahead \in Seq(C) /\ Len(ahead) \in Nat
  BY DEF Typed
<1>a. "end" # Quote /\ "end" # Marker /\ Quote # Marker
  BY DEF Quote, Marker
<1>1. CASE scanner.failed \/ unclosed
  <2>1. HeadToken = [kind |-> "Error", size |-> 0]
    BY <1>1, <1>a DEF HeadToken
  <2>2. QED
    BY <2>1
<1>2. CASE ~scanner.failed /\ first = "end"
  <2>1. ahead = <<>>
    <3>1. "end" \notin C
      BY DEF C, Utf8
    <3>2. ahead # <<>> => ahead[1] \in C
      BY <1>0
    <3>3. QED
      BY <1>2, <3>1, <3>2
  <2>2. scanner.ended
    BY <1>2, <2>1 DEF TokenReady, LookAhead
  <2>3. HeadToken = [kind |-> "StreamEnd", size |-> 0]
    BY <1>2, <1>a DEF HeadToken
  <2>4. QED
    BY <2>1, <2>2, <2>3
<1>3. CASE ~scanner.failed /\ first = Marker
  <2>1. HeadToken = [kind |-> "DocumentStart", size |-> 1]
    BY <1>3, <1>a DEF HeadToken
  <2>2. AtMarker(ahead)
    BY <1>3, <1>a DEF AtMarker
  <2>3. QED
    BY <2>1, <2>2
<1>4. CASE ~scanner.failed /\ first = Quote /\ ~unclosed
  <2>1. HeadToken = [kind |-> "Scalar", size |-> Min(closing)]
    BY <1>4, <1>a DEF HeadToken
  <2>2. ahead # <<>> /\ ahead[1] = Quote
    BY <1>4, <1>a
  <2>3. Min(closing) \in 1 .. Len(ahead) /\ \A i \in 1 .. Min(closing) : ahead[i] # Marker
    BY <1>0, <1>4, <2>2, QuoteHoldsNoMarker
  <2>4. QED
    BY <2>1, <2>3
<1>5. CASE ~scanner.failed /\ first \notin {"end", Marker, Quote}
  <2>1. HeadToken = [kind |-> "Scalar", size |-> 1]
    BY <1>5, <1>a DEF HeadToken
  <2>2. ahead # <<>> /\ ahead[1] # Marker
    BY <1>5
  <2>3. 1 \in 1 .. Len(ahead) /\ \A i \in 1 .. 1 : ahead[i] # Marker
    BY <1>0, <2>2
  <2>4. QED
    BY <2>1, <2>3
<1>6. QED
  BY <1>1, <1>2, <1>3, <1>4, <1>5

\* The next event, by what it does.
IsError(ev) == ev = [name |-> "Error", size |-> 0, next |-> parser]
IsScalar(ev) ==
  /\ parser = "in"
  /\ \E n \in 1 .. Len(scanner.ahead) :
       /\ ev = [name |-> "Scalar", size |-> n, next |-> "in"]
       /\ \A i \in 1 .. n : scanner.ahead[i] # Marker
IsImplicitStart(ev) ==
  /\ ev = [name |-> "DocumentStart", size |-> 0, next |-> "in"]
  /\ parser # "in" /\ AtContent(scanner.ahead)
IsMarkedStart(ev) ==
  /\ ev = [name |-> "DocumentStart", size |-> 1, next |-> "in"]
  /\ parser # "in" /\ AtMarker(scanner.ahead)
IsEnd(ev) ==
  /\ ev = [name |-> "DocumentEnd", size |-> 0, next |-> "between"]
  /\ parser = "in"
  /\ AtMarker(scanner.ahead) \/ (scanner.ended /\ scanner.ahead = <<>>)
IsStreamEnd(ev) ==
  /\ ev = [name |-> "StreamEnd", size |-> 0, next |-> "end"]
  /\ parser # "in" /\ scanner.ended /\ scanner.ahead = <<>>

LEMMA EventIs ==
  ASSUME Typed, TokenReady
  PROVE  \/ IsError(NextEvent) \/ IsScalar(NextEvent) \/ IsImplicitStart(NextEvent)
         \/ IsMarkedStart(NextEvent) \/ IsEnd(NextEvent) \/ IsStreamEnd(NextEvent)
<1>1. CASE HeadToken = [kind |-> "Error", size |-> 0]
  <2>1. IsError(NextEvent)
    BY <1>1 DEF NextEvent, IsError
  <2>2. QED
    BY <2>1
<1>2. CASE /\ HeadToken = [kind |-> "StreamEnd", size |-> 0]
           /\ scanner.ended /\ scanner.ahead = <<>>
  <2>1. CASE parser = "in"
    BY <1>2, <2>1 DEF NextEvent, IsEnd
  <2>2. CASE parser # "in"
    BY <1>2, <2>2 DEF NextEvent, IsStreamEnd
  <2>3. QED
    BY <2>1, <2>2
<1>3. CASE HeadToken = [kind |-> "DocumentStart", size |-> 1] /\ AtMarker(scanner.ahead)
  <2>1. CASE parser = "in"
    BY <1>3, <2>1 DEF NextEvent, IsEnd
  <2>2. CASE parser # "in"
    BY <1>3, <2>2 DEF NextEvent, IsMarkedStart
  <2>3. QED
    BY <2>1, <2>2
<1>4. CASE \E n \in 1 .. Len(scanner.ahead) :
             /\ HeadToken = [kind |-> "Scalar", size |-> n]
             /\ \A i \in 1 .. n : scanner.ahead[i] # Marker
  <2>1. PICK n \in 1 .. Len(scanner.ahead) :
             /\ HeadToken = [kind |-> "Scalar", size |-> n]
             /\ \A i \in 1 .. n : scanner.ahead[i] # Marker
    BY <1>4
  <2>2. CASE parser = "in"
    <3>1. NextEvent = [name |-> "Scalar", size |-> n, next |-> "in"]
      BY <2>1, <2>2 DEF NextEvent
    <3>2. IsScalar(NextEvent)
      BY <2>1, <2>2, <3>1 DEF IsScalar
    <3>3. QED
      BY <3>2
  <2>3. CASE parser # "in"
    <3>1. NextEvent = [name |-> "DocumentStart", size |-> 0, next |-> "in"]
      BY <2>1, <2>3 DEF NextEvent
    <3>2. AtContent(scanner.ahead)
      <4>1. Len(scanner.ahead) \in Nat
        BY DEF Typed
      <4>2. 1 \in 1 .. n /\ scanner.ahead # <<>>
        BY <2>1, <4>1
      <4>3. QED
        BY <2>1, <4>2 DEF AtContent
    <3>3. QED
      BY <2>3, <3>1, <3>2 DEF IsImplicitStart
  <2>4. QED
    BY <2>2, <2>3
<1>5. QED
  BY <1>1, <1>2, <1>3, <1>4, TokenIs

\* The scanner consumes the characters of an event.
LEMMA ConsumeMoves ==
  ASSUME Typed, Pulled, NEW ev, Consume(ev), ev.size \in 0 .. Len(scanner.ahead),
         taken' = taken
  PROVE  /\ scanner' \in [ahead : Seq(C), ended : BOOLEAN, failed : BOOLEAN]
         /\ scanner'.ended = scanner.ended
         /\ scanner'.ahead = SubSeq(scanner.ahead, ev.size + 1, Len(scanner.ahead))
         /\ SubSeq(scanner.ahead, 1, ev.size) \in Seq(C)
         /\ Len(SubSeq(scanner.ahead, 1, ev.size)) = ev.size
         /\ \A i \in 1 .. ev.size : SubSeq(scanner.ahead, 1, ev.size)[i] = scanner.ahead[i]
         /\ Consumed' = Consumed \o SubSeq(scanner.ahead, 1, ev.size)
         /\ Pulled'
<1> DEFINE a == scanner.ahead
           n == ev.size
           w == SubSeq(a, 1, n)
           r == SubSeq(a, n + 1, Len(a))
           c == Consumed
           cw == c \o w
<1>0. a \in Seq(C) /\ c \in Seq(C) /\ taken = c \o a /\ taken \in Seq(C)
  BY DEF Typed, Pulled
<1>1. /\ scanner'.ahead = r /\ scanner'.ended = scanner.ended
      /\ scanner'.failed = (ev.name = "Error")
      /\ DOMAIN scanner' = {"ahead", "ended", "failed"}
      /\ scanner' = [ahead |-> scanner'.ahead, ended |-> scanner'.ended, failed |-> scanner'.failed]
  BY DEF Consume, Typed
<1>2. /\ w \in Seq(C) /\ r \in Seq(C) /\ Len(w) = n
      /\ \A i \in 1 .. n : w[i] = a[i]
      /\ a = w \o r
  <2> HIDE DEF a
  <2>1. n \in 0 .. Len(a)
    BY DEF a
  <2> HIDE DEF n
  <2>2. QED
    BY <1>0, <2>1, CutInTwo
<1>3. scanner' \in [ahead : Seq(C), ended : BOOLEAN, failed : BOOLEAN]
  <2>1. scanner.ended \in BOOLEAN
    BY DEF Typed
  <2> HIDE DEF r
  <2>2. QED
    BY <1>1, <1>2, <2>1
<1> HIDE DEF w, r, c
<1>4. cw \in Seq(C) /\ taken = cw \o r
  <2> HIDE DEF a
  <2>1. cw \in Seq(C)
    BY <1>0, <1>2, ConcatProperties
  <2>2. cw \o r = c \o (w \o r)
    BY <1>0, <1>2, ConcatAssociative
  <2>3. QED
    BY <1>0, <1>2, <2>1, <2>2
<1> HIDE DEF cw
<1>5. SubSeq(taken, 1, Len(taken) - Len(r)) = cw /\ Len(r) <= Len(taken)
  BY <1>2, <1>4, FirstPart
<1>6. Consumed' = cw
  BY <1>1, <1>5 DEF Consumed
<1>7. Pulled'
  BY <1>1, <1>4, <1>5, <1>6 DEF Pulled
<1>8. QED
  BY <1>1, <1>2, <1>3, <1>6, <1>7 DEF w, r, c, cw

\* An event, and the builder that has processed it.
LEMMA EventBuilds ==
  ASSUME Typed, Pulled, Parsing, NEW ev, Consume(ev), taken' = taken,
         \/ IsScalar(ev) \/ IsImplicitStart(ev) \/ IsMarkedStart(ev) \/ IsEnd(ev)
         \/ IsStreamEnd(ev)
  PROVE  /\ Processed(ev) \in [docs : Seq(Seq(C)), open : Seq(C)]
         /\ Built(DocumentsOf(Consumed'), delivered, Processed(ev), ev.next, scanner'.ahead)
         /\ ev.next # "in" /\ DocumentsOf(Consumed') # <<>> =>
              AtMarker(scanner'.ahead) \/ (scanner.ended /\ scanner'.ahead = <<>>)
         /\ ev.name # "DocumentEnd" => Processed(ev).docs = builder.docs
         /\ ev.name = "DocumentEnd" => Processed(ev).docs = Append(builder.docs, builder.open)
<1> DEFINE a == scanner.ahead
           c == Consumed
           d == DocumentsOf(c)
           g == delivered
           b == builder
           V == Seq(C)
           w == SubSeq(a, 1, ev.size)
           B == [docs : Seq(V), open : V]
<1>0. /\ a \in Seq(C) /\ Len(a) \in Nat /\ c \in Seq(C) /\ g \in Seq(V)
      /\ b \in B /\ b.docs \in Seq(V) /\ b.open \in V
  BY DEF Typed, Pulled
<1>1. d \in Seq(V)
  <2> HIDE DEF c
  <2>1. QED
    BY <1>0, DocumentsType
<1>2. ev.size \in 0 .. Len(a)
  <2>1. AtMarker(a) => 1 \in 0 .. Len(a)
    BY <1>0 DEF AtMarker
  <2>2. 0 \in 0 .. Len(a)
    BY <1>0
  <2>3. QED
    BY <1>0, <2>1, <2>2 DEF IsScalar, IsImplicitStart, IsMarkedStart, IsEnd, IsStreamEnd
<1>3. /\ scanner'.ahead = SubSeq(a, ev.size + 1, Len(a))
      /\ w \in Seq(C) /\ Len(w) = ev.size
      /\ \A i \in 1 .. ev.size : w[i] = a[i]
      /\ Consumed' = c \o w
  BY <1>2, ConsumeMoves
<1>4. <<>> \in V /\ g \o b.docs \in Seq(V)
  <2> HIDE DEF V
  <2>1. g \o b.docs \in Seq(V)
    BY <1>0, ConcatProperties
  <2> USE DEF V
  <2>2. QED
    BY <2>1
<1>5. Built(d, g, b, parser, a) /\ Closed(d, parser, a)
  BY DEF Parsing
<1>6. ev.size = 0 => scanner'.ahead = a /\ Consumed' = c
  <2> SUFFICES ASSUME ev.size = 0 PROVE scanner'.ahead = a /\ Consumed' = c
    OBVIOUS
  <2>1. SubSeq(a, 1, Len(a)) = a
    BY <1>0
  <2>2. w = <<>>
    <3> HIDE DEF w
    <3>1. QED
      BY <1>3
  <2>3. c \o <<>> = c
    <3> HIDE DEF c
    <3>1. QED
      BY <1>0
  <2>4. ev.size + 1 = 1
    OBVIOUS
  <2> HIDE DEF a, c, w
  <2>5. QED
    BY <1>3, <2>1, <2>2, <2>3, <2>4
<1> HIDE DEF a, c, d, w
<1>7. CASE IsScalar(ev)
  <2>1. ev.name = "Scalar" /\ ev.next = "in" /\ ev.size >= 1 /\ parser = "in"
        /\ \A i \in 1 .. ev.size : a[i] # Marker
    BY <1>7 DEF IsScalar, a
  <2>2. Processed(ev).docs = b.docs /\ Processed(ev).open = b.open \o w /\ Processed(ev) \in B
    <3>1. Processed(ev) = [builder EXCEPT !.open = @ \o w]
      BY <2>1 DEF Processed, w, a
    <3>2. b.open \o w \in V
      BY <1>0, <1>3, ConcatProperties
    <3>3. QED
      BY <1>0, <3>1, <3>2
  <2>3. w # <<>> /\ \A i \in 1 .. Len(w) : w[i] # Marker
    <3> DEFINE n == ev.size
    <3>1. n >= 1 /\ n \in Nat /\ Len(w) = n /\ w \in Seq(C)
      BY <1>0, <1>2, <1>3, <2>1
    <3>2. \A i \in 1 .. n : w[i] = a[i] /\ a[i] # Marker
      BY <1>3, <2>1
    <3> HIDE DEF n
    <3>3. w # <<>>
      BY <3>1
    <3>4. ASSUME NEW i \in 1 .. Len(w) PROVE w[i] # Marker
      BY <3>1, <3>2
    <3>5. QED
      BY <3>3, <3>4
  <2>4. /\ \A h \in Seq(Seq(C)), o \in Seq(C) :
              DocumentsOf(c) = Append(h, o) => DocumentsOf(c \o w) = Append(h, o \o w)
        /\ DocumentsOf(c) = <<>> => DocumentsOf(c \o w) = <<w>>
    BY <1>0, <1>3, <2>3, ContentGoes
  <2>5. Built(DocumentsOf(c \o w), g, Processed(ev), "in", scanner'.ahead)
    <3>1. CASE d = Append(g \o b.docs, b.open)
      <4>1. DocumentsOf(c \o w) = Append(g \o b.docs, b.open \o w)
        BY <1>0, <1>4, <2>4, <3>1 DEF d
      <4>2. QED
        BY <2>2, <4>1 DEF Built
    <3>2. CASE d = <<>> /\ g = <<>> /\ b.docs = <<>> /\ b.open = <<>>
      <4>1. DocumentsOf(c \o w) = <<w>>
        BY <2>4, <3>2 DEF d
      <4>2. <<>> \o <<>> = <<>> /\ Append(<<>>, w) = <<w>> /\ <<>> \o w = w
        BY <1>3
      <4>3. QED
        BY <2>2, <3>2, <4>1, <4>2 DEF Built
    <3>3. QED
      BY <1>5, <2>1, <3>1, <3>2 DEF Built
  <2>6. QED
    BY <1>3, <2>1, <2>2, <2>5
<1>8. CASE IsImplicitStart(ev)
  <2>1. ev.name = "DocumentStart" /\ ev.next = "in" /\ ev.size = 0 /\ parser # "in"
        /\ AtContent(a)
    BY <1>8 DEF IsImplicitStart, a
  <2>2. Processed(ev).docs = b.docs /\ Processed(ev).open = <<>> /\ Processed(ev) \in B
    BY <1>0, <1>4, <2>1 DEF Processed
  <2>3. d = <<>>
    BY <1>5, <2>1 DEF Closed, AtContent, AtMarker
  <2>4. g \o b.docs = <<>>
    BY <1>5, <2>1, <2>3 DEF Built
  <2>5. g = <<>> /\ b.docs = <<>>
    <3> HIDE DEF V
    <3>1. Len(g) \in Nat /\ Len(b.docs) \in Nat /\ Len(g \o b.docs) = Len(g) + Len(b.docs)
      BY <1>0
    <3>2. QED
      BY <1>0, <2>4, <3>1
  <2>6. QED
    BY <1>6, <2>1, <2>2, <2>3, <2>5 DEF Built, d
<1>9. CASE IsMarkedStart(ev)
  <2>1. ev.name = "DocumentStart" /\ ev.next = "in" /\ ev.size = 1 /\ parser # "in"
        /\ AtMarker(a)
    BY <1>9 DEF IsMarkedStart, a
  <2>2. Processed(ev).docs = b.docs /\ Processed(ev).open = <<>> /\ Processed(ev) \in B
    BY <1>0, <1>4, <2>1 DEF Processed
  <2>3. w = <<Marker>>
    BY <1>3, <2>1 DEF AtMarker
  <2>4. c \o <<Marker>> = Append(c, Marker) /\ Marker \in C
    BY <1>0 DEF C, Utf8, Marker
  <2>5. DocumentsOf(c \o w) = Append(d, <<>>)
    <3>1. DocumentsOf(Append(c, Marker)) = WithChar(d, Marker)
      BY <1>0, <2>4, DocumentsMore DEF d
    <3>2. QED
      BY <2>3, <2>4, <3>1 DEF WithChar
  <2>6. d = g \o b.docs
    BY <1>5, <2>1 DEF Built
  <2>7. QED
    BY <1>3, <2>1, <2>2, <2>5, <2>6 DEF Built
<1>10. CASE IsEnd(ev)
  <2>1. /\ ev.name = "DocumentEnd" /\ ev.next = "between" /\ ev.size = 0 /\ parser = "in"
        /\ AtMarker(a) \/ (scanner.ended /\ a = <<>>)
    BY <1>10 DEF IsEnd, a
  <2>2. Processed(ev) = [docs |-> Append(b.docs, b.open), open |-> <<>>]
    BY <2>1 DEF Processed
  <2>3. Append(b.docs, b.open) \in Seq(V)
    <3> HIDE DEF V
    <3>1. QED
      BY <1>0
  <2>4. g \o Append(b.docs, b.open) = Append(g \o b.docs, b.open)
    <3> HIDE DEF V
    <3>1. QED
      BY <1>0
  <2>5. d = Append(g \o b.docs, b.open)
    BY <1>5, <2>1 DEF Built, AtContent, AtMarker
  <2>6. Built(d, g, Processed(ev), "between", a)
    <3>1. Processed(ev).docs = Append(b.docs, b.open)
      BY <2>2
    <3>2. d = g \o Processed(ev).docs
      BY <2>4, <2>5, <3>1, Zenon
    <3>3. "between" # "in"
      OBVIOUS
    <3>4. QED
      BY <3>2, <3>3, Zenon DEF Built
  <2>7. scanner'.ahead = a /\ DocumentsOf(Consumed') = d
    BY <1>6, <2>1 DEF d
  <2>8. Processed(ev) \in B /\ Processed(ev).docs = Append(b.docs, b.open)
    BY <1>4, <2>2, <2>3
  <2>9. Built(DocumentsOf(Consumed'), g, Processed(ev), "between", scanner'.ahead)
    BY <2>6, <2>7, Zenon
  <2> HIDE DEF b, g
  <2>10. QED
    BY <2>1, <2>7, <2>8, <2>9 DEF b, g
<1>11. CASE IsStreamEnd(ev)
  <2>1. ev.name = "StreamEnd" /\ ev.next = "end" /\ ev.size = 0 /\ parser # "in"
        /\ scanner.ended /\ a = <<>>
    BY <1>11 DEF IsStreamEnd, a
  <2>2. Processed(ev) = b
    BY <2>1 DEF Processed
  <2>3. d = g \o b.docs
    BY <1>5, <2>1 DEF Built
  <2>4. scanner'.ahead = a /\ DocumentsOf(Consumed') = d
    BY <1>6, <2>1 DEF d
  <2>5. Built(d, g, b, "end", a)
    BY <2>3 DEF Built
  <2>6. Processed(ev) \in B /\ Processed(ev).docs = b.docs
    BY <1>0, <2>2
  <2>7. Built(DocumentsOf(Consumed'), g, Processed(ev), "end", scanner'.ahead)
    BY <2>2, <2>4, <2>5, Zenon
  <2> HIDE DEF b, g
  <2>8. QED
    BY <2>1, <2>4, <2>6, <2>7 DEF b, g
<1>12. QED
  BY <1>7, <1>8, <1>9, <1>10, <1>11

\* What was delivered is documents of the text, and all of them only at its end.
LEMMA DeliveredAreDocuments ==
  ASSUME Typed, Pulled, Parsing
  PROVE  /\ IsPrefix(delivered, DocumentsOf(taken))
         /\ delivered # <<>> =>
              \/ Len(delivered) < Len(DocumentsOf(taken))
              \/ parser # "in" /\ scanner.ended /\ scanner.ahead = <<>>
<1> DEFINE a == scanner.ahead
           c == Consumed
           d == DocumentsOf(c)
           all == DocumentsOf(taken)
           V == Seq(C)
           g == delivered
           docs == builder.docs
           gd == g \o docs
<1>0. a \in Seq(C) /\ c \in Seq(C) /\ taken = c \o a /\ taken \in Seq(C)
  BY DEF Typed, Pulled
<1>1. g \in Seq(V) /\ docs \in Seq(V) /\ builder.open \in V
  BY DEF Typed
<1>2. d \in Seq(V) /\ all \in Seq(V)
  BY <1>0, DocumentsType
<1>3. Built(d, g, builder, parser, a) /\ Closed(d, parser, a)
  BY DEF Parsing
<1>4. Len(d) <= Len(all) /\ \A i \in 1 .. Len(d) - 1 : all[i] = d[i]
  <2> HIDE DEF c, a
  <2>1. QED
    BY <1>0, DocumentsGrow
<1>5. AtMarker(a) => IsPrefix(d, all) /\ Len(d) < Len(all)
  <2> HIDE DEF c, a
  <2>1. QED
    BY <1>0, MarkerCompletes DEF AtMarker
<1>6. a = <<>> => all = d
  <2> HIDE DEF c, a
  <2>1. QED
    BY <1>0
<1> HIDE DEF a, c, d, all, V
<1>7. Len(g) \in Nat /\ Len(docs) \in Nat /\ Len(d) \in Nat /\ Len(all) \in Nat
  BY <1>1, <1>2
<1>8. gd \in Seq(V) /\ Len(gd) = Len(g) + Len(docs) /\ \A i \in 1 .. Len(g) : gd[i] = g[i]
  BY <1>1, <1>7, ConcatProperties
<1>9. IsPrefix(g, gd)
  BY <1>1, PrefixOfConcat
<1> HIDE DEF g, docs, gd
<1>10. CASE parser # "in" /\ d = gd
  <2>1. CASE d = <<>>
    <3>1. Len(g) = 0
      BY <1>7, <1>8, <1>10, <2>1
    <3>2. g = <<>>
      BY <1>1, <3>1
    <3>3. IsPrefix(g, all)
      <4>1. Len(g) <= Len(all) /\ \A i \in 1 .. Len(g) : g[i] = all[i]
        BY <1>7, <3>1
      <4>2. QED
        BY <1>1, <1>2, <4>1, PrefixIs
    <3>4. QED
      BY <3>2, <3>3 DEF g, all
  <2>2. CASE AtMarker(a)
    <3>1. IsPrefix(g, all)
      BY <1>1, <1>2, <1>5, <1>9, <1>10, <2>2, PrefixTransitive
    <3>2. Len(g) < Len(all)
      BY <1>5, <1>7, <1>8, <1>10, <2>2
    <3>3. QED
      BY <3>1, <3>2 DEF g, all
  <2>3. CASE scanner.ended /\ a = <<>>
    BY <1>6, <1>9, <1>10, <2>3 DEF g, all, a
  <2>4. QED
    BY <1>3, <1>10, <2>1, <2>2, <2>3 DEF Closed
<1>11. CASE d = Append(gd, builder.open)
  <2>1. Len(d) = Len(gd) + 1 /\ \A i \in 1 .. Len(gd) : d[i] = gd[i]
    BY <1>1, <1>8, <1>11, AppendProperties
  <2>2. Len(gd) \in Nat
    BY <1>7, <1>8
  <2>3. Len(g) < Len(all) /\ \A i \in 1 .. Len(g) : g[i] = all[i]
    BY <1>4, <1>7, <1>8, <2>1, <2>2
  <2>4. IsPrefix(g, all)
    BY <1>1, <1>2, <1>7, <2>3, PrefixIs
  <2>5. QED
    BY <2>3, <2>4 DEF g, all
<1>12. CASE g = <<>>
  <2>1. Len(g) = 0
    BY <1>12
  <2>2. IsPrefix(g, all)
    <3>1. Len(g) <= Len(all) /\ \A i \in 1 .. Len(g) : g[i] = all[i]
      BY <1>7, <2>1
    <3>2. QED
      BY <1>1, <1>2, <3>1, PrefixIs
  <2>3. QED
    BY <1>12, <2>2 DEF g, all
<1>13. QED
  BY <1>3, <1>10, <1>11, <1>12 DEF Built, gd, g, docs

\* The documents begun are at most one more than those the builder has completed.
LEMMA OneMore ==
  ASSUME NEW d, NEW g \in Seq(Seq(C)), NEW b \in [docs : Seq(Seq(C)), open : Seq(C)],
         NEW p, NEW a, Built(d, g, b, p, a)
  PROVE  /\ b.docs = <<>> => Len(d) <= Len(g) + 1
         /\ p # "in" => Len(d) = Len(g) + Len(b.docs)
<1> DEFINE V == Seq(C)
           docs == b.docs
           gd == g \o docs
<1>1. docs \in Seq(V) /\ g \in Seq(V) /\ b.open \in V
  OBVIOUS
<1> HIDE DEF V, docs
<1>2. Len(g) \in Nat /\ Len(docs) \in Nat /\ gd \in Seq(V) /\ Len(gd) = Len(g) + Len(docs)
  BY <1>1, ConcatProperties
<1> HIDE DEF gd
<1>3. Len(Append(gd, b.open)) = Len(gd) + 1
  BY <1>1, <1>2
<1>4. docs = <<>> => Len(docs) = 0
  OBVIOUS
<1>5. CASE p # "in" /\ d = gd
  BY <1>2, <1>4, <1>5 DEF docs
<1>6. CASE p = "in" /\ d = Append(gd, b.open)
  BY <1>2, <1>3, <1>4, <1>6 DEF docs
<1>7. CASE p = "in" /\ d = <<>>
  BY <1>2, <1>7 DEF docs
<1>8. QED
  BY <1>5, <1>6, <1>7 DEF Built, gd, docs

(***************************************************************************)
(* One lemma for each action.                                              *)
(***************************************************************************)
LEMMA InitIInv == Init => IInv
<1> SUFFICES ASSUME Init PROVE IInv
  OBVIOUS
<1>0. <<>> \in Seq(C) /\ <<>> \in Seq(Bytes) /\ <<>> \in Seq(Seq(C)) /\ <<>> \in Seq(Octets)
      /\ Len(<<>>) = 0 /\ <<>> \o <<>> = <<>>
  OBVIOUS
<1>1. /\ reader \in [buf : Seq(C), pending : Seq(Bytes), mode : {"none", "text", "binary"},
                     done : BOOLEAN]
      /\ reader.pending = <<>> /\ input = Encode(reader.buf)
  <2>1. CASE OpenStream
    BY <1>0, <2>1, EncodeNothing DEF OpenStream
  <2>2. CASE OpenString
    <3>1. PICK text \in SeqsUpTo(Chars, MaxInput) \cup {<<>>} :
            /\ reader = [buf |-> text, pending |-> <<>>, mode |-> "text", done |-> TRUE]
            /\ input = Encode(text)
      BY <2>2 DEF OpenString
    <3>2. Chars \subseteq C
      BY LoadStreamConstants DEF C
    <3>3. text \in Seq(C)
      <4>1. CASE text = <<>>
        BY <4>1
      <4>2. CASE \E k \in 1 .. MaxInput : text \in [1 .. k -> Chars]
        <5>1. PICK k \in 1 .. MaxInput : text \in [1 .. k -> Chars]
          BY <4>2
        <5>2. k \in Nat
          BY LoadStreamConstants
        <5>3. QED
          BY <3>2, <5>1, <5>2
      <4>3. QED
        BY <4>1, <4>2 DEF SeqsUpTo
    <3>4. QED
      BY <1>0, <3>1, <3>3
  <2>3. QED
    BY <2>1, <2>2 DEF Init
<1>2. input \in Seq(Octets) /\ reader.buf \in Seq(C)
  BY <1>1, EncodeType
<1>3. Typed
  BY <1>0, <1>1, <1>2 DEF Init, Typed
<1>4. taken = <<>> /\ scanner.ahead = <<>> /\ ~scanner.ended /\ raised = {} /\ ~slot
      /\ delivered = <<>> /\ parser = "between" /\ builder.docs = <<>>
      /\ ~caller.done /\ ~caller.calling
  BY DEF Init
<1>5. Reads
  <2>1. <<>> \o reader.buf = reader.buf /\ Encode(reader.buf) \o <<>> = Encode(reader.buf)
    BY <1>1, <1>2
  <2>2. QED
    BY <1>1, <1>4, <2>1 DEF Reads
<1>6. Consumed = <<>> /\ Pulled
  <2>1. SubSeq(<<>>, 1, 0 - 0) = <<>>
    OBVIOUS
  <2>2. QED
    BY <1>0, <1>4, <2>1 DEF Consumed, Pulled
<1>7. Calls
  BY <1>0, <1>4, <1>6, NoDocuments DEF Calls, Parsing, Built, Closed
<1>8. QED
  BY <1>3, <1>5, <1>6, <1>7 DEF IInv

\* A call that runs has met no error of the stream.
LEMMA Running ==
  ASSUME IInv, caller.calling
  PROVE  Typed /\ Reads /\ Pulled /\ Parsing /\ "io" \notin raised /\ ~caller.done
BY DEF IInv, Calls, Broken

LEMMA CallIInv == IInv /\ Call => IInv'
<1> SUFFICES ASSUME IInv, Call PROVE IInv'
  OBVIOUS
<1>1. /\ UNCHANGED <<api, source, reader, slot, input, scanner, taken, parser, builder,
                     delivered, raised>>
      /\ caller'.done = caller.done /\ (caller.done => caller' = caller)
      /\ caller' \in [calling : BOOLEAN, done : BOOLEAN]
      /\ answer' \in {"stop", "none"}
  BY DEF Call, reading, scanning, building, IInv, Typed
<1>2. Typed'
  BY <1>1 DEF IInv, Typed
<1>3. Reads' /\ Pulled' /\ Consumed' = Consumed
  BY <1>1 DEF IInv, Reads, Pulled, Consumed
<1>4. DocumentsOf(taken)' = DocumentsOf(taken) /\ DocumentsOf(Consumed)' = DocumentsOf(Consumed)
  BY <1>1, <1>3 DEF DocumentsOf
<1>5. Calls'
  BY <1>1, <1>3, <1>4 DEF IInv, Calls, Broken, Parsing, Built, Closed
<1>6. QED
  BY <1>2, <1>3, <1>5 DEF IInv

\* A chunk is joined with the pending bytes, decoded, and what is left of it pends.
LEMMA BytesAreRead ==
  ASSUME Typed, Reads, reader.buf = <<>>, ~reader.done,
         NEW chunk \in Seq(Bytes), ReadBytes(chunk)
  PROVE  /\ reader' \in [buf : Seq(C), pending : Seq(Bytes),
                         mode : {"none", "text", "binary"}, done : BOOLEAN]
         /\ slot' \in BOOLEAN /\ input' \in Seq(Octets)
         /\ taken' = taken => Encode(taken' \o reader'.buf) \o reader'.pending = input'
         /\ (~reader'.done /\ ~slot') \/ (reader'.done /\ slot')
<1> DEFINE p == reader.pending
           bytes == p \o chunk
           got == Decode(bytes)
           text == got.text
           rest == got.rest
           et == Encode(taken)
           ex == Encode(text)
<1>0. Bytes \subseteq Octets
  BY LoadStreamConstants DEF Octets
<1>1. p \in Seq(Bytes) /\ taken \in Seq(C) /\ input \in Seq(Octets) /\ ~slot /\ "io" \notin raised
      /\ reader \in [buf : Seq(C), pending : Seq(Bytes), mode : {"none", "text", "binary"},
                 done : BOOLEAN]
  BY DEF Typed, Reads
<1>2. bytes \in Seq(Bytes)
  <2> HIDE DEF p
  <2>1. QED
    BY <1>1, ConcatProperties
<1>3. text \in Seq(C) /\ rest \in Seq(Bytes) /\ ex \o rest = bytes
  <2> HIDE DEF bytes
  <2>1. QED
    BY <1>0, <1>2, DecodeKeeps
<1>4. et \o p = input
  <2>1. taken \o <<>> = taken
    BY <1>1
  <2>2. QED
    BY <2>1 DEF Reads
<1>5. CASE /\ reader' = [reader EXCEPT !.mode = "binary", !.buf = text, !.pending = rest]
           /\ input' = input \o chunk
           /\ UNCHANGED slot
  <2>1. reader'.buf = text /\ reader'.pending = rest /\ reader'.done = reader.done
        /\ reader' \in [buf : Seq(C), pending : Seq(Bytes),
                        mode : {"none", "text", "binary"}, done : BOOLEAN]
    <3> HIDE DEF text, rest
    <3>1. QED
      BY <1>1, <1>3, <1>5
  <2>2. chunk \in Seq(Octets) /\ p \in Seq(Octets) /\ rest \in Seq(Octets)
    <3> HIDE DEF p, rest
    <3>1. QED
      BY <1>0, <1>1, <1>3
  <2>3. et \in Seq(Octets) /\ ex \in Seq(Octets)
    <3> HIDE DEF text
    <3>1. QED
      BY <1>1, <1>3, EncodeType
  <2>4. Encode(taken \o text) = et \o ex
    <3> HIDE DEF text
    <3>1. QED
      BY <1>1, <1>3, EncodeConcat
  <2>5. input \o chunk \in Seq(Octets)
    BY <1>1, <2>2, ConcatProperties
  <2> HIDE DEF et, ex, rest, p, text
  <2>6. (et \o ex) \o rest = et \o (ex \o rest)
    BY <2>2, <2>3, ConcatAssociative
  <2>7. (et \o p) \o chunk = et \o (p \o chunk)
    BY <2>2, <2>3, ConcatAssociative
  <2>8. (et \o ex) \o rest = input \o chunk
    BY <1>3, <1>4, <2>6, <2>7
  <2>9. Encode(taken \o reader'.buf) \o reader'.pending = input'
    <3>1. Encode(taken \o text) \o rest = input \o chunk
      BY <2>4, <2>8
    <3>2. reader'.buf = text /\ reader'.pending = rest /\ input' = input \o chunk
      BY <1>5, <2>1
    <3>3. QED
      BY <3>1, <3>2
  <2>10. ~reader'.done /\ ~slot' /\ slot' = FALSE /\ input' \in Seq(Octets)
    <3>1. ~reader'.done /\ ~slot'
      BY <1>1, <1>5, <2>1
    <3>2. slot' = slot /\ slot \in BOOLEAN /\ input' \in Seq(Octets)
      BY <1>5, <2>5 DEF Typed
    <3>3. QED
      BY <3>1, <3>2
  <2>11. slot' \in BOOLEAN /\ ((~reader'.done /\ ~slot') \/ (reader'.done /\ slot'))
    BY <2>10, Zenon
  <2>12. taken' = taken => Encode(taken' \o reader'.buf) \o reader'.pending = input'
    BY <2>9
  <2>13. QED
    BY <2>1, <2>10, <2>11, <2>12, Zenon
<1>6. CASE SetError
  <2>1. slot' = TRUE /\ reader' = [reader EXCEPT !.done = TRUE] /\ input' = input
    BY <1>6 DEF SetError
  <2>2. reader'.buf = <<>> /\ reader'.pending = p /\ reader'.done
        /\ reader' \in [buf : Seq(C), pending : Seq(Bytes),
                        mode : {"none", "text", "binary"}, done : BOOLEAN]
    BY <1>1, <2>1
  <2>3. Encode(taken \o <<>>) \o p = input
    BY DEF Reads
  <2> HIDE DEF p
  <2>4. taken' = taken => Encode(taken' \o reader'.buf) \o reader'.pending = input'
    BY <2>1, <2>2, <2>3
  <2>5. input' \in Seq(Octets) /\ slot' \in BOOLEAN /\ slot' /\ reader'.done
    BY <1>1, <2>1, <2>2
  <2>6. QED
    BY <2>2, <2>4, <2>5
<1>7. QED
  BY <1>5, <1>6 DEF ReadBytes

LEMMA TextIsRead ==
  ASSUME Typed, Reads, reader.buf = <<>>, ~reader.done,
         NEW chunk \in Seq(C), ReadText(chunk)
  PROVE  /\ reader' \in [buf : Seq(C), pending : Seq(Bytes),
                         mode : {"none", "text", "binary"}, done : BOOLEAN]
         /\ slot' \in BOOLEAN /\ input' \in Seq(Octets)
         /\ taken' = taken => Encode(taken' \o reader'.buf) \o reader'.pending = input'
         /\ (~reader'.done /\ ~slot') \/ (reader'.done /\ slot')
<1> DEFINE p == reader.pending
           ex == Encode(chunk)
           et == Encode(taken)
<1>1. /\ p \in Seq(Bytes) /\ taken \in Seq(C) /\ input \in Seq(Octets) /\ slot \in BOOLEAN
      /\ reader \in [buf : Seq(C), pending : Seq(Bytes), mode : {"none", "text", "binary"},
                     done : BOOLEAN]
  BY DEF Typed
<1>2. Encode(taken) \o p = input
  <2>1. taken \o <<>> = taken
    BY <1>1
  <2>2. QED
    BY <2>1 DEF Reads
<1>3. CASE /\ p = <<>>
           /\ reader' = [reader EXCEPT !.mode = "text", !.buf = chunk]
           /\ input' = input \o ex
           /\ UNCHANGED slot
  <2>1. reader'.buf = chunk /\ reader'.pending = <<>> /\ reader'.done = reader.done
        /\ reader' \in [buf : Seq(C), pending : Seq(Bytes),
                        mode : {"none", "text", "binary"}, done : BOOLEAN]
    BY <1>1, <1>3
  <2>2. et \in Seq(Octets) /\ ex \in Seq(Octets)
    BY <1>1, EncodeType
  <2>3. Encode(taken \o chunk) = et \o ex
    BY <1>1, EncodeConcat
  <2>4. et \o <<>> = input
    BY <1>2, <1>3
  <2> HIDE DEF et, ex, p
  <2>5. (et \o ex) \o <<>> = input \o ex /\ input \o ex \in Seq(Octets)
    <3>1. et = input
      BY <2>2, <2>4
    <3>2. et \o ex \in Seq(Octets)
      BY <2>2, ConcatProperties
    <3>3. (et \o ex) \o <<>> = et \o ex
      <4> DEFINE v == et \o ex
      <4>1. v \in Seq(Octets)
        BY <3>2
      <4> HIDE DEF v
      <4>2. v \o <<>> = v
        BY <4>1
      <4>3. QED
        BY <4>2 DEF v
    <3>4. QED
      BY <3>1, <3>2, <3>3
  <2>6. Encode(taken \o reader'.buf) \o reader'.pending = input'
    BY <1>3, <2>1, <2>3, <2>5
  <2>7. taken' = taken => Encode(taken' \o reader'.buf) \o reader'.pending = input'
    BY <2>6
  <2>8. ~slot /\ slot' = slot /\ ~reader'.done /\ input' \in Seq(Octets)
    BY <1>3, <2>1, <2>5 DEF Reads
  <2>9. slot' \in BOOLEAN /\ ((~reader'.done /\ ~slot') \/ (reader'.done /\ slot'))
    BY <1>1, <2>8, Zenon
  <2>10. QED
    BY <2>1, <2>7, <2>8, <2>9, Zenon
<1>4. CASE SetError
  <2>1. slot' = TRUE /\ reader' = [reader EXCEPT !.done = TRUE] /\ input' = input
    BY <1>4 DEF SetError
  <2>2. reader'.buf = <<>> /\ reader'.pending = p /\ reader'.done
        /\ reader' \in [buf : Seq(C), pending : Seq(Bytes),
                        mode : {"none", "text", "binary"}, done : BOOLEAN]
    BY <1>1, <2>1
  <2>3. Encode(taken \o <<>>) \o p = input
    BY DEF Reads
  <2> HIDE DEF p
  <2>4. taken' = taken => Encode(taken' \o reader'.buf) \o reader'.pending = input'
    BY <2>1, <2>2, <2>3
  <2>5. input' \in Seq(Octets) /\ slot' \in BOOLEAN /\ slot' /\ reader'.done
    BY <1>1, <2>1, <2>2
  <2>6. QED
    BY <2>2, <2>4, <2>5
<1>5. QED
  BY <1>3, <1>4 DEF ReadText

\* What the scanner does not take part in leaves the documents alone.
LEMMA NothingParsed ==
  ASSUME IInv, caller.calling,
         reader' \in [buf : Seq(C), pending : Seq(Bytes), mode : {"none", "text", "binary"},
                      done : BOOLEAN],
         slot' \in BOOLEAN, input' \in Seq(Octets), Reads',
         scanner' \in [ahead : Seq(C), ended : BOOLEAN, failed : BOOLEAN],
         taken' \in Seq(C), Pulled', Consumed' = Consumed,
         AtMarker(scanner.ahead) => AtMarker(scanner'.ahead),
         AtContent(scanner.ahead) => AtContent(scanner'.ahead),
         UNCHANGED <<api, source, building, calling>>,
         ~scanner.ended
  PROVE  IInv'
<1>1. Typed /\ Reads /\ Pulled /\ Parsing /\ "io" \notin raised /\ ~caller.done
  BY Running
<1>2. UNCHANGED <<api, source, parser, builder, caller, answer, delivered, raised>>
  BY DEF building, calling
<1>3. Typed'
  BY <1>1, <1>2 DEF Typed
<1>4. DocumentsOf(Consumed)' = DocumentsOf(Consumed)
  BY DEF DocumentsOf
<1>5. Built(DocumentsOf(Consumed), delivered, builder, parser, scanner.ahead)'
  BY <1>1, <1>2, <1>4 DEF Parsing, Built
<1>6. Closed(DocumentsOf(Consumed), parser, scanner.ahead)'
  BY <1>1, <1>2, <1>4 DEF Parsing, Closed
<1>7. delivered # <<>> /\ parser # "in" => AtMarker(scanner.ahead)
  <2> SUFFICES ASSUME delivered # <<>>, parser # "in" PROVE AtMarker(scanner.ahead)
    OBVIOUS
  <2> DEFINE V == Seq(C)
             g == delivered
             docs == builder.docs
             d == DocumentsOf(Consumed)
  <2>1. g \in Seq(V) /\ docs \in Seq(V)
    BY <1>1 DEF Typed
  <2>2. d = g \o docs
    BY <1>1 DEF Parsing, Built
  <2>3. d # <<>>
    <3> HIDE DEF V, d, docs
    <3>1. Len(g) # 0 /\ Len(g) \in Nat /\ Len(docs) \in Nat
      BY <2>1
    <3>2. Len(g \o docs) = Len(g) + Len(docs)
      BY <2>1
    <3>3. QED
      BY <2>2, <3>1, <3>2
  <2>4. QED
    BY <1>1, <2>3 DEF Parsing, Closed
<1>8. Parsing'
  BY <1>1, <1>2, <1>5, <1>6, <1>7 DEF Parsing, AtMarker
<1>9. Calls'
  BY <1>1, <1>2, <1>8 DEF Calls
<1>10. QED
  BY <1>3, <1>9 DEF IInv

LEMMA ReadChunkIInv == IInv /\ ReadChunk => IInv'
<1> SUFFICES ASSUME IInv, ReadChunk PROVE IInv'
  OBVIOUS
<1>0. /\ caller.calling /\ ~TokenReady /\ reader.buf = <<>> /\ ~reader.done
      /\ UNCHANGED <<api, source, scanner, taken, building, calling>>
  BY DEF ReadChunk, Starved, Wanted, scanning
<1>1. Typed /\ Reads /\ Pulled /\ "io" \notin raised
  BY <1>0, Running
<1>2. ~scanner.ended /\ ~slot
  BY <1>0, <1>1 DEF TokenReady, Reads
<1>a. /\ reader \in [buf : Seq(C), pending : Seq(Bytes), mode : {"none", "text", "binary"},
                     done : BOOLEAN]
      /\ input \in Seq(Octets)
  BY <1>1 DEF Typed
<1> DEFINE Read ==
             /\ reader' \in [buf : Seq(C), pending : Seq(Bytes),
                             mode : {"none", "text", "binary"}, done : BOOLEAN]
             /\ slot' \in BOOLEAN /\ input' \in Seq(Octets)
             /\ Encode(taken' \o reader'.buf) \o reader'.pending = input'
             /\ \/ ~reader'.done /\ ~slot'
                \/ reader'.done /\ (slot' \/ reader'.pending = <<>>)
<1>3. Read
  <2>1. CASE \E n \in 1 .. Fits(Room) : \E chunk \in [1 .. n -> Bytes] : ReadBytes(chunk)
    <3>1. PICK n \in 1 .. Fits(Room) : \E chunk \in [1 .. n -> Bytes] : ReadBytes(chunk)
      BY <2>1
    <3>2. PICK chunk \in [1 .. n -> Bytes] : ReadBytes(chunk)
      BY <3>1
    <3>3. Room \in Int
      BY <1>a, LoadStreamConstants DEF Room
    <3>4. Fits(Room) \in Int
      BY <3>3, LoadStreamConstants DEF Fits
    <3>5. n \in Nat
      BY <3>4
    <3>6. chunk \in Seq(Bytes)
      BY <3>5
    <3>7. QED
      BY <1>0, <1>1, <3>2, <3>6, BytesAreRead
  <2>2. CASE \E chunk \in SeqsUpTo(Chars, ChunkSize) :
               Len(Encode(chunk)) <= Room /\ ReadText(chunk)
    <3>1. PICK chunk \in SeqsUpTo(Chars, ChunkSize) : ReadText(chunk)
      BY <2>2
    <3>2. PICK k \in 1 .. ChunkSize : chunk \in [1 .. k -> Chars]
      BY DEF SeqsUpTo
    <3>3. k \in Nat /\ Chars \subseteq C
      BY LoadStreamConstants DEF C
    <3>4. chunk \in Seq(C)
      BY <3>2, <3>3
    <3>5. QED
      BY <1>0, <1>1, <3>1, <3>4, TextIsRead
  <2>3. CASE ReadEmpty \/ SetError
    <3>1. /\ input' = input /\ reader' = [reader EXCEPT !.done = TRUE]
          /\ slot' = TRUE \/ (slot' = slot /\ reader.pending = <<>>)
      BY <2>3 DEF ReadEmpty, SetError
    <3>2. /\ reader'.buf = reader.buf /\ reader'.pending = reader.pending /\ reader'.done
          /\ reader' \in [buf : Seq(C), pending : Seq(Bytes),
                          mode : {"none", "text", "binary"}, done : BOOLEAN]
      BY <1>a, <3>1
    <3>3. Encode(taken' \o reader'.buf) \o reader'.pending = input'
      BY <1>0, <1>1, <3>1, <3>2 DEF Reads
    <3>4. slot' \in BOOLEAN /\ input' \in Seq(Octets)
      BY <1>1, <1>a, <3>1 DEF Typed
    <3>5. slot' \/ reader'.pending = <<>>
      BY <3>1, <3>2
    <3>6. QED
      BY <3>2, <3>3, <3>4, <3>5
  <2>4. QED
    BY <2>1, <2>2, <2>3 DEF ReadChunk
<1>4. raised' = raised
  BY <1>0 DEF calling
<1>5. Reads'
  BY <1>0, <1>1, <1>2, <1>3, <1>4 DEF Reads
<1>6. Pulled' /\ Consumed' = Consumed
  BY <1>0, <1>1 DEF Pulled, Consumed
<1>7. scanner' \in [ahead : Seq(C), ended : BOOLEAN, failed : BOOLEAN] /\ taken' \in Seq(C)
  BY <1>0, <1>1 DEF Typed
<1>8. scanner'.ahead = scanner.ahead
  BY <1>0
<1> HIDE DEF Read
<1>9. /\ reader' \in [buf : Seq(C), pending : Seq(Bytes),
                     mode : {"none", "text", "binary"}, done : BOOLEAN]
      /\ slot' \in BOOLEAN /\ input' \in Seq(Octets)
  BY <1>3 DEF Read
<1>10. QED
  BY <1>0, <1>2, <1>5, <1>6, <1>7, <1>8, <1>9, NothingParsed

LEMMA TakeCharIInv == IInv /\ TakeChar => IInv'
<1> SUFFICES ASSUME IInv, TakeChar PROVE IInv'
  OBVIOUS
<1> DEFINE buf == reader.buf
           x == Head(buf)
           a == scanner.ahead
           ax == Append(a, x)
           tx == Append(taken, x)
           rest == Tail(buf)
           c == Consumed
<1>0. /\ caller.calling /\ ~TokenReady /\ buf # <<>>
      /\ reader' = [reader EXCEPT !.buf = rest]
      /\ scanner' = [scanner EXCEPT !.ahead = ax]
      /\ taken' = tx
      /\ UNCHANGED <<api, source, slot, input, building, calling>>
  BY DEF TakeChar, Starved
<1>1. Typed /\ Reads /\ Pulled
  BY <1>0, Running
<1>2. ~scanner.ended
  BY <1>0 DEF TokenReady
<1>3. /\ reader \in [buf : Seq(C), pending : Seq(Bytes), mode : {"none", "text", "binary"},
                     done : BOOLEAN]
      /\ scanner \in [ahead : Seq(C), ended : BOOLEAN, failed : BOOLEAN]
      /\ slot \in BOOLEAN /\ input \in Seq(Octets) /\ taken \in Seq(C)
      /\ c \in Seq(C) /\ taken = c \o a
  BY <1>1 DEF Typed, Pulled
<1>4. buf \in Seq(C) /\ a \in Seq(C)
  BY <1>3
<1>5. x \in C /\ rest \in Seq(C) /\ tx \in Seq(C) /\ ax \in Seq(C)
  <2> HIDE DEF buf, a
  <2>1. x \in C /\ rest \in Seq(C)
    BY <1>0, <1>4
  <2> HIDE DEF x
  <2>2. QED
    BY <1>3, <1>4, <2>1
<1>6. tx \o rest = taken \o buf
  <2>1. taken \in Seq(C) /\ buf \in Seq(C) /\ buf # <<>>
    BY <1>0, <1>3
  <2> HIDE DEF buf
  <2>2. Append(taken, Head(buf)) \o Tail(buf) = taken \o buf
    BY <2>1, HeadTailMoves
  <2>3. QED
    BY <2>2
<1>7. c \o ax = tx
  <2> HIDE DEF c, a, x
  <2>1. QED
    BY <1>3, <1>4, <1>5
<1> HIDE DEF x, tx, ax, rest, c
<1>8. /\ reader' \in [buf : Seq(C), pending : Seq(Bytes), mode : {"none", "text", "binary"},
                      done : BOOLEAN]
      /\ reader'.buf = rest /\ reader'.pending = reader.pending /\ reader'.done = reader.done
      /\ scanner' \in [ahead : Seq(C), ended : BOOLEAN, failed : BOOLEAN]
      /\ scanner'.ahead = ax /\ scanner'.ended = scanner.ended
  BY <1>0, <1>3, <1>5
<1>9. Encode(taken' \o reader'.buf) \o reader'.pending = input'
  BY <1>0, <1>1, <1>6, <1>8 DEF Reads
<1>10. raised' = raised
  BY <1>0 DEF calling
<1>11. Reads'
  BY <1>0, <1>1, <1>2, <1>8, <1>9, <1>10 DEF Reads
<1>12. SubSeq(tx, 1, Len(tx) - Len(ax)) = c /\ Len(ax) <= Len(tx)
  <2>1. c \in Seq(C) /\ ax \in Seq(C)
    BY <1>3, <1>5
  <2>2. SubSeq(c \o ax, 1, Len(c \o ax) - Len(ax)) = c /\ Len(ax) <= Len(c \o ax)
    BY <2>1, FirstPart
  <2>3. QED
    BY <1>7, <2>2
<1>13. Consumed' = Consumed
  BY <1>0, <1>8, <1>12 DEF Consumed, c
<1>14. Pulled'
  BY <1>0, <1>3, <1>7, <1>8, <1>12, <1>13 DEF Pulled, c
<1>15. a # <<>> => ax # <<>> /\ ax[1] = a[1]
  <2> HIDE DEF a
  <2>1. QED
    BY <1>4, <1>5 DEF ax
<1>16. /\ AtMarker(scanner.ahead) => AtMarker(scanner'.ahead)
       /\ AtContent(scanner.ahead) => AtContent(scanner'.ahead)
  BY <1>8, <1>15 DEF AtMarker, AtContent
<1>17. slot' \in BOOLEAN /\ input' \in Seq(Octets) /\ taken' \in Seq(C)
  BY <1>0, <1>3, <1>5
<1>18. QED
  BY <1>0, <1>2, <1>8, <1>11, <1>13, <1>14, <1>16, <1>17, NothingParsed

LEMMA MeetEndIInv == IInv /\ MeetEnd => IInv'
<1> SUFFICES ASSUME IInv, MeetEnd PROVE IInv'
  OBVIOUS
<1>0. /\ caller.calling /\ ~TokenReady /\ reader.buf = <<>> /\ reader.done
      /\ scanner' = [scanner EXCEPT !.ended = TRUE]
      /\ UNCHANGED <<api, source, reader, slot, input, taken, building, calling>>
  BY DEF MeetEnd, Starved, reading
<1>1. Typed /\ Reads /\ Pulled
  BY <1>0, Running
<1>2. ~scanner.ended
  BY <1>0 DEF TokenReady
<1>3. /\ scanner' \in [ahead : Seq(C), ended : BOOLEAN, failed : BOOLEAN]
      /\ scanner'.ahead = scanner.ahead
  BY <1>0, <1>1 DEF Typed
<1>4. raised' = raised
  BY <1>0 DEF calling
<1>5. Reads'
  BY <1>0, <1>1, <1>4 DEF Reads
<1>6. Pulled' /\ Consumed' = Consumed
  BY <1>0, <1>1, <1>3 DEF Pulled, Consumed
<1>7. /\ reader' \in [buf : Seq(C), pending : Seq(Bytes), mode : {"none", "text", "binary"},
                      done : BOOLEAN]
      /\ slot' \in BOOLEAN /\ input' \in Seq(Octets) /\ taken' \in Seq(C)
  BY <1>0, <1>1 DEF Typed
<1>8. QED
  BY <1>0, <1>2, <1>3, <1>5, <1>6, <1>7, NothingParsed

\* What the scanner and the parser do for an event that is not an error, and what the
\* builder makes of it.
Proceeds(ev, b) ==
  /\ b \in [docs : Seq(Seq(C)), open : Seq(C)]
  /\ Built(DocumentsOf(Consumed'), delivered, b, parser', scanner'.ahead)
  /\ Closed(DocumentsOf(Consumed), parser, scanner.ahead)'
  /\ ev.name \in {"DocumentStart", "Scalar"} => parser' = "in" /\ b.docs = builder.docs
  /\ ev.name = "DocumentEnd" =>
       parser' # "in" /\ b.docs = Append(builder.docs, builder.open)
  /\ ev.name = "StreamEnd" =>
       /\ parser' # "in" /\ b.docs = builder.docs
       /\ scanner'.ended /\ scanner'.ahead = <<>>

Turns(ev) ==
  /\ caller.calling /\ TokenReady /\ ev = NextEvent
  /\ Consume(ev) /\ parser' = ev.next
  /\ UNCHANGED <<api, source, reader, input, taken>>

LEMMA TurnFacts ==
  ASSUME IInv, NEW ev, Turns(ev)
  PROVE  /\ scanner' \in [ahead : Seq(C), ended : BOOLEAN, failed : BOOLEAN]
         /\ scanner'.ended = scanner.ended
         /\ parser' \in {"between", "in", "end"}
         /\ Pulled'
         /\ ev.name \in {"Error", "DocumentStart", "Scalar", "DocumentEnd", "StreamEnd"}
         /\ ev.name = "Error" =>
              parser' = parser /\ scanner'.ahead = scanner.ahead /\ Consumed' = Consumed
         /\ ev.name # "Error" => Proceeds(ev, Processed(ev))
<1> DEFINE a == scanner.ahead
           b == Processed(ev)
<1>0. Typed /\ Pulled /\ Parsing
  BY Running DEF Turns
<1>1. a \in Seq(C) /\ Len(a) \in Nat /\ parser \in {"between", "in", "end"}
  BY <1>0 DEF Typed
<1>2. \/ IsError(ev) \/ IsScalar(ev) \/ IsImplicitStart(ev)
      \/ IsMarkedStart(ev) \/ IsEnd(ev) \/ IsStreamEnd(ev)
  BY <1>0, EventIs DEF Turns
<1>3. ev.size \in 0 .. Len(a)
  <2>1. AtMarker(a) => 1 \in 0 .. Len(a)
    BY <1>1 DEF AtMarker
  <2>2. 0 \in 0 .. Len(a)
    BY <1>1
  <2>3. QED
    BY <1>1, <1>2, <2>1, <2>2
    DEF IsError, IsScalar, IsImplicitStart, IsMarkedStart, IsEnd, IsStreamEnd
<1>4. /\ scanner' \in [ahead : Seq(C), ended : BOOLEAN, failed : BOOLEAN]
      /\ scanner'.ended = scanner.ended
      /\ scanner'.ahead = SubSeq(a, ev.size + 1, Len(a))
      /\ SubSeq(a, 1, ev.size) \in Seq(C) /\ Len(SubSeq(a, 1, ev.size)) = ev.size
      /\ Consumed' = Consumed \o SubSeq(a, 1, ev.size)
      /\ Pulled'
  BY <1>0, <1>3, ConsumeMoves DEF Turns
<1>5. parser' = ev.next
  BY DEF Turns
<1>6. CASE IsError(ev)
  <2>1. ev.name = "Error" /\ ev.size = 0 /\ ev.next = parser /\ ev.size + 1 = 1
    BY <1>6 DEF IsError
  <2>2. SubSeq(a, 1, Len(a)) = a
    BY <1>1
  <2>3. Consumed' = Consumed
    <3> DEFINE w == SubSeq(a, 1, ev.size)
               c == Consumed
    <3>1. c \in Seq(C) /\ w \in Seq(C) /\ Len(w) = 0 /\ Consumed' = c \o w
      BY <1>0, <1>4, <2>1 DEF Pulled
    <3> HIDE DEF w, c
    <3>2. c \o w = c
      BY <3>1
    <3>3. QED
      BY <3>1, <3>2 DEF c
  <2>4. QED
    BY <1>1, <1>4, <1>5, <2>1, <2>2, <2>3
<1>7. CASE \/ IsScalar(ev) \/ IsImplicitStart(ev) \/ IsMarkedStart(ev)
           \/ IsEnd(ev) \/ IsStreamEnd(ev)
  <2>1. /\ b \in [docs : Seq(Seq(C)), open : Seq(C)]
        /\ Built(DocumentsOf(Consumed'), delivered, b, ev.next, scanner'.ahead)
        /\ ev.next # "in" /\ DocumentsOf(Consumed') # <<>> =>
             AtMarker(scanner'.ahead) \/ (scanner.ended /\ scanner'.ahead = <<>>)
        /\ ev.name # "DocumentEnd" => b.docs = builder.docs
        /\ ev.name = "DocumentEnd" => b.docs = Append(builder.docs, builder.open)
    BY <1>0, <1>7, EventBuilds DEF Turns
  <2>2. /\ ev.name \in {"DocumentStart", "Scalar", "DocumentEnd", "StreamEnd"}
        /\ ev.next \in {"between", "in", "end"}
        /\ ev.name \in {"DocumentStart", "Scalar"} => ev.next = "in"
        /\ ev.name \in {"DocumentEnd", "StreamEnd"} => ev.next # "in"
        /\ ev.name = "StreamEnd" => scanner.ended /\ a = <<>> /\ ev.size = 0
    BY <1>7 DEF IsScalar, IsImplicitStart, IsMarkedStart, IsEnd, IsStreamEnd
  <2>3. ev.name = "StreamEnd" => scanner'.ahead = <<>>
    <3>1. SubSeq(a, 1, Len(a)) = a
      BY <1>1
    <3>2. ev.size = 0 => ev.size + 1 = 1
      OBVIOUS
    <3>3. QED
      BY <1>4, <2>2, <3>1, <3>2
  <2>4. DocumentsOf(Consumed)' = DocumentsOf(Consumed')
    BY DEF DocumentsOf
  <2> HIDE DEF b
  <2>5. Closed(DocumentsOf(Consumed), parser, scanner.ahead)'
    BY <1>4, <1>5, <2>1, <2>4 DEF Closed
  <2>6. Proceeds(ev, b)
    BY <1>4, <1>5, <2>1, <2>2, <2>3, <2>5 DEF Proceeds
  <2>7. QED
    BY <1>4, <1>5, <2>2, <2>6 DEF b
<1>8. QED
  BY <1>2, <1>6, <1>7

LEMMA TurnDone ==
  ASSUME IInv, NEW ev, Turns(ev),
         builder' \in [docs : Seq(Seq(C)), open : Seq(C)],
         delivered' \in Seq(Seq(C)),
         caller' \in [calling : BOOLEAN, done : BOOLEAN],
         answer' \in {"none", "doc", "stop", "parse", "io", "convert"},
         raised' \subseteq {"parse", "io", "convert"},
         slot' \in BOOLEAN,
         \/ slot' = slot /\ "io" \notin raised'
         \/ slot /\ "io" \in raised',
         Calls'
  PROVE  IInv'
<1>1. /\ scanner' \in [ahead : Seq(C), ended : BOOLEAN, failed : BOOLEAN]
      /\ scanner'.ended = scanner.ended
      /\ parser' \in {"between", "in", "end"}
      /\ Pulled'
  BY TurnFacts
<1>2. Typed /\ Reads /\ "io" \notin raised
  BY Running DEF Turns
<1>3. UNCHANGED <<api, source, reader, input, taken>>
  BY DEF Turns
<1>4. Typed'
  BY <1>1, <1>2, <1>3 DEF Typed
<1>5. Reads'
  BY <1>1, <1>2, <1>3 DEF Reads
<1>6. QED
  BY <1>1, <1>4, <1>5 DEF IInv

\* The stream's error is raised, and the documents stay as they are.
LEMMA RaisedIsBroken ==
  ASSUME IInv, NEW ev, Turns(ev), slot, caller'.done, delivered' = delivered,
         \/ builder' = builder
         \/ ev.name # "Error" /\ builder' = Processed(ev)
  PROVE  Broken'
<1>0. Typed /\ Pulled /\ Parsing
  BY Running DEF Turns
<1>1. taken' = taken /\ api' = api
  BY DEF Turns
<1>2. /\ ev.name \in {"Error", "DocumentStart", "Scalar", "DocumentEnd", "StreamEnd"}
      /\ ev.name = "Error" =>
           parser' = parser /\ scanner'.ahead = scanner.ahead /\ Consumed' = Consumed
      /\ ev.name # "Error" => Proceeds(ev, Processed(ev))
  BY TurnFacts
<1>3. delivered \in Seq(Seq(C)) /\ builder \in [docs : Seq(Seq(C)), open : Seq(C)]
  BY <1>0 DEF Typed
<1>4. /\ IsPrefix(delivered, DocumentsOf(taken))
      /\ delivered # <<>> => Len(delivered) < Len(DocumentsOf(taken))
  <2>1. ~(delivered # <<>> /\ parser # "in" /\ scanner.ahead = <<>>)
    BY <1>0 DEF Parsing
  <2>2. QED
    BY <1>0, <2>1, DeliveredAreDocuments
<1>5. DocumentsOf(taken)' = DocumentsOf(taken) /\ DocumentsOf(Consumed)' = DocumentsOf(Consumed')
  BY <1>1 DEF DocumentsOf
<1>6. ASSUME api # "all"
      PROVE  Len(builder'.docs) <= 1 /\ Len(DocumentsOf(Consumed')) <= Len(delivered) + 1
  <2>1. builder.docs = <<>> /\ Len(<<>>) = 0
    BY <1>0, <1>6 DEF Parsing
  <2>2. CASE ev.name = "Error"
    <3>1. Built(DocumentsOf(Consumed'), delivered, builder, parser, scanner.ahead)
      BY <1>0, <1>2, <2>2 DEF Parsing
    <3>2. Len(DocumentsOf(Consumed')) <= Len(delivered) + 1
      BY <1>3, <2>1, <3>1, OneMore
    <3>3. QED
      BY <2>1, <2>2, <3>2
  <2>3. CASE ev.name # "Error"
    <3> DEFINE b == Processed(ev)
    <3>1. /\ b \in [docs : Seq(Seq(C)), open : Seq(C)]
          /\ Built(DocumentsOf(Consumed'), delivered, b, parser', scanner'.ahead)
          /\ b.docs = <<>> \/ (parser' # "in" /\ b.docs = <<builder.open>>)
      <4>1. Proceeds(ev, b)
        BY <1>2, <2>3
      <4>2. Append(<<>>, builder.open) = <<builder.open>>
        OBVIOUS
      <4> HIDE DEF b
      <4>3. QED
        BY <1>2, <2>1, <2>3, <4>1, <4>2 DEF Proceeds
    <3> HIDE DEF b
    <3>2. /\ b.docs = <<>> => Len(DocumentsOf(Consumed')) <= Len(delivered) + 1
          /\ parser' # "in" => Len(DocumentsOf(Consumed')) = Len(delivered) + Len(b.docs)
      BY <1>3, <3>1, OneMore
    <3>a. b.docs = <<>> \/ (parser' # "in" /\ b.docs = <<builder.open>>)
      BY <3>1
    <3> DEFINE one == <<builder.open>>
               d == Len(DocumentsOf(Consumed'))
    <3>b. one # <<>> /\ Len(one) = 1
      OBVIOUS
    <3>3. Len(delivered) \in Nat
      BY <1>3
    <3> HIDE DEF one, d
    <3>c. b.docs = <<>> \/ (parser' # "in" /\ b.docs = one)
      BY <3>a DEF one
    <3> DEFINE m == Len(b.docs)
    <3>e. (b.docs = <<>> /\ m = 0) \/ (parser' # "in" /\ m = 1)
      BY <2>1, <3>c, <3>b, Zenon
    <3>f. (b.docs = <<>> => d <= Len(delivered) + 1) /\ (parser' # "in" => d = Len(delivered) + m)
      BY <3>2 DEF d
    <3> HIDE DEF m
    <3>4. m <= 1
      BY <3>e
    <3>5. d <= Len(delivered) + 1
      BY <3>e, <3>f, <3>3
    <3>d. Len(DocumentsOf(Consumed')) <= Len(delivered) + 1
      BY <3>5 DEF d
    <3>6. builder' = builder \/ builder' = b
      BY <2>3 DEF b
    <3>7. QED
      BY <2>1, <3>4, <3>6, <3>d DEF m
  <2>4. QED
    BY <2>2, <2>3
<1>7. QED
  BY <1>1, <1>4, <1>5, <1>6 DEF Broken

\* A turn that raises nothing of the stream: the documents go on as Proceeds says.
LEMMA GoesOn ==
  ASSUME IInv, NEW ev, Turns(ev), slot' = slot,
         Built(DocumentsOf(Consumed'), delivered', builder', parser', scanner'.ahead),
         Closed(DocumentsOf(Consumed), parser, scanner.ahead)',
         delivered' = <<>> \/ parser' = "in" \/ ~slot \/ scanner'.ahead # <<>>,
         api # "all" => builder'.docs = <<>>,
         api # "iter" /\ ~caller'.done => delivered' = <<>>
  PROVE  Parsing'
<1>1. DocumentsOf(Consumed)' = DocumentsOf(Consumed')
  BY DEF DocumentsOf
<1>2. Built(DocumentsOf(Consumed), delivered, builder, parser, scanner.ahead)'
  BY <1>1 DEF Built, AtContent
<1>3. api' = api
  BY DEF Turns
<1>4. QED
  BY <1>2, <1>3 DEF Parsing

\* An error of the parser leaves the documents as they are.
LEMMA ErrorGoesOn ==
  ASSUME IInv, NEW ev, Turns(ev), ev.name = "Error",
         delivered' = delivered, builder' = builder, slot' = slot,
         api # "iter" => caller'.done
  PROVE  Parsing'
<1>1. Parsing
  BY Running DEF Turns
<1>2. /\ parser' = parser /\ scanner'.ahead = scanner.ahead /\ Consumed' = Consumed
      /\ scanner'.ended = scanner.ended
  BY TurnFacts
<1>3. DocumentsOf(Consumed)' = DocumentsOf(Consumed')
  BY DEF DocumentsOf
<1>4. Built(DocumentsOf(Consumed'), delivered', builder', parser', scanner'.ahead)
  BY <1>1, <1>2 DEF Parsing
<1>5. Closed(DocumentsOf(Consumed), parser, scanner.ahead)'
  BY <1>1, <1>2, <1>3 DEF Parsing, Closed
<1>6. delivered' = <<>> \/ parser' = "in" \/ ~slot \/ scanner'.ahead # <<>>
  BY <1>1, <1>2 DEF Parsing
<1>7. api # "all" => builder'.docs = <<>>
  BY <1>1 DEF Parsing
<1>8. QED
  BY <1>4, <1>5, <1>6, <1>7, GoesOn

\* An event that completes no document to hand over.
LEMMA EventGoesOn ==
  ASSUME IInv, NEW ev, Turns(ev), ev.name # "Error",
         delivered' = delivered, builder' = Processed(ev), slot' = slot,
         api = "iter" => ~slot,
         api # "all" => ev.name # "DocumentEnd"
  PROVE  Parsing' /\ builder' \in [docs : Seq(Seq(C)), open : Seq(C)]
<1> DEFINE b == Processed(ev)
<1>1. Parsing /\ ~caller.done
  BY Running DEF Turns
<1>2. Proceeds(ev, b)
  BY TurnFacts
<1>3. ev.name \in {"DocumentStart", "Scalar", "DocumentEnd", "StreamEnd"}
  BY TurnFacts
<1>4. builder' = b
  OBVIOUS
<1> HIDE DEF b
<1>5. /\ b \in [docs : Seq(Seq(C)), open : Seq(C)]
      /\ Built(DocumentsOf(Consumed'), delivered', builder', parser', scanner'.ahead)
      /\ Closed(DocumentsOf(Consumed), parser, scanner.ahead)'
      /\ ev.name # "DocumentEnd" => b.docs = builder.docs
  BY <1>2, <1>3, <1>4 DEF Proceeds
<1>6. delivered' = <<>> \/ ~slot
  BY <1>1 DEF Parsing
<1>7. api # "all" => builder'.docs = <<>>
  BY <1>1, <1>4, <1>5 DEF Parsing
<1>8. api # "iter" /\ ~caller'.done => delivered' = <<>>
  BY <1>1 DEF Parsing
<1>9. QED
  BY <1>4, <1>5, <1>6, <1>7, <1>8, GoesOn

\* The documents that the builder has are handed over.
LEMMA HandsOver ==
  ASSUME IInv, NEW ev, Turns(ev), ev.name \in {"DocumentEnd", "StreamEnd"},
         ~slot, slot' = slot,
         delivered' = delivered \o Processed(ev).docs,
         builder' = [Processed(ev) EXCEPT !.docs = <<>>],
         api # "iter" => caller'.done
  PROVE  /\ Parsing'
         /\ builder' \in [docs : Seq(Seq(C)), open : Seq(C)] /\ builder'.docs = <<>>
         /\ delivered' \in Seq(Seq(C))
<1> DEFINE b == Processed(ev)
           V == Seq(C)
           docs == b.docs
           gd == delivered \o docs
<1>1. delivered \in Seq(V)
  BY Running DEF Turns, Typed
<1>2. Proceeds(ev, b)
  BY TurnFacts
<1>3. builder' = [b EXCEPT !.docs = <<>>] /\ delivered' = gd
  OBVIOUS
<1> HIDE DEF b
<1>4. /\ b \in [docs : Seq(V), open : V] /\ docs \in Seq(V)
      /\ Built(DocumentsOf(Consumed'), delivered, b, parser', scanner'.ahead)
      /\ Closed(DocumentsOf(Consumed), parser, scanner.ahead)'
      /\ parser' # "in"
  BY <1>2 DEF Proceeds
<1>5. builder' \in [docs : Seq(V), open : V] /\ builder'.docs = <<>>
  <2>1. <<>> \in Seq(V)
    OBVIOUS
  <2> HIDE DEF V
  <2>2. QED
    BY <1>3, <1>4, <2>1
<1>6. gd \in Seq(V) /\ gd \o <<>> = gd
  <2> HIDE DEF V, docs
  <2>1. gd \in Seq(V)
    BY <1>1, <1>4, ConcatProperties
  <2> HIDE DEF gd
  <2>2. QED
    BY <2>1
<1>7. DocumentsOf(Consumed') = gd
  BY <1>4 DEF Built
<1>8. Built(DocumentsOf(Consumed'), delivered', builder', parser', scanner'.ahead)
  <2> HIDE DEF gd
  <2>1. QED
    BY <1>3, <1>4, <1>5, <1>6, <1>7 DEF Built
<1>9. delivered' = <<>> \/ parser' = "in" \/ ~slot \/ scanner'.ahead # <<>>
  OBVIOUS
<1>10. Parsing'
  BY <1>4, <1>5, <1>8, <1>9, GoesOn
<1>11. QED
  BY <1>3, <1>5, <1>6, <1>10

\* One turn of the loop of __next__.
LEMMA IterTurnIInv ==
  ASSUME IInv, NEW ev, Turns(ev), api = "iter", IterTurn(ev)
  PROVE  IInv'
<1> DEFINE b == Processed(ev)
           end == ev.name = "StreamEnd"
           Docs == [docs : Seq(Seq(C)), open : Seq(C)]
<1>0. /\ Typed /\ Parsing /\ "io" \notin raised /\ ~caller.done /\ caller.calling
      /\ api' = api
  BY Running DEF Turns
<1>1. /\ builder \in Docs /\ delivered \in Seq(Seq(C)) /\ slot \in BOOLEAN
      /\ raised \subseteq {"parse", "io", "convert"}
      /\ caller \in [calling : BOOLEAN, done : BOOLEAN]
      /\ answer \in {"none", "doc", "stop", "parse", "io", "convert"}
  BY <1>0 DEF Typed
<1>2. builder.docs = <<>>
  BY <1>0 DEF Parsing
<1>3. /\ ev.name # "Error" => Proceeds(ev, b)
      /\ scanner'.ended = scanner.ended
  BY TurnFacts
<1>4. [calling |-> FALSE, done |-> TRUE] \in [calling : BOOLEAN, done : BOOLEAN]
      /\ [calling |-> FALSE, done |-> FALSE] \in [calling : BOOLEAN, done : BOOLEAN]
  OBVIOUS
<1> HIDE DEF Docs
<1>5. CASE ev.name = "Error"
  <2>1. /\ answer' = "parse" /\ raised' = raised \cup {"parse"}
        /\ caller' = [calling |-> FALSE, done |-> FALSE]
        /\ delivered' = delivered /\ builder' = builder /\ slot' = slot
    BY <1>5 DEF IterTurn, Raise
  <2>2. Parsing'
    BY <1>5, <2>1, ErrorGoesOn
  <2>3. "io" \notin raised' /\ ~caller'.done /\ raised' \subseteq {"parse", "io", "convert"}
    BY <1>0, <1>1, <2>1
  <2>4. Calls'
    BY <2>2, <2>3 DEF Calls
  <2>5. QED
    BY <1>1, <1>4, <2>1, <2>3, <2>4, TurnDone DEF Docs
<1>6. CASE ev.name # "Error" /\ slot
  <2>1. /\ answer' = "io" /\ raised' = raised \cup {"io"}
        /\ caller' = [calling |-> FALSE, done |-> TRUE]
        /\ delivered' = delivered /\ builder' = builder /\ slot' = FALSE
    BY <1>6 DEF IterTurn, Raise
  <2>2. caller'.done /\ ~caller'.calling
    BY <2>1
  <2>3. Broken'
    BY <1>6, <2>1, <2>2, RaisedIsBroken
  <2>4. "io" \in raised' /\ raised' \subseteq {"parse", "io", "convert"} /\ raised' # {}
    BY <1>1, <2>1
  <2>5. Calls'
    BY <2>2, <2>3, <2>4 DEF Calls
  <2>6. QED
    BY <1>1, <1>4, <1>6, <2>1, <2>4, <2>5, TurnDone DEF Docs
<1>7. CASE ev.name # "Error" /\ ~slot /\ ~end /\ ev.name # "DocumentEnd"
  <2>1. slot' = slot /\ builder' = b
        /\ UNCHANGED <<caller, answer, delivered, raised>>
    BY <1>7 DEF IterTurn, calling
  <2>2. Parsing' /\ builder' \in Docs
    BY <1>7, <2>1, EventGoesOn DEF Docs
  <2>3. Calls'
    BY <1>0, <2>1, <2>2 DEF Calls
  <2>4. QED
    BY <1>0, <1>1, <2>1, <2>2, <2>3, TurnDone DEF Docs
<1>8. CASE end /\ ~slot
  <2>1. b.docs = <<>> /\ parser' # "in" /\ scanner'.ended /\ scanner'.ahead = <<>>
    BY <1>2, <1>3, <1>8 DEF Proceeds
  <2>2. /\ slot' = slot /\ builder' = b /\ answer' = "stop"
        /\ caller' = [calling |-> FALSE, done |-> TRUE]
        /\ delivered' = delivered /\ raised' = raised
    BY <1>8, <2>1 DEF IterTurn, Stop
  <2>3. Parsing' /\ builder' \in Docs
    BY <1>8, <2>2, EventGoesOn DEF Docs
  <2>4. ~slot' /\ builder'.docs = <<>> /\ ~caller'.calling
    BY <1>8, <2>1, <2>2
  <2>5. Calls'
    BY <1>0, <2>1, <2>2, <2>3, <2>4 DEF Calls
  <2>6. QED
    BY <1>0, <1>1, <1>4, <2>2, <2>3, <2>5, TurnDone DEF Docs
<1>9. CASE ev.name = "DocumentEnd" /\ ~slot
  <2>1. b.docs = <<builder.open>>
    <3>1. Append(<<>>, builder.open) = <<builder.open>>
      OBVIOUS
    <3>2. QED
      BY <1>2, <1>3, <1>9, <3>1 DEF Proceeds
  <2>2. <<(b.docs)[1]>> = b.docs /\ Tail(b.docs) = <<>> /\ b.docs # <<>>
    BY <2>1
  <2>3. HandOver(b, b.docs, <<>>, FALSE) /\ slot' = slot
    <3>1. slot' = slot /\ HandOver(b, <<(b.docs)[1]>>, Tail(b.docs), end)
      BY <1>9, <2>2 DEF IterTurn
    <3>2. end = FALSE
      BY <1>9
    <3>3. QED
      BY <2>2, <3>1, <3>2
  <2>4. /\ builder' = [b EXCEPT !.docs = <<>>] /\ delivered' = delivered \o b.docs
        /\ caller' = [calling |-> FALSE, done |-> FALSE]
        /\ answer' \in {"doc", "convert"}
        /\ raised' = raised \/ raised' = raised \cup {"convert"}
    BY <2>3 DEF HandOver
  <2>5. Parsing' /\ builder' \in Docs /\ delivered' \in Seq(Seq(C))
    BY <1>9, <2>3, <2>4, HandsOver DEF Docs
  <2>6. "io" \notin raised' /\ raised' \subseteq {"parse", "io", "convert"} /\ ~caller'.done
    BY <1>0, <1>1, <2>4
  <2>7. Calls'
    BY <2>5, <2>6 DEF Calls
  <2>8. caller' \in [calling : BOOLEAN, done : BOOLEAN] /\ slot' \in BOOLEAN
        /\ answer' \in {"none", "doc", "stop", "parse", "io", "convert"}
    BY <1>1, <1>4, <2>3, <2>4
  <2>9. QED
    BY <2>3, <2>5, <2>6, <2>7, <2>8, TurnDone DEF Docs
<1>10. QED
  BY <1>5, <1>6, <1>7, <1>8, <1>9

\* One turn of the loops of parse_stream and parse_stream_first.
LEMMA LoadTurnIInv ==
  ASSUME IInv, NEW ev, Turns(ev), api # "iter", LoadTurn(ev)
  PROVE  IInv'
<1> DEFINE b == IF ev.name = "Error" THEN builder ELSE Processed(ev)
           over == \/ ev.name \in {"Error", "StreamEnd"}
                   \/ api = "first" /\ ev.name = "DocumentEnd"
           Docs == [docs : Seq(Seq(C)), open : Seq(C)]
<1>0. /\ Typed /\ Parsing /\ "io" \notin raised /\ ~caller.done /\ caller.calling
      /\ api' = api
  BY Running DEF Turns
<1>1. /\ builder \in Docs /\ delivered \in Seq(Seq(C)) /\ slot \in BOOLEAN
      /\ raised \subseteq {"parse", "io", "convert"}
      /\ caller \in [calling : BOOLEAN, done : BOOLEAN]
      /\ answer \in {"none", "doc", "stop", "parse", "io", "convert"}
      /\ api \in {"iter", "all", "first"}
  BY <1>0, LoadStreamConstants DEF Typed
<1>3. /\ ev.name # "Error" => Proceeds(ev, Processed(ev))
      /\ ev.name \in {"Error", "DocumentStart", "Scalar", "DocumentEnd", "StreamEnd"}
  BY TurnFacts
<1>4. [calling |-> FALSE, done |-> TRUE] \in [calling : BOOLEAN, done : BOOLEAN]
  OBVIOUS
<1>5. b \in Docs
  BY <1>1, <1>3 DEF Proceeds
<1> HIDE DEF Docs
<1>6. CASE ~over
  <2>1. slot' = slot /\ builder' = Processed(ev)
        /\ UNCHANGED <<caller, answer, delivered, raised>>
    BY <1>6 DEF LoadTurn, calling
  <2>2. ev.name # "Error" /\ (api # "all" => ev.name # "DocumentEnd")
    BY <1>1, <1>6
  <2>3. Parsing' /\ builder' \in Docs
    BY <2>1, <2>2, EventGoesOn DEF Docs
  <2>4. Calls'
    BY <1>0, <2>1, <2>3 DEF Calls
  <2>5. QED
    BY <1>0, <1>1, <2>1, <2>3, <2>4, TurnDone DEF Docs
<1>7. CASE over /\ slot
  <2>1. /\ answer' = "io" /\ raised' = raised \cup {"io"}
        /\ caller' = [calling |-> FALSE, done |-> TRUE]
        /\ delivered' = delivered /\ builder' = b /\ slot' = FALSE
    BY <1>7 DEF LoadTurn, Raise
  <2>2. caller'.done /\ ~caller'.calling
    BY <2>1
  <2>3. builder' = builder \/ (ev.name # "Error" /\ builder' = Processed(ev))
    BY <2>1
  <2>4. Broken'
    BY <1>7, <2>1, <2>2, <2>3, RaisedIsBroken
  <2>5. "io" \in raised' /\ raised' \subseteq {"parse", "io", "convert"} /\ raised' # {}
    BY <1>1, <2>1
  <2>6. Calls'
    BY <2>2, <2>4, <2>5 DEF Calls
  <2>7. builder' \in Docs
    BY <1>5, <2>1
  <2>8. QED
    BY <1>1, <1>4, <1>7, <2>1, <2>5, <2>6, <2>7, TurnDone DEF Docs
<1>8. CASE over /\ ~slot /\ ev.name = "Error"
  <2>1. /\ answer' = "parse" /\ raised' = raised \cup {"parse"}
        /\ caller' = [calling |-> FALSE, done |-> TRUE]
        /\ delivered' = delivered /\ builder' = builder /\ slot' = slot
    BY <1>8 DEF LoadTurn, Raise
  <2>2. caller'.done /\ ~caller'.calling
    BY <2>1
  <2>3. Parsing'
    BY <1>8, <2>1, <2>2, ErrorGoesOn
  <2>4. "io" \notin raised' /\ raised' \subseteq {"parse", "io", "convert"} /\ raised' # {}
    BY <1>0, <1>1, <2>1
  <2>5. Calls'
    BY <2>2, <2>3, <2>4 DEF Calls
  <2>6. QED
    BY <1>1, <1>4, <2>1, <2>4, <2>5, TurnDone DEF Docs
<1>9. CASE over /\ ~slot /\ ev.name # "Error"
  <2> DEFINE p == Processed(ev)
  <2>0. /\ ev.name \in {"DocumentEnd", "StreamEnd"} /\ slot' = slot
        /\ ev.name = "DocumentEnd" => api = "first"
        /\ IF p.docs = <<>> THEN builder' = p /\ Stop(TRUE)
                            ELSE HandOver(p, p.docs, <<>>, TRUE)
    BY <1>1, <1>9 DEF LoadTurn
  <2>1. /\ ev.name = "StreamEnd" =>
             p.docs = builder.docs /\ scanner'.ended /\ scanner'.ahead = <<>>
        /\ parser' # "in"
        /\ ev.name = "DocumentEnd" => p.docs = Append(builder.docs, builder.open)
    BY <1>3, <1>9, <2>0 DEF Proceeds
  <2>2. CASE p.docs = <<>>
    <3>1. /\ builder' = p /\ answer' = "stop"
          /\ caller' = [calling |-> FALSE, done |-> TRUE]
          /\ delivered' = delivered /\ raised' = raised
      BY <2>0, <2>2 DEF Stop
    <3>2. ev.name # "DocumentEnd"
      <4> DEFINE ds == builder.docs
                 V == Seq(C)
      <4>1. ds \in Seq(V) /\ builder.open \in V
        BY <1>1 DEF Docs
      <4> HIDE DEF ds, V
      <4>2. Append(ds, builder.open) # <<>>
        BY <4>1
      <4>3. QED
        BY <2>1, <2>2, <4>2 DEF ds
    <3>3. Parsing' /\ builder' \in Docs
      BY <1>9, <2>0, <3>1, <3>2, EventGoesOn DEF Docs
    <3>4. ~slot' /\ builder'.docs = <<>> /\ ~caller'.calling
      BY <1>9, <2>0, <2>2, <3>1
    <3>5. Calls'
      BY <1>0, <2>0, <2>1, <3>1, <3>2, <3>3, <3>4 DEF Calls
    <3>6. QED
      BY <1>0, <1>1, <1>4, <2>0, <3>1, <3>3, <3>5, TurnDone DEF Docs
  <2>3. CASE p.docs # <<>>
    <3>1. /\ builder' = [p EXCEPT !.docs = <<>>] /\ delivered' = delivered \o p.docs
          /\ caller' = [calling |-> FALSE, done |-> TRUE]
          /\ answer' \in {"doc", "convert"}
          /\ raised' = raised \/ raised' = raised \cup {"convert"}
      BY <2>0, <2>3 DEF HandOver
    <3>2. caller'.done /\ ~caller'.calling
      BY <3>1
    <3>3. /\ Parsing' /\ builder' \in Docs /\ builder'.docs = <<>>
          /\ delivered' \in Seq(Seq(C))
      BY <1>9, <2>0, <3>1, <3>2, HandsOver DEF Docs
    <3>4. "io" \notin raised' /\ raised' \subseteq {"parse", "io", "convert"}
      BY <1>0, <1>1, <3>1
    <3>5. api' # "first" => scanner'.ended /\ scanner'.ahead = <<>>
      BY <1>0, <2>0, <2>1
    <3>6. ~slot'
      BY <1>9, <2>0
    <3>7. Calls'
      BY <2>1, <3>2, <3>3, <3>4, <3>5, <3>6 DEF Calls
    <3>8. caller' \in [calling : BOOLEAN, done : BOOLEAN] /\ slot' \in BOOLEAN
          /\ answer' \in {"none", "doc", "stop", "parse", "io", "convert"}
      BY <1>1, <1>4, <2>0, <3>1
    <3>9. QED
      BY <2>0, <3>3, <3>4, <3>7, <3>8, TurnDone DEF Docs
  <2>4. QED
    BY <2>2, <2>3
<1>10. QED
  BY <1>6, <1>7, <1>8, <1>9

LEMMA NextIInv == IInv /\ [Next]_vars => IInv'
<1> SUFFICES ASSUME IInv, [Next]_vars PROVE IInv'
  OBVIOUS
<1>1. CASE Call
  BY <1>1, CallIInv
<1>2. CASE ReadChunk
  BY <1>2, ReadChunkIInv
<1>3. CASE TakeChar
  BY <1>3, TakeCharIInv
<1>4. CASE MeetEnd
  BY <1>4, MeetEndIInv
<1>5. CASE NextToken
  <2> DEFINE ev == NextEvent
  <2>1. /\ caller.calling /\ TokenReady
        /\ Consume(ev) /\ parser' = ev.next
        /\ IF api = "iter" THEN IterTurn(ev) ELSE LoadTurn(ev)
        /\ UNCHANGED <<api, source, reader, input, taken>>
    BY <1>5 DEF NextToken
  <2>2. Turns(ev)
    BY <2>1 DEF Turns
  <2>3. CASE api = "iter"
    BY <2>1, <2>2, <2>3, IterTurnIInv
  <2>4. CASE api # "iter"
    BY <2>1, <2>2, <2>4, LoadTurnIInv
  <2>5. QED
    BY <2>3, <2>4
<1>6. CASE UNCHANGED vars
  <2>1. /\ UNCHANGED <<api, source, reader, slot, input, scanner, taken, parser, builder>>
        /\ UNCHANGED <<caller, answer, delivered, raised>>
    BY <1>6 DEF vars, reading, scanning, building, calling
  <2>2. Typed'
    BY <2>1 DEF IInv, Typed
  <2>3. Reads' /\ Pulled' /\ Consumed' = Consumed
    BY <2>1 DEF IInv, Reads, Pulled, Consumed
  <2>4. /\ DocumentsOf(taken)' = DocumentsOf(taken)
        /\ DocumentsOf(Consumed)' = DocumentsOf(Consumed)
    BY <2>1, <2>3 DEF DocumentsOf
  <2>5. Calls'
    BY <2>1, <2>3, <2>4 DEF IInv, Calls, Broken, Parsing, Built, Closed
  <2>6. QED
    BY <2>2, <2>3, <2>5 DEF IInv
<1>7. QED
  BY <1>1, <1>2, <1>3, <1>4, <1>5, <1>6 DEF Next

LEMMA InvariantHolds == Spec => []IInv
BY InitIInv, NextIInv, PTL DEF Spec

(***************************************************************************)
(* The theorems.                                                           *)
(***************************************************************************)
\* Every variable of the loading pipeline has its type, whatever the chunks are.
THEOREM TypeCorrect == Spec => []TypeOK
<1>1. IInv => TypeOK
  BY DEF IInv, Typed, TypeOK, C
<1>2. QED
  BY <1>1, InvariantHolds, PTL

\* Each byte read is in one character or pending, for chunks of every size and every
\* cut of the characters; the end of the source leaves none pending (PyIoCharsIter).
THEOREM BytesAreDecodedOnce == Spec => []EveryByteDecodedOnce
<1>1. IInv => EveryByteDecodedOnce
  BY DEF IInv, Reads, EveryByteDecodedOnce
<1>2. QED
  BY <1>1, InvariantHolds, PTL

\* The callers of all three loads get the documents of the text, in order, none of them
\* cut short by an error of the stream, and all of them when nothing was raised.
THEOREM DocumentsAreDelivered == Spec => []DocumentsAreWhole
<1>1. IInv => DocumentsAreWhole
  <2> SUFFICES ASSUME IInv PROVE DocumentsAreWhole
    OBVIOUS
  <2> DEFINE docs == DocumentsOf(taken)
             V == Seq(C)
  <2>0. Typed /\ Reads /\ Pulled /\ Calls
    BY DEF IInv
  <2>a. delivered \in Seq(V) /\ taken \in V /\ builder \in [docs : Seq(V), open : V]
    BY <2>0 DEF Typed
  <2>b. docs \in Seq(V)
    BY <2>a, DocumentsType
  <2>1. CASE "io" \in raised
    <3>1. Broken
      BY <2>0, <2>1 DEF Calls
    <3>2. IsPrefix(delivered, docs) /\ (delivered # <<>> => Len(delivered) < Len(docs))
      BY <3>1 DEF Broken
    <3>3. raised # {} /\ Len(delivered) \in Nat /\ Len(docs) \in Nat
      <4> HIDE DEF V, docs
      <4>1. QED
        BY <2>1, <2>a, <2>b
    <3>4. ~(delivered # <<>> /\ Len(delivered) = Len(docs))
      <4> HIDE DEF docs
      <4>1. QED
        BY <3>2, <3>3
    <3>5. QED
      BY <3>2, <3>3, <3>4 DEF DocumentsAreWhole
  <2>2. CASE "io" \notin raised
    <3>1. Parsing
      BY <2>0, <2>2 DEF Calls
    <3>2. IsPrefix(delivered, docs)
      BY <2>0, <3>1, DeliveredAreDocuments
    <3>3. ASSUME delivered # <<>>, Len(delivered) = Len(docs)
          PROVE  reader.done /\ ~slot
      <4>1. Len(delivered) \in Nat
        <5> HIDE DEF V
        <5>1. QED
          BY <2>a
      <4>2. ~(Len(delivered) < Len(docs))
        <5> HIDE DEF docs
        <5>1. QED
          BY <3>3, <4>1
      <4>3. parser # "in" /\ scanner.ahead = <<>> /\ scanner.ended
        BY <2>0, <3>1, <3>3, <4>2, DeliveredAreDocuments
      <4>4. ~slot
        BY <3>1, <3>3, <4>3 DEF Parsing
      <4>5. reader.done
        BY <2>0, <4>3 DEF Reads
      <4>6. QED
        BY <4>4, <4>5
    <3>4. ASSUME api # "first", caller.done, raised = {}
          PROVE  Encode(taken) = input /\ delivered = docs
      <4>1. /\ scanner.ended /\ scanner.ahead = <<>> /\ parser # "in"
            /\ ~slot /\ builder.docs = <<>>
        BY <2>0, <3>4 DEF Calls
      <4>2. reader.done /\ reader.buf = <<>>
        BY <2>0, <4>1 DEF Reads
      <4>3. reader.pending = <<>>
        BY <2>0, <3>4, <4>1, <4>2 DEF Reads
      <4>4. Encode(taken) = input
        <5> DEFINE et == Encode(taken)
        <5>1. taken \o <<>> = taken
          BY <2>a
        <5>2. et \in Seq(Octets)
          BY <2>a, EncodeType
        <5>3. et \o <<>> = input
          BY <2>0, <4>2, <4>3, <5>1 DEF Reads
        <5> HIDE DEF et
        <5>4. et = input
          BY <5>2, <5>3
        <5>5. QED
          BY <5>4 DEF et
      <4>5. Consumed = taken
        <5> DEFINE c == Consumed
        <5>1. c \in Seq(C) /\ taken = c \o <<>>
          BY <2>0, <4>1 DEF Pulled
        <5> HIDE DEF c
        <5>2. taken = c
          BY <5>1
        <5>3. QED
          BY <5>2 DEF c
      <4>6. docs = delivered \o <<>>
        BY <3>1, <4>1, <4>5 DEF Parsing, Built
      <4>7. delivered \o <<>> = delivered
        <5> HIDE DEF V
        <5>1. QED
          BY <2>a
      <4>8. QED
        BY <4>4, <4>6, <4>7
    <3>5. QED
      BY <2>2, <3>2, <3>3, <3>4 DEF DocumentsAreWhole
  <2>3. QED
    BY <2>1, <2>2
<1>2. QED
  BY <1>1, InvariantHolds, PTL

\* An iterator and load never have more than one finished document, and have consumed
\* the tokens of at most one document more than they have handed over.
THEOREM OneAtATime == Spec => []OneDocumentAtATime
<1>1. IInv => OneDocumentAtATime
  <2> SUFFICES ASSUME IInv, api # "all"
               PROVE  Len(builder.docs) <= 1 /\ Len(DocumentsOf(Consumed)) <= Len(delivered) + 1
    BY DEF OneDocumentAtATime, Consumed
  <2>1. CASE "io" \in raised
    BY <2>1 DEF IInv, Calls, Broken
  <2>2. CASE "io" \notin raised
    <3>1. Parsing /\ Typed
      BY <2>2 DEF IInv, Calls
    <3>2. builder.docs = <<>> /\ Len(<<>>) <= 1
      BY <3>1 DEF Parsing
    <3>3. delivered \in Seq(Seq(C)) /\ builder \in [docs : Seq(Seq(C)), open : Seq(C)]
      BY <3>1 DEF Typed
    <3>4. Len(DocumentsOf(Consumed)) <= Len(delivered) + 1
      BY <3>1, <3>2, <3>3, OneMore DEF Parsing
    <3>5. QED
      BY <3>2, <3>4
  <2>3. QED
    BY <2>1, <2>2
<1>2. QED
  BY <1>1, InvariantHolds, PTL
=================================================================================
