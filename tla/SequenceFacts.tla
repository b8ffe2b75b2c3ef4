----------------------------- MODULE SequenceFacts -----------------------------
(***************************************************************************)
(* Facts about numbers and sequences that the proofs of several components *)
(* need, and the library's theorems do not give.                           *)
(***************************************************************************)
EXTENDS SequencesExt, Integers, WellFoundedInduction, SequenceTheorems, TLAPS

\* A set that holds 0, and with each number the next, holds all numbers: induction over
\* a set, which the provers can use for any property that is a set's.
LEMMA InductionOverSet ==
  ASSUME NEW S, 0 \in S, \A n \in Nat : n \in S => n + 1 \in S
  PROVE  Nat \subseteq S
<1> DEFINE R == OpToRel(LAMBDA x, y : x < y, Nat)
<1> SUFFICES ASSUME Nat \ S # {} PROVE FALSE
  OBVIOUS
<1>1. PICK m \in Nat \ S : \A k \in Nat \ S : <<k, m>> \notin R
  BY NatLessThanWellFounded, WFMin
<1>2. \A k \in Nat \ S : ~(k < m)
  BY <1>1 DEF OpToRel
<1>3. m # 0
  OBVIOUS
<1>4. m - 1 \in Nat /\ m - 1 < m /\ (m - 1) + 1 = m
  BY <1>3
<1>5. QED
  BY <1>2, <1>4

\* A sequence that is not empty is one sequence and one element more.
LEMMA LastSplits ==
  ASSUME NEW S, NEW s \in Seq(S), NEW n \in Nat, Len(s) = n + 1
  PROVE  \E t \in Seq(S), x \in S : s = Append(t, x) /\ Len(t) = n
<1> DEFINE t == [i \in 1 .. n |-> s[i]]
<1>1. \A i \in 1 .. n + 1 : s[i] \in S
  OBVIOUS
<1>2. t \in Seq(S) /\ Len(t) = n /\ \A i \in 1 .. n : t[i] = s[i]
  BY <1>1
<1>3. s[n + 1] \in S
  BY <1>1
<1> HIDE DEF t
<1> DEFINE u == Append(t, s[n + 1])
<1>4. u \in Seq(S) /\ Len(u) = n + 1 /\ u[n + 1] = s[n + 1] /\ \A i \in 1 .. n : u[i] = s[i]
  BY <1>2, <1>3, AppendProperties
<1> HIDE DEF u
<1>5. \A i \in 1 .. n + 1 : u[i] = s[i]
  BY <1>4
<1>6. s = u
  BY <1>4, <1>5, SeqEqual
<1>7. QED
  BY <1>2, <1>3, <1>6 DEF u

\* A set that holds <<>>, and with a sequence each that is one longer, holds all.
LEMMA SequenceInduction ==
  ASSUME NEW S, NEW D, <<>> \in D,
         \A s \in Seq(S), x \in S : s \in D => Append(s, x) \in D
  PROVE  Seq(S) \subseteq D
<1> DEFINE N == {n \in Nat : \A s \in Seq(S) : Len(s) = n => s \in D}
<1>1. 0 \in N
  OBVIOUS
<1>2. ASSUME NEW n \in Nat, n \in N PROVE n + 1 \in N
  <2> SUFFICES ASSUME NEW s \in Seq(S), Len(s) = n + 1 PROVE s \in D
    OBVIOUS
  <2>1. PICK t \in Seq(S), x \in S : s = Append(t, x) /\ Len(t) = n
    BY LastSplits
  <2>2. t \in D
    BY <1>2, <2>1
  <2>3. QED
    BY <2>1, <2>2
<1> HIDE DEF N
<1>3. Nat \subseteq N
  BY <1>1, <1>2, InductionOverSet
<1>4. QED
  BY <1>3 DEF N

\* g is what the steps T make of the base, one after the other.
Recursion(g, base, n, T) == g[0] = base /\ \A i \in 1 .. n : g[i] = T[i][g[i - 1]]

LEMMA RecursionExists ==
  ASSUME NEW V, NEW base \in V, NEW n \in Nat, NEW T \in [1 .. n -> [V -> V]]
  PROVE  \E g \in [0 .. n -> V] : Recursion(g, base, n, T)
<1> DEFINE Steps(g, m) == g[0] = base /\ \A i \in 1 .. m : g[i] = T[i][g[i - 1]]
           D == {m \in Nat : m <= n => \E g \in [0 .. m -> V] : Steps(g, m)}
<1>1. 0 \in D
  <2>1. [i \in 0 .. 0 |-> base] \in [0 .. 0 -> V] /\ Steps([i \in 0 .. 0 |-> base], 0)
    OBVIOUS
  <2>2. QED
    BY <2>1
<1>2. ASSUME NEW m \in Nat, m \in D PROVE m + 1 \in D
  <2> SUFFICES ASSUME m + 1 <= n PROVE \E h \in [0 .. m + 1 -> V] : Steps(h, m + 1)
    <3>1. m + 1 \in Nat
      OBVIOUS
    <3> HIDE DEF Steps
    <3>2. QED
      BY <3>1
  <2>1. PICK g \in [0 .. m -> V] : Steps(g, m)
    <3>1. m <= n
      OBVIOUS
    <3> HIDE DEF Steps
    <3>2. QED
      BY <1>2, <3>1
  <2> DEFINE last == T[m + 1][g[m]]
             h == [i \in 0 .. m + 1 |-> IF i = m + 1 THEN last ELSE g[i]]
  <2>2. last \in V
    <3>1. m + 1 \in 1 .. n /\ m \in 0 .. m
      OBVIOUS
    <3>2. T[m + 1] \in [V -> V] /\ g[m] \in V
      BY <3>1
    <3>3. QED
      BY <3>2
  <2>3. last = T[m + 1][g[m]]
    OBVIOUS
  <2> HIDE DEF last
  <2>4. h \in [0 .. m + 1 -> V]
    BY <2>2
  <2>5. h[0] = base /\ h[m + 1] = last /\ \A i \in 0 .. m : h[i] = g[i]
    BY <2>1
  <2> HIDE DEF h
  <2>6. ASSUME NEW i \in 1 .. m + 1 PROVE h[i] = T[i][h[i - 1]]
    <3>1. i - 1 \in 0 .. m /\ h[i - 1] = g[i - 1]
      BY <2>5
    <3>2. CASE i = m + 1
      <4>1. i - 1 = m
        BY <3>2
      <4>2. QED
        BY <2>3, <2>5, <3>1, <3>2, <4>1
    <3>3. CASE i # m + 1
      <4>1. i \in 1 .. m /\ i \in 0 .. m
        BY <3>3
      <4>2. QED
        BY <2>1, <2>5, <3>1, <4>1
    <3>4. QED
      BY <3>2, <3>3
  <2>7. QED
    BY <2>4, <2>5, <2>6
<1> HIDE DEF D
<1>3. Nat \subseteq D
  BY <1>1, <1>2, InductionOverSet
<1>4. QED
  BY <1>3 DEF D, Recursion

(***************************************************************************)
(* FlattenSeq.                                                             *)
(***************************************************************************)
\* g flattens the beginnings of ss.
Flattens(g, ss) ==
  g = [i \in 1 .. Len(ss) |-> IF i = 1 THEN ss[i] ELSE g[i - 1] \o ss[i]]

LEMMA FlatteningExists ==
  ASSUME NEW S, NEW ss \in Seq(Seq(S))
  PROVE  \E g \in [1 .. Len(ss) -> Seq(S)] : Flattens(g, ss)
<1> DEFINE Step(g, i) == IF i = 1 THEN ss[i] ELSE g[i - 1] \o ss[i]
           Steps(g, n) == \A i \in 1 .. n : g[i] = Step(g, i)
           D == {n \in Nat : n <= Len(ss) => \E g \in [1 .. n -> Seq(S)] : Steps(g, n)}
<1>1. 0 \in D
  <2>1. [i \in 1 .. 0 |-> <<>>] \in [1 .. 0 -> Seq(S)] /\ Steps([i \in 1 .. 0 |-> <<>>], 0)
    OBVIOUS
  <2>2. QED
    BY <2>1
<1>2. ASSUME NEW n \in Nat, n \in D PROVE n + 1 \in D
  <2> SUFFICES ASSUME n + 1 <= Len(ss)
               PROVE  \E h \in [1 .. n + 1 -> Seq(S)] : Steps(h, n + 1)
    <3>1. n + 1 \in Nat
      OBVIOUS
    <3> HIDE DEF Steps
    <3>2. QED
      BY <3>1
  <2>0. Len(ss) \in Nat /\ \A i \in 1 .. Len(ss) : ss[i] \in Seq(S)
    OBVIOUS
  <2>1. PICK g \in [1 .. n -> Seq(S)] : Steps(g, n)
    <3>1. n <= Len(ss)
      BY <2>0
    <3> HIDE DEF Steps
    <3>2. QED
      BY <1>2, <3>1
  <2> DEFINE h == [i \in 1 .. n + 1 |-> IF i = n + 1 THEN Step(g, i) ELSE g[i]]
  <2>2. Step(g, n + 1) \in Seq(S)
    <3>1. CASE n = 0
      BY <2>0, <3>1
    <3>2. CASE n # 0
      <4>1. g[n] \in Seq(S) /\ ss[n + 1] \in Seq(S)
        BY <2>0, <3>2
      <4>2. QED
        BY <3>2, <4>1, ConcatProperties
    <3>3. QED
      BY <3>1, <3>2
  <2>3. h \in [1 .. n + 1 -> Seq(S)]
    BY <2>2
  <2>4. ASSUME NEW i \in 1 .. n + 1 PROVE h[i] = Step(h, i)
    <3>1. i # 1 => h[i - 1] = g[i - 1]
      OBVIOUS
    <3>2. Step(h, i) = Step(g, i)
      BY <3>1
    <3>3. h[i] = Step(g, i)
      <4>1. CASE i = n + 1
        BY <4>1
      <4>2. CASE i # n + 1
        <5>1. i \in 1 .. n
          BY <4>2
        <5>2. h[i] = g[i]
          BY <4>2
        <5>3. g[i] = Step(g, i)
          BY <2>1, <5>1
        <5> HIDE DEF h, Step
        <5>4. QED
          BY <5>2, <5>3
      <4>3. QED
        BY <4>1, <4>2
    <3> HIDE DEF h, Step
    <3>4. QED
      BY <3>2, <3>3
  <2> HIDE DEF h
  <2>5. QED
    BY <2>3, <2>4
<1> HIDE DEF D
<1>3. Nat \subseteq D
  BY <1>1, <1>2, InductionOverSet
<1>4. Len(ss) \in Nat
  OBVIOUS
<1>5. \E g \in [1 .. Len(ss) -> Seq(S)] : Steps(g, Len(ss))
  <2> HIDE DEF Steps
  <2>1. QED
    BY <1>3, <1>4 DEF D
<1>6. QED
  BY <1>5 DEF Flattens

\* FlattenSeq is the last of the flattened beginnings.
LEMMA FlattenSeqIs ==
  ASSUME NEW S, NEW ss \in Seq(Seq(S)), Len(ss) # 0
  PROVE  \E g \in [1 .. Len(ss) -> Seq(S)] :
           /\ \A i \in 1 .. Len(ss) : g[i] = IF i = 1 THEN ss[i] ELSE g[i - 1] \o ss[i]
           /\ FlattenSeq(ss) = g[Len(ss)]
<1> DEFINE f == CHOOSE g : Flattens(g, ss)
<1>1. Flattens(f, ss)
  BY FlatteningExists
<1>2. FlattenSeq(ss) = f[Len(ss)]
  BY DEF FlattenSeq, Flattens
<1> HIDE DEF f
<1>3. \A i \in 1 .. Len(ss) : f[i] = IF i = 1 THEN ss[i] ELSE f[i - 1] \o ss[i]
  BY <1>1 DEF Flattens
<1>4. Len(ss) \in Nat /\ \A i \in 1 .. Len(ss) : ss[i] \in Seq(S)
  OBVIOUS
<1> DEFINE D == {n \in Nat : n \in 1 .. Len(ss) => f[n] \in Seq(S)}
<1>5. ASSUME NEW n \in Nat, n \in D PROVE n + 1 \in D
  <2> SUFFICES ASSUME n + 1 \in 1 .. Len(ss) PROVE f[n + 1] \in Seq(S)
    OBVIOUS
  <2>1. CASE n = 0
    BY <1>3, <1>4, <2>1
  <2>2. CASE n # 0
    <3>1. f[n] \in Seq(S) /\ ss[n + 1] \in Seq(S)
      BY <1>4, <1>5, <2>2
    <3>2. f[n + 1] = f[n] \o ss[n + 1]
      <4>1. n + 1 # 1 /\ (n + 1) - 1 = n
        BY <2>2
      <4>2. QED
        BY <1>3, <4>1
    <3>3. QED
      BY <3>1, <3>2, ConcatProperties
  <2>3. QED
    BY <2>1, <2>2
<1>6. 0 \in D
  OBVIOUS
<1> HIDE DEF D
<1>7. Nat \subseteq D
  BY <1>5, <1>6, InductionOverSet
<1>8. f \in [1 .. Len(ss) -> Seq(S)]
  <2>1. f = [i \in 1 .. Len(ss) |-> IF i = 1 THEN ss[i] ELSE f[i - 1] \o ss[i]]
    BY <1>1 DEF Flattens
  <2>2. DOMAIN f = 1 .. Len(ss) /\ f = [i \in 1 .. Len(ss) |-> f[i]]
    BY <2>1
  <2>3. \A i \in 1 .. Len(ss) : f[i] \in Seq(S)
    BY <1>4, <1>7 DEF D
  <2>4. QED
    BY <2>2, <2>3
<1>9. QED
  BY <1>2, <1>3, <1>8

LEMMA FlattenSeqType ==
  ASSUME NEW S, NEW ss \in Seq(Seq(S))
  PROVE  FlattenSeq(ss) \in Seq(S)
<1>1. CASE Len(ss) = 0
  BY <1>1 DEF FlattenSeq
<1>2. CASE Len(ss) # 0
  <2>1. Len(ss) \in 1 .. Len(ss)
    BY <1>2
  <2>2. QED
    BY <1>2, <2>1, FlattenSeqIs
<1>3. QED
  BY <1>1, <1>2

\* One sequence more.
LEMMA FlattenSeqAppend ==
  ASSUME NEW S, NEW ss \in Seq(Seq(S)), NEW s \in Seq(S)
  PROVE  FlattenSeq(Append(ss, s)) = FlattenSeq(ss) \o s
<1> DEFINE n == Len(ss)
           tt == Append(ss, s)
<1>n. n \in Nat
  OBVIOUS
<1>0. /\ tt \in Seq(Seq(S)) /\ Len(tt) = n + 1 /\ tt[n + 1] = s
      /\ \A i \in 1 .. n : tt[i] = ss[i]
  BY AppendProperties
<1> HIDE DEF n, tt
<1>1. PICK h \in [1 .. n + 1 -> Seq(S)] :
        /\ \A i \in 1 .. n + 1 : h[i] = IF i = 1 THEN tt[i] ELSE h[i - 1] \o tt[i]
        /\ FlattenSeq(tt) = h[n + 1]
  <2>1. Len(tt) # 0
    BY <1>n, <1>0
  <2>2. PICK h \in [1 .. Len(tt) -> Seq(S)] :
          /\ \A i \in 1 .. Len(tt) : h[i] = IF i = 1 THEN tt[i] ELSE h[i - 1] \o tt[i]
          /\ FlattenSeq(tt) = h[Len(tt)]
    BY <1>0, <2>1, FlattenSeqIs
  <2>3. QED
    BY <1>0, <2>2
<1>2. CASE n = 0
  <2>1. ss = <<>> /\ FlattenSeq(ss) = <<>>
    BY <1>2 DEF FlattenSeq, n
  <2>2. FlattenSeq(tt) = s
    BY <1>0, <1>1, <1>2
  <2>3. QED
    BY <2>1, <2>2 DEF tt
<1>3. CASE n # 0
  <2>1. PICK g \in [1 .. n -> Seq(S)] :
          /\ \A i \in 1 .. n : g[i] = IF i = 1 THEN ss[i] ELSE g[i - 1] \o ss[i]
          /\ FlattenSeq(ss) = g[n]
    BY <1>3, FlattenSeqIs DEF n
  <2> DEFINE D == {i \in Nat : i \in 1 .. n => h[i] = g[i]}
  <2>2. 0 \in D
    OBVIOUS
  <2>3. ASSUME NEW i \in Nat, i \in D PROVE i + 1 \in D
    <3> SUFFICES ASSUME i + 1 \in 1 .. n PROVE h[i + 1] = g[i + 1]
      OBVIOUS
    <3>1. tt[i + 1] = ss[i + 1] /\ i + 1 \in 1 .. n + 1
      BY <1>n, <1>0
    <3>2. CASE i = 0
      <4>1. h[1] = tt[1] /\ g[1] = ss[1]
        <5>1. 1 \in 1 .. n /\ 1 \in 1 .. n + 1
          BY <1>n, <1>3
        <5>2. QED
          BY <1>1, <2>1, <5>1
      <4>2. QED
        BY <3>1, <3>2, <4>1
    <3>3. CASE i # 0
      <4>1. i \in 1 .. n /\ (i + 1) - 1 = i /\ i + 1 # 1
        BY <1>n, <3>3
      <4>2. h[i] = g[i]
        BY <2>3, <4>1
      <4>3. h[i + 1] = h[i] \o tt[i + 1] /\ g[i + 1] = g[i] \o ss[i + 1]
        BY <1>1, <2>1, <3>1, <4>1
      <4>4. QED
        BY <3>1, <4>2, <4>3
    <3>4. QED
      BY <3>2, <3>3
  <2> HIDE DEF D
  <2>4. Nat \subseteq D
    BY <2>2, <2>3, InductionOverSet
  <2>5. h[n] = g[n]
    BY <1>n, <1>3, <2>4 DEF D
  <2>6. h[n + 1] = h[n] \o s
    <3>1. n + 1 \in 1 .. n + 1 /\ n + 1 # 1 /\ (n + 1) - 1 = n
      BY <1>n, <1>3
    <3>2. QED
      BY <1>0, <1>1, <3>1
  <2>7. QED
    BY <1>1, <2>1, <2>5, <2>6 DEF tt
<1>4. QED
  BY <1>2, <1>3

(***************************************************************************)
(* Prefixes.                                                               *)
(***************************************************************************)
LEMMA PrefixIs ==
  ASSUME NEW S, NEW s \in Seq(S), NEW t \in Seq(S)
  PROVE  IsPrefix(s, t) <=> Len(s) <= Len(t) /\ \A i \in 1 .. Len(s) : s[i] = t[i]
<1>0. Len(s) \in Nat /\ Len(t) \in Nat
  OBVIOUS
<1>1. SubSeq(s, 1, Len(s)) = s
  BY SubSeqFull
<1> SUFFICES ASSUME Len(s) <= Len(t)
             PROVE  s = SubSeq(t, 1, Len(s)) <=> \A i \in 1 .. Len(s) : s[i] = t[i]
  BY <1>1 DEF IsPrefix
<1> DEFINE u == SubSeq(t, 1, Len(s))
<1>2. \A i \in 1 .. Len(s) : t[i] \in S
  BY <1>0
<1>3. u \in Seq(S) /\ Len(u) = Len(s) /\ \A i \in 1 .. Len(s) : u[i] = t[i]
  <2>1. /\ u \in Seq(S)
        /\ Len(u) = IF 1 <= Len(s) THEN Len(s) - 1 + 1 ELSE 0
        /\ \A i \in 1 .. Len(s) - 1 + 1 : u[i] = t[1 + i - 1]
    BY <1>0, <1>2, SubSeqProperties
  <2> HIDE DEF u
  <2>2. QED
    BY <1>0, <2>1
<1> HIDE DEF u
<1>4. QED
  BY <1>3, SeqEqual DEF u

LEMMA PrefixOfConcat ==
  ASSUME NEW S, NEW s \in Seq(S), NEW t \in Seq(S)
  PROVE  IsPrefix(s, s \o t)
<1> DEFINE v == s \o t
<1>1. Len(s) \in Nat /\ Len(t) \in Nat
  OBVIOUS
<1>2. /\ v \in Seq(S) /\ Len(v) = Len(s) + Len(t)
      /\ \A i \in 1 .. Len(s) + Len(t) : v[i] = IF i <= Len(s) THEN s[i] ELSE t[i - Len(s)]
  BY ConcatProperties
<1> HIDE DEF v
<1>3. Len(s) <= Len(v) /\ \A i \in 1 .. Len(s) : s[i] = v[i]
  BY <1>1, <1>2
<1>4. IsPrefix(s, v)
  BY <1>2, <1>3, PrefixIs
<1>5. QED
  BY <1>4 DEF v

LEMMA PrefixLonger ==
  ASSUME NEW S, NEW s \in Seq(S), NEW t \in Seq(S), NEW u \in Seq(S),
         IsPrefix(s, t)
  PROVE  IsPrefix(s, t \o u)
<1>1. Len(s) \in Nat /\ Len(t) \in Nat /\ Len(u) \in Nat
  OBVIOUS
<1>2. Len(s) <= Len(t) /\ \A i \in 1 .. Len(s) : s[i] = t[i]
  BY PrefixIs
<1>3. t \o u \in Seq(S) /\ Len(t \o u) = Len(t) + Len(u)
  BY ConcatProperties
<1>4. \A i \in 1 .. Len(s) : (t \o u)[i] = t[i]
  BY <1>1, <1>2, ConcatProperties
<1> DEFINE v == t \o u
<1> HIDE DEF v
<1>5. v \in Seq(S) /\ Len(s) <= Len(v) /\ \A i \in 1 .. Len(s) : s[i] = v[i]
  BY <1>1, <1>2, <1>3, <1>4 DEF v
<1>6. IsPrefix(s, v)
  BY <1>5, PrefixIs
<1>7. QED
  BY <1>6 DEF v

LEMMA PrefixTransitive ==
  ASSUME NEW S, NEW s \in Seq(S), NEW t \in Seq(S), NEW u \in Seq(S),
         IsPrefix(s, t), IsPrefix(t, u)
  PROVE  IsPrefix(s, u)
<1>1. Len(s) \in Nat /\ Len(t) \in Nat /\ Len(u) \in Nat
  OBVIOUS
<1>2. Len(s) <= Len(t) /\ \A i \in 1 .. Len(s) : s[i] = t[i]
  BY PrefixIs
<1>3. Len(t) <= Len(u) /\ \A i \in 1 .. Len(t) : t[i] = u[i]
  BY PrefixIs
<1>4. Len(s) <= Len(u) /\ \A i \in 1 .. Len(s) : s[i] = u[i]
  BY <1>1, <1>2, <1>3
<1>5. QED
  BY <1>4, PrefixIs

\* A beginning of what comes behind s.
LEMMA PrefixWithin ==
  ASSUME NEW S, NEW s \in Seq(S), NEW t \in Seq(S), NEW n \in 0 .. Len(t)
  PROVE  /\ SubSeq(t, 1, n) \in Seq(S)
         /\ IsPrefix(s \o SubSeq(t, 1, n), s \o t)
<1> DEFINE u == SubSeq(t, 1, n)
<1>0. Len(s) \in Nat /\ Len(t) \in Nat /\ n \in Nat
  OBVIOUS
<1>1. u \in Seq(S) /\ Len(u) = n /\ \A i \in 1 .. n : u[i] = t[i]
  <2>1. \A i \in 1 .. n : t[i] \in S
    OBVIOUS
  <2>2. /\ u \in Seq(S)
        /\ Len(u) = IF 1 <= n THEN n - 1 + 1 ELSE 0
        /\ \A i \in 1 .. n - 1 + 1 : u[i] = t[1 + i - 1]
    BY <1>0, <2>1, SubSeqProperties
  <2> HIDE DEF u
  <2>3. QED
    BY <1>0, <2>2
<1> HIDE DEF u
<1>2. /\ s \o u \in Seq(S) /\ Len(s \o u) = Len(s) + n
      /\ \A i \in 1 .. Len(s) + n : (s \o u)[i] = IF i <= Len(s) THEN s[i] ELSE u[i - Len(s)]
  BY <1>1, ConcatProperties
<1>3. /\ s \o t \in Seq(S) /\ Len(s \o t) = Len(s) + Len(t)
      /\ \A i \in 1 .. Len(s) + Len(t) :
           (s \o t)[i] = IF i <= Len(s) THEN s[i] ELSE t[i - Len(s)]
  BY ConcatProperties
<1>4. ASSUME NEW i \in 1 .. Len(s) + n PROVE (s \o u)[i] = (s \o t)[i]
  <2>1. i \in 1 .. Len(s) + Len(t)
    BY <1>0
  <2>2. CASE i <= Len(s)
    BY <1>2, <1>3, <2>1, <2>2
  <2>3. CASE ~(i <= Len(s))
    <3>1. i - Len(s) \in 1 .. n
      BY <1>0, <2>3
    <3>2. QED
      BY <1>1, <1>2, <1>3, <2>1, <2>3, <3>1
  <2>4. QED
    BY <2>2, <2>3
<1> DEFINE v == s \o u
           w == s \o t
<1> HIDE DEF v, w
<1>5. IsPrefix(v, w)
  <2>1. v \in Seq(S) /\ w \in Seq(S) /\ Len(v) <= Len(w)
    BY <1>0, <1>2, <1>3 DEF v, w
  <2>2. \A i \in 1 .. Len(v) : v[i] = w[i]
    BY <1>2, <1>4 DEF v, w
  <2>3. QED
    BY <2>1, <2>2, PrefixIs
<1>6. QED
  BY <1>1, <1>5 DEF u, v, w

\* A text of three parts, of which the first is written: the second goes behind it.
LEMMA PartMoves ==
  ASSUME NEW S, NEW s \in Seq(S), NEW t \in Seq(S), NEW u \in Seq(S)
  PROVE  /\ s \o t \in Seq(S)
         /\ (s \o t) \o (<<>> \o u) = s \o (t \o u)
         /\ IsPrefix(s \o t, s \o (t \o u))
<1>1. (s \o t) \o u = s \o (t \o u)
  BY ConcatAssociative
<1>2. s \o t \in Seq(S) /\ <<>> \o u = u
  BY ConcatProperties, ConcatEmptySeq
<1> DEFINE v == s \o t
<1> HIDE DEF v
<1>3. IsPrefix(v, v \o u)
  BY <1>2, PrefixOfConcat DEF v
<1>4. QED
  BY <1>1, <1>2, <1>3 DEF v

\* The same for a beginning of the second part.
LEMMA BeginningMoves ==
  ASSUME NEW S, NEW s \in Seq(S), NEW t \in Seq(S), NEW u \in Seq(S),
         NEW n \in 0 .. Len(t)
  PROVE  /\ s \o SubSeq(t, 1, n) \in Seq(S)
         /\ IsPrefix(s \o SubSeq(t, 1, n), s \o (t \o u))
<1> DEFINE b == SubSeq(t, 1, n)
           p == s \o b
           v == s \o t
<1>1. b \in Seq(S) /\ IsPrefix(p, v)
  BY PrefixWithin
<1> HIDE DEF b
<1>2. p \in Seq(S) /\ v \in Seq(S)
  BY <1>1, ConcatProperties
<1>3. v \o u = s \o (t \o u)
  BY ConcatAssociative
<1> HIDE DEF p, v
<1>4. IsPrefix(p, v \o u)
  BY <1>1, <1>2, PrefixLonger
<1>5. QED
  BY <1>2, <1>3, <1>4 DEF p, b

\* The first element of the second part moves to the end of the first part.
LEMMA HeadTailMoves ==
  ASSUME NEW S, NEW s \in Seq(S), NEW t \in Seq(S), t # <<>>
  PROVE  /\ Append(s, Head(t)) \in Seq(S) /\ Tail(t) \in Seq(S)
         /\ Append(s, Head(t)) \o Tail(t) = s \o t
<1>1. Head(t) \in S /\ Tail(t) \in Seq(S)
  OBVIOUS
<1>2. Append(s, Head(t)) = s \o <<Head(t)>>
  BY <1>1, AppendIsConcat
<1>3. t = <<Head(t)>> \o Tail(t)
  OBVIOUS
<1>4. (s \o <<Head(t)>>) \o Tail(t) = s \o (<<Head(t)>> \o Tail(t))
  BY <1>1, ConcatAssociative
<1>5. QED
  BY <1>1, <1>2, <1>3, <1>4
\* The last element is replaced.
LEMMA LastReplaced ==
  ASSUME NEW S, NEW s \in Seq(S), NEW x \in S, NEW y \in S
  PROVE  [Append(s, x) EXCEPT ![Len(Append(s, x))] = y] = Append(s, y)
<1> DEFINE n == Len(s)
           t == Append(s, x)
           u == Append(s, y)
           v == [t EXCEPT ![n + 1] = y]
<1>0. n \in Nat
  OBVIOUS
<1>1. t \in Seq(S) /\ Len(t) = n + 1 /\ \A i \in 1 .. n : t[i] = s[i]
  BY AppendProperties
<1>2. u \in Seq(S) /\ Len(u) = n + 1 /\ u[n + 1] = y /\ \A i \in 1 .. n : u[i] = s[i]
  BY AppendProperties
<1> HIDE DEF n, t, u
<1>3. n + 1 \in 1 .. Len(t)
  BY <1>0, <1>1
<1>4. v \in Seq(S) /\ Len(v) = n + 1
      /\ \A j \in 1 .. n + 1 : v[j] = IF j = n + 1 THEN y ELSE t[j]
  BY <1>1, <1>3, ExceptSeq
<1> HIDE DEF v
<1>5. \A j \in 1 .. n + 1 : v[j] = u[j]
  BY <1>0, <1>1, <1>2, <1>4
<1>6. v = u
  BY <1>2, <1>4, <1>5, SeqEqual
<1>7. QED
  BY <1>1, <1>6 DEF v, u, t
\* What is left of two parts when the second is cut off.
LEMMA FirstPart ==
  ASSUME NEW S, NEW s \in Seq(S), NEW t \in Seq(S)
  PROVE  /\ SubSeq(s \o t, 1, Len(s \o t) - Len(t)) = s
         /\ Len(t) <= Len(s \o t)
<1> DEFINE v == s \o t
           u == SubSeq(v, 1, Len(s))
<1>1. Len(s) \in Nat /\ Len(t) \in Nat
  OBVIOUS
<1>2. v \in Seq(S) /\ Len(v) = Len(s) + Len(t) /\ \A i \in 1 .. Len(s) : v[i] = s[i]
  BY <1>1, ConcatProperties
<1> HIDE DEF v
<1>3. Len(v) - Len(t) = Len(s) /\ Len(t) <= Len(v)
  BY <1>1, <1>2
<1>4. \A i \in 1 .. Len(s) : v[i] \in S
  BY <1>1, <1>2
<1>5. u \in Seq(S) /\ Len(u) = Len(s) /\ \A i \in 1 .. Len(s) : u[i] = v[i]
  <2>1. /\ u \in Seq(S)
        /\ Len(u) = IF 1 <= Len(s) THEN Len(s) - 1 + 1 ELSE 0
        /\ \A i \in 1 .. Len(s) - 1 + 1 : u[i] = v[1 + i - 1]
    BY <1>1, <1>4, SubSeqProperties
  <2> HIDE DEF u
  <2>2. QED
    BY <1>1, <2>1
<1> HIDE DEF u
<1>6. u = s
  BY <1>2, <1>5, SeqEqual
<1>7. QED
  BY <1>3, <1>6 DEF u, v

\* A sequence is cut in two.
LEMMA CutInTwo ==
  ASSUME NEW S, NEW s \in Seq(S), NEW n \in 0 .. Len(s)
  PROVE  /\ SubSeq(s, 1, n) \in Seq(S) /\ SubSeq(s, n + 1, Len(s)) \in Seq(S)
         /\ Len(SubSeq(s, 1, n)) = n /\ \A i \in 1 .. n : SubSeq(s, 1, n)[i] = s[i]
         /\ s = SubSeq(s, 1, n) \o SubSeq(s, n + 1, Len(s))
<1> DEFINE t == SubSeq(s, 1, n)
           u == SubSeq(s, n + 1, Len(s))
           m == Len(s)
<1>1. m \in Nat /\ n \in Nat /\ n <= m /\ \A i \in 1 .. m : s[i] \in S
  OBVIOUS
<1>2. t \in Seq(S) /\ Len(t) = n /\ \A i \in 1 .. n : t[i] = s[i]
  <2>1. /\ t \in Seq(S)
        /\ Len(t) = IF 1 <= n THEN n - 1 + 1 ELSE 0
        /\ \A i \in 1 .. n - 1 + 1 : t[i] = s[1 + i - 1]
    BY <1>1, SubSeqProperties
  <2> HIDE DEF t, m
  <2>2. QED
    BY <1>1, <2>1
<1>3. u \in Seq(S) /\ Len(u) = m - n /\ \A i \in 1 .. m - n : u[i] = s[n + i]
  <2>1. /\ u \in Seq(S)
        /\ Len(u) = IF n + 1 <= m THEN m - (n + 1) + 1 ELSE 0
        /\ \A i \in 1 .. m - (n + 1) + 1 : u[i] = s[(n + 1) + i - 1]
    BY <1>1, SubSeqProperties
  <2> HIDE DEF u, m
  <2>2. QED
    BY <1>1, <2>1
<1> HIDE DEF t, u
<1> DEFINE v == t \o u
<1>4. v \in Seq(S) /\ Len(v) = Len(t) + Len(u)
      /\ \A i \in 1 .. Len(t) + Len(u) : v[i] = IF i <= Len(t) THEN t[i] ELSE u[i - Len(t)]
  BY <1>2, <1>3, ConcatProperties
<1> HIDE DEF v
<1>5. Len(v) = Len(s) /\ \A i \in 1 .. Len(s) : v[i] = s[i]
  <2> HIDE DEF m
  <2>1. Len(v) = m
    BY <1>1, <1>2, <1>3, <1>4
  <2>2. ASSUME NEW i \in 1 .. m PROVE v[i] = s[i]
    <3>1. CASE i <= n
      BY <1>1, <1>2, <1>3, <1>4, <3>1
    <3>2. CASE ~(i <= n)
      <4>1. i - n \in 1 .. m - n /\ n + (i - n) = i /\ i \in 1 .. n + (m - n)
        BY <1>1, <3>2
      <4>2. v[i] = u[i - n]
        BY <1>2, <1>3, <1>4, <3>2, <4>1
      <4>3. u[i - n] = s[i]
        BY <1>3, <4>1
      <4>4. QED
        BY <4>2, <4>3
    <3>3. QED
      BY <3>1, <3>2
  <2>3. QED
    BY <2>1, <2>2 DEF m
<1>6. v = s
  BY <1>4, <1>5, SeqEqual
<1>7. QED
  BY <1>2, <1>3, <1>6 DEF t, u, v

\* A set of numbers has a least one.
LEMMA MinIs ==
  ASSUME NEW S \in SUBSET Nat, S # {}
  PROVE  Min(S) \in S /\ \A k \in S : Min(S) <= k
<1> DEFINE R == OpToRel(LAMBDA x, y : x < y, Nat)
<1>1. PICK m \in S : \A k \in S : <<k, m>> \notin R
  BY NatLessThanWellFounded, WFMin
<1>2. m \in S /\ \A k \in S : m <= k
  <2>1. \A k \in S : ~(k < m)
    BY <1>1 DEF OpToRel
  <2>2. ASSUME NEW k \in S PROVE m <= k
    <3>1. k \in Nat /\ m \in Nat
      BY <1>1
    <3>2. QED
      BY <2>1, <3>1
  <2>3. QED
    BY <1>1, <2>2
<1>3. QED
  BY <1>2 DEF Min

\* An element appended behind a sequence is appended behind both.
LEMMA ConcatAppend ==
  ASSUME NEW S, NEW p \in Seq(S), NEW l \in Seq(S), NEW m \in S
  PROVE  p \o Append(l, m) = Append(p \o l, m)
<1>1. <<m>> \in Seq(S) /\ p \o l \in Seq(S)
  BY ConcatProperties
<1>2. Append(l, m) = l \o <<m>> /\ Append(p \o l, m) = (p \o l) \o <<m>>
  BY <1>1, AppendIsConcat
<1>3. QED
  BY <1>1, <1>2, ConcatAssociative

\* A sequence one longer: its last element and what is before it.
LEMMA AppendParts ==
  ASSUME NEW S, NEW s \in Seq(S), NEW e \in S
  PROVE  /\ Append(s, e)[Len(Append(s, e))] = e
         /\ SubSeq(Append(s, e), 1, Len(Append(s, e)) - 1) = s
<1> DEFINE t == Append(s, e)
           n == Len(s)
<1>1. n \in Nat /\ t \in Seq(S) /\ Len(t) = n + 1 /\ t[n + 1] = e /\ \A i \in 1 .. n : t[i] = s[i]
  BY AppendProperties
<1>2. s \in Seq(S) /\ Len(s) = n
  OBVIOUS
<1> HIDE DEF t, n
<1>3. Len(t) - 1 = n
  BY <1>1
<1>4. /\ SubSeq(t, 1, n) \in Seq(S)
      /\ Len(SubSeq(t, 1, n)) = n
      /\ \A i \in 1 .. n : SubSeq(t, 1, n)[i] = t[i]
  <2>1. \A i \in 1 .. n : t[i] \in S
    BY <1>1, <1>2
  <2>2. 1 \in Int /\ n \in Int
    BY <1>1
  <2>3. /\ SubSeq(t, 1, n) \in Seq(S)
        /\ Len(SubSeq(t, 1, n)) = IF 1 <= n THEN n - 1 + 1 ELSE 0
        /\ \A i \in 1 .. n - 1 + 1 : SubSeq(t, 1, n)[i] = t[1 + i - 1]
    BY <2>1, <2>2, SubSeqProperties
  <2>4. QED
    BY <1>1, <2>3
<1>5. SubSeq(t, 1, n) = s
  BY <1>1, <1>2, <1>4, SeqEqual
<1>6. QED
  BY <1>1, <1>3, <1>5 DEF t

================================================================================
