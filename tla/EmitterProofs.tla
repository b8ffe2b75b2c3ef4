---------------------------- MODULE EmitterProofs -----------------------------
(***************************************************************************)
(* What TLAPS proves about lowering and writing documents (Arena.tla and   *)
(* Emitter.tla), for every tree, style, anchor and comment.                *)
(*                                                                         *)
(* from_yaml's two stacks are bounded by the tasks that are left: Takes and*)
(* Gives say what a task and all it leads to does to them, and Path that the*)
(* tasks on the stack, done one after the other, always find what they take*)
(* and leave one node in the end and no key.  Forest says that the arena is a*)
(* set of trees whose roots are the completed nodes.  A Finish task takes as*)
(* many nodes as its children are, so the trees become one.                *)
(*                                                                         *)
(* That nothing in block style stands in a flow collection needs both ends:*)
(* what stands below a node in flow style (Inside, of documents that fit), *)
(* and which brackets the text has open while an operation is at hand, to  *)
(* be closed by an operation deeper on the stack (Brackets and Nested).    *)
(***************************************************************************)
EXTENDS Emitter, SequenceFacts, FiniteSetTheorems, TLAPS

(***************************************************************************)
(* Types of what from_yaml works with.                                     *)
(***************************************************************************)
AnyName == STRING \cup {None}

\* The forms of keys, what a mapping's task knows of its keys, and what is kept of them.
KeyForms == {"plain", "node", "long", "block"}

Templates == [form : KeyForms, anchor : AnyName, alias : AnyName]

KeyNames == [from : Nat, anchor : AnyName, alias : AnyName]

\* The entries of a mapping, and nodes.
EntryParts ==
  [form : KeyForms, from : Nat, anchor : AnyName, alias : AnyName, node : Nat, value : Nat]

NodesOf(kinds, parts) ==
  [kind : kinds, from : Nat, anchor : AnyName, name : AnyName, before : BOOLEAN,
   inline : BOOLEAN, flow : BOOLEAN, parts : parts]

AllNodes ==
  NodesOf({"mapping"}, Seq(EntryParts))
    \cup NodesOf({"scalar", "block", "null", "alias", "sequence"}, Seq(Nat))

\* The tasks.
Visits == [task : {"Visit"}, as : AnyName, key : BOOLEAN]

KeyTasks == [task : {"Key"}, anchor : AnyName, alias : AnyName]

Restores == [task : {"RestoreAnchor"}, alias : AllNodes]

FinishSequences == [task : {"FinishSequence"}, node : NodesOf({"sequence"}, {<<>>}), len : Nat]

FinishMappings ==
  [task : {"FinishMapping"}, node : NodesOf({"mapping"}, {<<>>}), templates : Seq(Templates)]

AllTasks == Visits \cup KeyTasks \cup Restores \cup FinishSequences \cup FinishMappings

(***************************************************************************)
(* What tasks do to the stacks.                                            *)
(***************************************************************************)
\* What a task takes from the stack of nodes and puts there, once all it leads to is done,
\* and what it takes from the stack of keys and puts there.
Takes(t) ==
  CASE t.task = "FinishSequence" -> t.len
    [] t.task = "FinishMapping" -> Len(t.templates) + KeyNodes(t.templates)
    [] t.task = "RestoreAnchor" -> 1
    [] OTHER -> 0

Gives(t) == IF t.task = "Key" THEN 0 ELSE 1

TakesKeys(t) == IF t.task = "FinishMapping" THEN Len(t.templates) ELSE 0

GivesKeys(t) == IF t.task = "Key" THEN 1 ELSE 0

\* With c nodes and k keys on the stacks the tasks find what they take and leave d and l.
Path(ts, c, k, d, l) ==
  \E g \in [0 .. Len(ts) -> Nat], h \in [0 .. Len(ts) -> Nat] :
    /\ g[0] = c /\ h[0] = k /\ g[Len(ts)] = d /\ h[Len(ts)] = l
    /\ \A i \in 1 .. Len(ts) :
         /\ Takes(ts[i]) <= g[i - 1] /\ g[i] = g[i - 1] - Takes(ts[i]) + Gives(ts[i])
         /\ TakesKeys(ts[i]) <= h[i - 1] /\ h[i] = h[i - 1] - TakesKeys(ts[i]) + GivesKeys(ts[i])

\* The number of keys that are nodes is a number.
LEMMA KeyNodesType ==
  ASSUME NEW keys \in Seq(Templates)
  PROVE  KeyNodes(keys) \in Nat
<1> DEFINE S == {i \in DOMAIN keys : keys[i].form = "node"}
<1>1. DOMAIN keys = 1 .. Len(keys) /\ Len(keys) \in Nat
  OBVIOUS
<1>2. IsFiniteSet(1 .. Len(keys))
  BY <1>1, FS_Interval
<1>3. IsFiniteSet(S)
  BY <1>1, <1>2, FS_Subset
<1>4. QED
  BY <1>3, FS_CardinalityType DEF KeyNodes

\* So is what a task takes and gives.
LEMMA CostTypes ==
  ASSUME NEW t \in AllTasks
  PROVE  /\ Takes(t) \in Nat /\ Gives(t) \in Nat /\ TakesKeys(t) \in Nat /\ GivesKeys(t) \in Nat
<1>1. t.task = "FinishSequence" => t.len \in Nat
  BY DEF AllTasks, Visits, KeyTasks, Restores, FinishSequences, FinishMappings
<1>2. t.task = "FinishMapping" => t.templates \in Seq(Templates)
  BY DEF AllTasks, Visits, KeyTasks, Restores, FinishSequences, FinishMappings
<1>3. t.task = "FinishMapping" => Len(t.templates) \in Nat /\ KeyNodes(t.templates) \in Nat
  BY <1>2, KeyNodesType
<1>4. QED
  BY <1>1, <1>3 DEF Takes, Gives, TakesKeys, GivesKeys

\* Paths of no task, of one task, and of two sequences of tasks.
LEMMA PathEmpty ==
  ASSUME NEW c \in Nat, NEW k \in Nat
  PROVE  Path(<<>>, c, k, c, k)
<1> DEFINE g == [i \in 0 .. 0 |-> c]
           h == [i \in 0 .. 0 |-> k]
<1>1. /\ g \in [0 .. Len(<<>>) -> Nat] /\ h \in [0 .. Len(<<>>) -> Nat]
      /\ g[0] = c /\ h[0] = k /\ g[Len(<<>>)] = c /\ h[Len(<<>>)] = k
      /\ 1 .. Len(<<>>) = {}
  OBVIOUS
<1> HIDE DEF g, h
<1>2. QED
  BY <1>1 DEF Path

LEMMA PathOne ==
  ASSUME NEW t \in AllTasks, NEW c \in Nat, NEW k \in Nat, Takes(t) <= c, TakesKeys(t) <= k
  PROVE  Path(<<t>>, c, k, c - Takes(t) + Gives(t), k - TakesKeys(t) + GivesKeys(t))
<1> DEFINE d == c - Takes(t) + Gives(t)
           l == k - TakesKeys(t) + GivesKeys(t)
           g == [i \in 0 .. 1 |-> IF i = 0 THEN c ELSE d]
           h == [i \in 0 .. 1 |-> IF i = 0 THEN k ELSE l]
<1>1. d \in Nat /\ l \in Nat
  BY CostTypes
<1>2. g \in [0 .. 1 -> Nat] /\ h \in [0 .. 1 -> Nat] /\ g[0] = c /\ h[0] = k /\ g[1] = d /\ h[1] = l
  BY <1>1
<1>3. d = c - Takes(t) + Gives(t) /\ l = k - TakesKeys(t) + GivesKeys(t)
  OBVIOUS
<1> HIDE DEF g, h, d, l
<1>4. Len(<<t>>) = 1 /\ <<t>>[1] = t
  OBVIOUS
<1>5. \A i \in 1 .. 1 :
         /\ Takes(<<t>>[i]) <= g[i - 1] /\ g[i] = g[i - 1] - Takes(<<t>>[i]) + Gives(<<t>>[i])
         /\ TakesKeys(<<t>>[i]) <= h[i - 1]
         /\ h[i] = h[i - 1] - TakesKeys(<<t>>[i]) + GivesKeys(<<t>>[i])
  <2> SUFFICES ASSUME NEW i \in 1 .. 1
               PROVE  /\ Takes(<<t>>[i]) <= g[i - 1]
                      /\ g[i] = g[i - 1] - Takes(<<t>>[i]) + Gives(<<t>>[i])
                      /\ TakesKeys(<<t>>[i]) <= h[i - 1]
                      /\ h[i] = h[i - 1] - TakesKeys(<<t>>[i]) + GivesKeys(<<t>>[i])
    OBVIOUS
  <2>1. i = 1 /\ i - 1 = 0 /\ <<t>>[i] = t
    OBVIOUS
  <2>2. QED
    BY <1>2, <1>3, <2>1
<1>6. Path(<<t>>, c, k, d, l)
  BY <1>2, <1>4, <1>5 DEF Path
<1>7. QED
  BY <1>3, <1>6

LEMMA PathJoined ==
  ASSUME NEW s \in Seq(AllTasks), NEW t \in Seq(AllTasks), NEW c, NEW k, NEW d, NEW l,
         NEW e, NEW m, Path(s, c, k, d, l), Path(t, d, l, e, m)
  PROVE  Path(s \o t, c, k, e, m)
<1> DEFINE n == Len(s)
           r == Len(t)
           u == s \o t
<1>1. n \in Nat /\ r \in Nat /\ Len(u) = n + r
      /\ \A i \in 1 .. n + r : u[i] = IF i <= n THEN s[i] ELSE t[i - n]
  BY ConcatProperties
<1> HIDE DEF u
<1>2. PICK g \in [0 .. n -> Nat], h \in [0 .. n -> Nat] :
    /\ g[0] = c /\ h[0] = k /\ g[n] = d /\ h[n] = l
    /\ \A i \in 1 .. n :
         /\ Takes(s[i]) <= g[i - 1] /\ g[i] = g[i - 1] - Takes(s[i]) + Gives(s[i])
         /\ TakesKeys(s[i]) <= h[i - 1] /\ h[i] = h[i - 1] - TakesKeys(s[i]) + GivesKeys(s[i])
  BY DEF Path
<1>3. PICK p \in [0 .. r -> Nat], q \in [0 .. r -> Nat] :
    /\ p[0] = d /\ q[0] = l /\ p[r] = e /\ q[r] = m
    /\ \A i \in 1 .. r :
         /\ Takes(t[i]) <= p[i - 1] /\ p[i] = p[i - 1] - Takes(t[i]) + Gives(t[i])
         /\ TakesKeys(t[i]) <= q[i - 1] /\ q[i] = q[i - 1] - TakesKeys(t[i]) + GivesKeys(t[i])
  BY DEF Path
<1> HIDE DEF n, r
<1> DEFINE v == [i \in 0 .. n + r |-> IF i <= n THEN g[i] ELSE p[i - n]]
           w == [i \in 0 .. n + r |-> IF i <= n THEN h[i] ELSE q[i - n]]
<1>4. v \in [0 .. n + r -> Nat] /\ w \in [0 .. n + r -> Nat]
  BY <1>1, SMTT(30)
<1>5. /\ \A i \in 0 .. n : v[i] = g[i] /\ w[i] = h[i]
      /\ \A i \in n .. n + r : v[i] = p[i - n] /\ w[i] = q[i - n]
  <2>1. \A i \in 0 .. n : v[i] = g[i] /\ w[i] = h[i]
    BY <1>1
  <2>2. \A i \in n + 1 .. n + r : v[i] = p[i - n] /\ w[i] = q[i - n]
    BY <1>1
  <2>3. v[n] = p[n - n] /\ w[n] = q[n - n]
    BY <1>1, <1>2, <1>3, <2>1
  <2> HIDE DEF v, w
  <2>4. \A i \in n .. n + r : i = n \/ i \in n + 1 .. n + r
    BY <1>1
  <2>5. QED
    BY <2>1, <2>2, <2>3, <2>4
<1> HIDE DEF v, w
<1>6. v[0] = c /\ w[0] = k /\ v[n + r] = e /\ w[n + r] = m
  <2>1. 0 \in 0 .. n /\ n + r \in n .. n + r /\ (n + r) - n = r
    BY <1>1
  <2>2. QED
    BY <2>1, <1>2, <1>3, <1>5
<1>7. ASSUME NEW i \in 1 .. n + r
      PROVE  /\ Takes(u[i]) <= v[i - 1] /\ v[i] = v[i - 1] - Takes(u[i]) + Gives(u[i])
             /\ TakesKeys(u[i]) <= w[i - 1] /\ w[i] = w[i - 1] - TakesKeys(u[i]) + GivesKeys(u[i])
  <2>1. CASE i <= n
    <3>1. i \in 1 .. n /\ i - 1 \in 0 .. n /\ i \in 0 .. n /\ u[i] = s[i]
      BY <1>1, <2>1, SMTT(30)
    <3>2. QED
      BY <3>1, <1>2, <1>5
  <2>2. CASE ~(i <= n)
    <3> DEFINE j == i - n
    <3>1. /\ j \in 1 .. r /\ i - 1 \in n .. n + r /\ i \in n .. n + r /\ u[i] = t[j]
          /\ (i - 1) - n = j - 1 /\ i - n = j
      BY <1>1, <2>2
    <3> HIDE DEF j
    <3>2. v[i - 1] = p[j - 1] /\ w[i - 1] = q[j - 1] /\ v[i] = p[j] /\ w[i] = q[j]
      BY <3>1, <1>5
    <3>3. QED
      BY <3>1, <3>2, <1>3
  <2>3. QED
    BY <2>1, <2>2
<1>8. Path(u, c, k, e, m)
  <2>1. Len(u) = n + r
    BY <1>1
  <2>2. /\ v \in [0 .. Len(u) -> Nat] /\ w \in [0 .. Len(u) -> Nat]
        /\ v[0] = c /\ w[0] = k /\ v[Len(u)] = e /\ w[Len(u)] = m
    BY <2>1, <1>4, <1>6
  <2>3. \A i \in 1 .. Len(u) :
          /\ Takes(u[i]) <= v[i - 1] /\ v[i] = v[i - 1] - Takes(u[i]) + Gives(u[i])
          /\ TakesKeys(u[i]) <= w[i - 1] /\ w[i] = w[i - 1] - TakesKeys(u[i]) + GivesKeys(u[i])
    BY <2>1, <1>7
  <2>4. QED
    BY <2>2, <2>3, Zenon DEF Path
<1>9. QED
  BY <1>8 DEF u

\* The first task of a path, and the rest.
LEMMA PathFirst ==
  ASSUME NEW t \in AllTasks, NEW s \in Seq(AllTasks), NEW c, NEW k, NEW d, NEW l,
         Path(<<t>> \o s, c, k, d, l)
  PROVE  /\ c \in Nat /\ k \in Nat /\ Takes(t) <= c /\ TakesKeys(t) <= k
         /\ Path(s, c - Takes(t) + Gives(t), k - TakesKeys(t) + GivesKeys(t), d, l)
<1> DEFINE r == Len(s)
           u == <<t>> \o s
           e == c - Takes(t) + Gives(t)
           m == k - TakesKeys(t) + GivesKeys(t)
<1>1. r \in Nat /\ <<t>> \in Seq(AllTasks) /\ Len(<<t>>) = 1 /\ <<t>>[1] = t
  OBVIOUS
<1>2. Len(u) = 1 + r /\ \A i \in 1 .. 1 + r : u[i] = IF i <= 1 THEN <<t>>[i] ELSE s[i - 1]
  BY <1>1, ConcatProperties
<1>3. Len(u) = r + 1 /\ u[1] = t /\ \A i \in 1 .. r : u[i + 1] = s[i]
  <2>1. ASSUME NEW i \in 1 .. r PROVE u[i + 1] = s[i]
    <3>1. i + 1 \in 1 .. 1 + r /\ ~(i + 1 <= 1) /\ (i + 1) - 1 = i
      BY <1>1
    <3>2. QED
      BY <3>1, <1>2
  <2>2. QED
    BY <1>1, <1>2, <2>1
<1> HIDE DEF u
<1>4. PICK g \in [0 .. r + 1 -> Nat], h \in [0 .. r + 1 -> Nat] :
    /\ g[0] = c /\ h[0] = k /\ g[r + 1] = d /\ h[r + 1] = l
    /\ \A i \in 1 .. r + 1 :
         /\ Takes(u[i]) <= g[i - 1] /\ g[i] = g[i - 1] - Takes(u[i]) + Gives(u[i])
         /\ TakesKeys(u[i]) <= h[i - 1] /\ h[i] = h[i - 1] - TakesKeys(u[i]) + GivesKeys(u[i])
  <2> DEFINE Steps(b) == \E g \in [0 .. b -> Nat], h \in [0 .. b -> Nat] :
        /\ g[0] = c /\ h[0] = k /\ g[b] = d /\ h[b] = l
        /\ \A i \in 1 .. b :
             /\ Takes(u[i]) <= g[i - 1] /\ g[i] = g[i - 1] - Takes(u[i]) + Gives(u[i])
             /\ TakesKeys(u[i]) <= h[i - 1] /\ h[i] = h[i - 1] - TakesKeys(u[i]) + GivesKeys(u[i])
  <2>1. Steps(Len(u))
    <3>1. Path(u, c, k, d, l)
      BY DEF u
    <3>2. QED
      BY <3>1, Zenon DEF Path
  <2>2. Len(u) = r + 1
    BY <1>3
  <2> HIDE DEF Steps
  <2>3. Steps(r + 1)
    BY <2>1, <2>2
  <2>4. QED
    BY <2>3, Zenon DEF Steps
<1> HIDE DEF r
<1>5. /\ c \in Nat /\ k \in Nat /\ Takes(t) <= c /\ TakesKeys(t) <= k
      /\ g[1] = e /\ h[1] = m
  <2>1. 1 \in 1 .. r + 1 /\ 1 - 1 = 0 /\ 0 \in 0 .. r + 1
    BY <1>1
  <2>2. QED
    BY <2>1, <1>3, <1>4
<1> HIDE DEF e, m
<1> DEFINE v == [i \in 0 .. r |-> g[i + 1]]
           w == [i \in 0 .. r |-> h[i + 1]]
<1>6. v \in [0 .. r -> Nat] /\ w \in [0 .. r -> Nat] /\ \A i \in 0 .. r : v[i] = g[i + 1] /\ w[i] = h[i + 1]
  BY <1>1
<1> HIDE DEF v, w
<1>7. v[0] = e /\ w[0] = m /\ v[r] = d /\ w[r] = l
  BY <1>1, <1>4, <1>5, <1>6
<1>8. ASSUME NEW i \in 1 .. r
      PROVE  /\ Takes(s[i]) <= v[i - 1] /\ v[i] = v[i - 1] - Takes(s[i]) + Gives(s[i])
             /\ TakesKeys(s[i]) <= w[i - 1] /\ w[i] = w[i - 1] - TakesKeys(s[i]) + GivesKeys(s[i])
  <2>1. i - 1 \in 0 .. r /\ i \in 0 .. r /\ i + 1 \in 1 .. r + 1 /\ (i - 1) + 1 = i /\ (i + 1) - 1 = i
    BY <1>1
  <2>2. v[i - 1] = g[i] /\ w[i - 1] = h[i] /\ v[i] = g[i + 1] /\ w[i] = h[i + 1] /\ u[i + 1] = s[i]
    BY <2>1, <1>3, <1>6
  <2>3. QED
    BY <2>1, <2>2, <1>4
<1>9. Path(s, e, m, d, l)
  <2>1. \A i \in 1 .. Len(s) :
         /\ Takes(s[i]) <= v[i - 1] /\ v[i] = v[i - 1] - Takes(s[i]) + Gives(s[i])
         /\ TakesKeys(s[i]) <= w[i - 1] /\ w[i] = w[i - 1] - TakesKeys(s[i]) + GivesKeys(s[i])
    BY <1>8 DEF r
  <2>2. /\ v \in [0 .. Len(s) -> Nat] /\ w \in [0 .. Len(s) -> Nat]
        /\ v[0] = e /\ w[0] = m /\ v[Len(s)] = d /\ w[Len(s)] = l
    BY <1>6, <1>7 DEF r
  <2>3. QED
    BY <2>1, <2>2, Zenon DEF Path
<1>10. QED
  BY <1>5, <1>9 DEF e, m

(***************************************************************************)
(* The stack of tasks is a sequence of tasks from its other end.           *)
(***************************************************************************)
\* The ends of sequences.
LEMMA ReverseIs ==
  ASSUME NEW S, NEW s \in Seq(S)
  PROVE  /\ Reverse(s) \in Seq(S) /\ Len(Reverse(s)) = Len(s)
         /\ \A i \in 1 .. Len(s) : Reverse(s)[i] = s[(Len(s) - i) + 1]
<1>1. \A i \in 1 .. Len(s) : (Len(s) - i) + 1 \in 1 .. Len(s)
  OBVIOUS
<1>2. QED
  BY <1>1 DEF Reverse

LEMMA FrontIs ==
  ASSUME NEW S, NEW s \in Seq(S), s # <<>>
  PROVE  /\ Front(s) \in Seq(S) /\ Len(Front(s)) = Len(s) - 1
         /\ \A i \in 1 .. Len(s) - 1 : Front(s)[i] = s[i]
         /\ Last(s) = s[Len(s)] /\ Last(s) \in S
         /\ Len(s) \in Nat \ {0}
<1>1. Len(s) \in Nat \ {0}
  BY EmptySeq
<1>2. Len(s) - 1 \in 0 .. Len(s) /\ s[Len(s)] \in S
  BY <1>1, ElementOfSeq
<1>3. QED
  BY <1>1, <1>2, CutInTwo, ZenonT(30) DEF Front, Last

\* The last task on the stack is the first to be done.
LEMMA ReverseFirst ==
  ASSUME NEW S, NEW s \in Seq(S), s # <<>>
  PROVE  Reverse(s) = <<Last(s)>> \o Reverse(Front(s))
<1> DEFINE f == Front(s)
           n == Len(s)
           u == <<Last(s)>> \o Reverse(f)
<1>1. /\ f \in Seq(S) /\ Len(f) = n - 1 /\ Last(s) = s[n] /\ Last(s) \in S /\ n \in Nat \ {0}
      /\ \A i \in 1 .. n - 1 : f[i] = s[i]
  BY FrontIs
<1>2. /\ Reverse(s) \in Seq(S) /\ Len(Reverse(s)) = n
      /\ \A i \in 1 .. n : Reverse(s)[i] = s[(n - i) + 1]
  BY ReverseIs
<1> HIDE DEF f, n
<1>3. /\ Reverse(f) \in Seq(S) /\ Len(Reverse(f)) = n - 1
      /\ \A i \in 1 .. n - 1 : Reverse(f)[i] = f[((n - 1) - i) + 1]
  <2>1. f \in Seq(S) /\ Len(f) = n - 1
    BY <1>1
  <2>2. /\ Reverse(f) \in Seq(S) /\ Len(Reverse(f)) = Len(f)
        /\ \A i \in 1 .. Len(f) : Reverse(f)[i] = f[(Len(f) - i) + 1]
    BY <2>1, ReverseIs
  <2>3. QED
    BY <2>1, <2>2
<1>4. <<Last(s)>> \in Seq(S) /\ Len(<<Last(s)>>) = 1 /\ <<Last(s)>>[1] = s[n]
  BY <1>1
<1>5. /\ u \in Seq(S) /\ Len(u) = 1 + (n - 1)
      /\ \A i \in 1 .. 1 + (n - 1) : u[i] = IF i <= 1 THEN <<Last(s)>>[i] ELSE Reverse(f)[i - 1]
  BY <1>3, <1>4, ConcatProperties
<1> HIDE DEF u
<1>6. ASSUME NEW i \in 1 .. n PROVE Reverse(s)[i] = u[i]
  <2>1. CASE i = 1
    BY <2>1, <1>1, <1>2, <1>4, <1>5
  <2>2. CASE i # 1
    <3>1. i - 1 \in 1 .. n - 1 /\ ((n - 1) - (i - 1)) + 1 = (n - i) + 1 /\ (n - i) + 1 \in 1 .. n - 1
          /\ i \in 1 .. 1 + (n - 1) /\ ~(i <= 1)
      BY <1>1, <2>2
    <3>2. u[i] = Reverse(f)[i - 1]
      BY <3>1, <1>5
    <3>3. Reverse(f)[i - 1] = f[(n - i) + 1]
      BY <3>1, <1>3
    <3>4. f[(n - i) + 1] = s[(n - i) + 1]
      BY <3>1, <1>1
    <3>5. QED
      BY <3>2, <3>3, <3>4, <1>2
  <2>3. QED
    BY <2>1, <2>2
<1>7. QED
  BY <1>1, <1>2, <1>5, <1>6, SeqEqual, SMTT(30) DEF f, u

\* What is pushed on the stack is done before what was there.
LEMMA ReverseJoined ==
  ASSUME NEW S, NEW s \in Seq(S), NEW t \in Seq(S)
  PROVE  Reverse(s \o Reverse(t)) = t \o Reverse(s)
<1> DEFINE n == Len(s)
           m == Len(t)
           u == s \o Reverse(t)
           v == t \o Reverse(s)
<1>1. n \in Nat /\ m \in Nat
  OBVIOUS
<1>2. /\ Reverse(s) \in Seq(S) /\ Len(Reverse(s)) = n
      /\ \A i \in 1 .. n : Reverse(s)[i] = s[(n - i) + 1]
  BY ReverseIs
<1>3. /\ Reverse(t) \in Seq(S) /\ Len(Reverse(t)) = m
      /\ \A i \in 1 .. m : Reverse(t)[i] = t[(m - i) + 1]
  BY ReverseIs
<1>4. /\ u \in Seq(S) /\ Len(u) = n + m
      /\ \A i \in 1 .. n + m : u[i] = IF i <= n THEN s[i] ELSE Reverse(t)[i - n]
  <2>1. Reverse(t) \in Seq(S)
    BY <1>3
  <2>2. /\ u \in Seq(S) /\ Len(u) = Len(s) + Len(Reverse(t))
        /\ \A i \in 1 .. Len(s) + Len(Reverse(t)) :
             u[i] = IF i <= Len(s) THEN s[i] ELSE Reverse(t)[i - Len(s)]
    BY <2>1, ConcatProperties, Zenon
  <2>3. QED
    BY <1>3, <2>2
<1>5. /\ v \in Seq(S) /\ Len(v) = m + n
      /\ \A i \in 1 .. m + n : v[i] = IF i <= m THEN t[i] ELSE Reverse(s)[i - m]
  <2>1. Reverse(s) \in Seq(S)
    BY <1>2
  <2>2. /\ v \in Seq(S) /\ Len(v) = Len(t) + Len(Reverse(s))
        /\ \A i \in 1 .. Len(t) + Len(Reverse(s)) :
             v[i] = IF i <= Len(t) THEN t[i] ELSE Reverse(s)[i - Len(t)]
    BY <2>1, ConcatProperties, Zenon
  <2>3. QED
    BY <1>2, <2>2
<1> HIDE DEF n, m, u, v
<1>6. /\ Reverse(u) \in Seq(S) /\ Len(Reverse(u)) = n + m
      /\ \A i \in 1 .. n + m : Reverse(u)[i] = u[((n + m) - i) + 1]
  BY <1>4, ReverseIs
<1>7. ASSUME NEW i \in 1 .. n + m PROVE Reverse(u)[i] = v[i]
  <2> DEFINE j == ((n + m) - i) + 1
  <2>1. j \in 1 .. n + m /\ i \in 1 .. m + n
    BY <1>1
  <2>2. Reverse(u)[i] = u[j]
    BY <1>6
  <2>3. CASE i <= m
    <3>1. ~(j <= n) /\ j - n \in 1 .. m /\ (m - (j - n)) + 1 = i
      BY <1>1, <2>3
    <3> HIDE DEF j
    <3>2. u[j] = Reverse(t)[j - n] /\ Reverse(t)[j - n] = t[i] /\ v[i] = t[i]
      BY <3>1, <2>1, <2>3, <1>3, <1>4, <1>5
    <3>3. QED
      BY <3>2, <2>2
  <2>4. CASE ~(i <= m)
    <3>1. j <= n /\ i - m \in 1 .. n /\ (n - (i - m)) + 1 = j
      BY <1>1, <2>4
    <3> HIDE DEF j
    <3>2. u[j] = s[j] /\ v[i] = Reverse(s)[i - m] /\ Reverse(s)[i - m] = s[j]
      BY <3>1, <2>1, <2>4, <1>2, <1>4, <1>5
    <3>3. QED
      BY <3>2, <2>2
  <2>5. QED
    BY <2>3, <2>4
<1>8. Len(v) = n + m
  BY <1>1, <1>5
<1>9. QED
  BY <1>5, <1>6, <1>7, <1>8, SeqEqual DEF u, v

\* The tasks on the stack leave one node, or nothing, and no key.
Bound(tasks, c, k) == \E d \in 0 .. 1 : Path(Reverse(tasks), c, k, d, 0)

\* The task at hand finds what it takes, and those behind it what they take after it.
LEMMA TaskDone ==
  ASSUME NEW ts \in Seq(AllTasks), ts # <<>>, NEW c, NEW k, Bound(ts, c, k)
  PROVE  LET t == Last(ts)
         IN  /\ t \in AllTasks /\ c \in Nat /\ k \in Nat /\ Takes(t) <= c /\ TakesKeys(t) <= k
             /\ Front(ts) \in Seq(AllTasks)
             /\ Bound(Front(ts), c - Takes(t) + Gives(t), k - TakesKeys(t) + GivesKeys(t))
<1> DEFINE t == Last(ts)
           f == Front(ts)
<1>1. f \in Seq(AllTasks) /\ t \in AllTasks
  BY FrontIs
<1>2. Reverse(ts) = <<t>> \o Reverse(f)
  BY ReverseFirst
<1> HIDE DEF t, f
<1>3. Reverse(f) \in Seq(AllTasks)
  BY <1>1, ReverseIs
<1>4. PICK d \in 0 .. 1 : Path(<<t>> \o Reverse(f), c, k, d, 0)
  BY <1>2 DEF Bound
<1>5. /\ c \in Nat /\ k \in Nat /\ Takes(t) <= c /\ TakesKeys(t) <= k
      /\ Path(Reverse(f), c - Takes(t) + Gives(t), k - TakesKeys(t) + GivesKeys(t), d, 0)
  BY <1>1, <1>3, <1>4, PathFirst
<1>6. Bound(f, c - Takes(t) + Gives(t), k - TakesKeys(t) + GivesKeys(t))
  BY <1>4, <1>5 DEF Bound
<1>7. QED
  BY <1>1, <1>5, <1>6 DEF t, f

\* It may push tasks that together leave what it is to leave.
LEMMA TasksPushed ==
  ASSUME NEW ts \in Seq(AllTasks), NEW new \in Seq(AllTasks), NEW c, NEW k, NEW d, NEW l,
         Path(new, c, k, d, l), Bound(ts, d, l)
  PROVE  /\ ts \o Reverse(new) \in Seq(AllTasks)
         /\ Bound(ts \o Reverse(new), c, k)
<1>1. Reverse(ts \o Reverse(new)) = new \o Reverse(ts)
  BY ReverseJoined
<1>2. Reverse(ts) \in Seq(AllTasks) /\ Reverse(new) \in Seq(AllTasks)
  BY ReverseIs
<1>3. PICK e \in 0 .. 1 : Path(Reverse(ts), d, l, e, 0)
  BY DEF Bound
<1>4. Path(new \o Reverse(ts), c, k, e, 0)
  BY <1>2, <1>3, PathJoined
<1>5. ts \o Reverse(new) \in Seq(AllTasks)
  BY <1>2, ConcatProperties
<1>6. QED
  BY <1>1, <1>3, <1>4, <1>5 DEF Bound

(***************************************************************************)
(* What the tasks of a collection do to the stacks.                        *)
(***************************************************************************)
\* The items of a sequence leave a node each.
LEMMA VisitsPath ==
  ASSUME NEW n \in Nat, NEW t \in AllTasks, t.task = "Visit", NEW c \in Nat, NEW k \in Nat
  PROVE  /\ [i \in 1 .. n |-> t] \in Seq(AllTasks)
         /\ Path([i \in 1 .. n |-> t], c, k, c + n, k)
<1> DEFINE s == [i \in 1 .. n |-> t]
           g == [i \in 0 .. n |-> c + i]
           h == [i \in 0 .. n |-> k]
<1>1. s \in Seq(AllTasks) /\ Len(s) = n /\ \A i \in 1 .. n : s[i] = t
  OBVIOUS
<1>2. Takes(t) = 0 /\ Gives(t) = 1 /\ TakesKeys(t) = 0 /\ GivesKeys(t) = 0
  BY DEF Takes, Gives, TakesKeys, GivesKeys
<1>3. /\ g \in [0 .. n -> Nat] /\ h \in [0 .. n -> Nat] /\ g[0] = c /\ h[0] = k
      /\ g[n] = c + n /\ h[n] = k /\ \A i \in 0 .. n : g[i] = c + i /\ h[i] = k
  OBVIOUS
<1> HIDE DEF s, g, h
<1>4. ASSUME NEW i \in 1 .. n
      PROVE  /\ Takes(s[i]) <= g[i - 1] /\ g[i] = g[i - 1] - Takes(s[i]) + Gives(s[i])
             /\ TakesKeys(s[i]) <= h[i - 1] /\ h[i] = h[i - 1] - TakesKeys(s[i]) + GivesKeys(s[i])
  <2>1. i - 1 \in 0 .. n /\ i \in 0 .. n
    OBVIOUS
  <2>2. QED
    BY <2>1, <1>1, <1>2, <1>3
<1>5. Path(s, c, k, c + n, k)
  <2>1. /\ g \in [0 .. Len(s) -> Nat] /\ h \in [0 .. Len(s) -> Nat]
        /\ g[0] = c /\ h[0] = k /\ g[Len(s)] = c + n /\ h[Len(s)] = k
    BY <1>1, <1>3
  <2>2. \A i \in 1 .. Len(s) :
         /\ Takes(s[i]) <= g[i - 1] /\ g[i] = g[i - 1] - Takes(s[i]) + Gives(s[i])
         /\ TakesKeys(s[i]) <= h[i - 1] /\ h[i] = h[i - 1] - TakesKeys(s[i]) + GivesKeys(s[i])
    BY <1>1, <1>4
  <2>3. QED
    BY <2>1, <2>2, Zenon DEF Path
<1>6. QED
  BY <1>1, <1>5 DEF s

\* A key more is a node more, or not.
NodesOfKey(key) == IF key.form = "node" THEN 1 ELSE 0

\* One key more.
LEMMA KeyNodesGrow ==
  ASSUME NEW s \in Seq(Templates), NEW x \in Templates
  PROVE  KeyNodes(Append(s, x)) = KeyNodes(s) + NodesOfKey(x)
<1> DEFINE n == Len(s)
           u == Append(s, x)
           S == {i \in 1 .. n : s[i].form = "node"}
           T == {i \in 1 .. n + 1 : u[i].form = "node"}
<1>1. /\ n \in Nat /\ u \in Seq(Templates) /\ Len(u) = n + 1 /\ u[n + 1] = x
      /\ \A i \in 1 .. n : u[i] = s[i]
      /\ DOMAIN u = 1 .. n + 1 /\ DOMAIN s = 1 .. n
  BY AppendProperties
<1>2. KeyNodes(s) = Cardinality(S) /\ KeyNodes(u) = Cardinality(T)
  BY <1>1 DEF KeyNodes
<1>3. IsFiniteSet(S) /\ Cardinality(S) \in Nat
  <2>1. IsFiniteSet(1 .. n)
    BY <1>1, FS_Interval
  <2>2. IsFiniteSet(S)
    BY <2>1, FS_Subset
  <2>3. QED
    BY <2>2, FS_CardinalityType
<1> HIDE DEF u
<1>4. CASE x.form = "node"
  <2>1. T = S \cup {n + 1} /\ n + 1 \notin S
    BY <1>1, <1>4
  <2> HIDE DEF S, T
  <2>2. Cardinality(T) = Cardinality(S) + 1
    BY <2>1, <1>3, FS_AddElement
  <2>3. QED
    BY <2>2, <1>2, <1>4 DEF NodesOfKey, u
<1>5. CASE x.form # "node"
  <2>1. T = S
    BY <1>1, <1>5
  <2> HIDE DEF S, T
  <2>3. QED
    BY <2>1, <1>2, <1>3, <1>5 DEF NodesOfKey, u
<1>6. QED
  BY <1>4, <1>5

\* Sequences by their elements.
LEMMA FunctionIsSeq ==
  ASSUME NEW V, NEW n \in Nat, NEW f \in [1 .. n -> V]
  PROVE  f \in Seq(V) /\ Len(f) = n
OBVIOUS

\* A visit is a task.
LEMMA VisitType ==
  ASSUME NEW as \in AnyName, NEW key \in BOOLEAN
  PROVE  Visit(as, key) \in AllTasks /\ Visit(as, key).task = "Visit"
BY DEF Visit, AllTasks, Visits

\* The tasks of one entry leave the entry's key, its node if it is one, and its value.
LEMMA EntryPath ==
  ASSUME NEW key \in Templates, NEW c \in Nat, NEW k \in Nat
  PROVE  /\ EntryTasks(key) \in Seq(AllTasks)
         /\ Path(EntryTasks(key), c, k, c + 1 + NodesOfKey(key), k + 1)
<1> DEFINE t == KeyTask(key)
           u == Visit(None, TRUE)
           v == Visit(None, FALSE)
           mid == IF key.form = "node" THEN <<u>> ELSE <<>>
<1>1. /\ t \in AllTasks /\ t.task = "Key" /\ u \in AllTasks /\ u.task = "Visit"
      /\ v \in AllTasks /\ v.task = "Visit"
  <2>1. t \in AllTasks /\ t.task = "Key"
    BY DEF KeyTask, Templates, AllTasks, KeyTasks
  <2>2. None \in AnyName
    BY DEF AnyName
  <2>3. QED
    BY <2>1, <2>2, VisitType
<1>2. EntryTasks(key) = (<<t>> \o mid) \o <<v>>
  BY DEF EntryTasks
<1> HIDE DEF t, u, v
<1>3. Path(<<t>>, c, k, c, k + 1)
  <2>1. Takes(t) = 0 /\ Gives(t) = 0 /\ TakesKeys(t) = 0 /\ GivesKeys(t) = 1
    BY <1>1 DEF Takes, Gives, TakesKeys, GivesKeys
  <2>2. c - 0 + 0 = c /\ k - 0 + 1 = k + 1 /\ 0 <= c /\ 0 <= k
    OBVIOUS
  <2>3. QED
    BY <1>1, <2>1, <2>2, PathOne
<1>4. ASSUME NEW w \in {u, v}, NEW d \in Nat
      PROVE  Path(<<w>>, d, k + 1, d + 1, k + 1)
  <2>1. w \in AllTasks /\ Takes(w) = 0 /\ Gives(w) = 1 /\ TakesKeys(w) = 0 /\ GivesKeys(w) = 0
    BY <1>1 DEF Takes, Gives, TakesKeys, GivesKeys
  <2>2. d - 0 + 1 = d + 1 /\ (k + 1) - 0 + 0 = k + 1 /\ 0 <= d /\ 0 <= k + 1 /\ k + 1 \in Nat
    OBVIOUS
  <2>3. QED
    BY <2>1, <2>2, PathOne
<1>5. mid \in Seq(AllTasks) /\ Path(mid, c, k + 1, c + NodesOfKey(key), k + 1)
  <2>1. CASE key.form = "node"
    BY <2>1, <1>1, <1>4 DEF NodesOfKey
  <2>2. CASE key.form # "node"
    BY <2>2, PathEmpty DEF NodesOfKey
  <2>3. QED
    BY <2>1, <2>2
<1> HIDE DEF mid
<1>6. <<t>> \in Seq(AllTasks) /\ <<v>> \in Seq(AllTasks)
  BY <1>1
<1>7. Path(<<t>> \o mid, c, k, c + NodesOfKey(key), k + 1) /\ <<t>> \o mid \in Seq(AllTasks)
  BY <1>3, <1>5, <1>6, PathJoined, ConcatProperties
<1>8. Path(<<v>>, c + NodesOfKey(key), k + 1, (c + NodesOfKey(key)) + 1, k + 1)
  <2>1. c + NodesOfKey(key) \in Nat
    BY DEF NodesOfKey
  <2>2. QED
    BY <2>1, <1>4
<1>9. (c + NodesOfKey(key)) + 1 = c + 1 + NodesOfKey(key)
  BY DEF NodesOfKey
<1>10. /\ (<<t>> \o mid) \o <<v>> \in Seq(AllTasks)
       /\ Path((<<t>> \o mid) \o <<v>>, c, k, c + 1 + NodesOfKey(key), k + 1)
  BY <1>6, <1>7, <1>8, <1>9, PathJoined, ConcatProperties
<1>11. QED
  BY <1>2, <1>10

\* The tasks of the entries of a mapping, by what they do to the stacks.
TasksOf(keys) == [i \in 1 .. Len(keys) |-> EntryTasks(keys[i])]

\* One entry more.
LEMMA TasksOfAppend ==
  ASSUME NEW s \in Seq(Templates), NEW x \in Templates
  PROVE  /\ TasksOf(s) \in Seq(Seq(AllTasks))
         /\ TasksOf(Append(s, x)) = Append(TasksOf(s), EntryTasks(x))
         /\ EntryTasks(x) \in Seq(AllTasks)
<1> DEFINE n == Len(s)
           u == Append(s, x)
           e == [i \in 1 .. n |-> EntryTasks(s[i])]
           f == [i \in 1 .. n + 1 |-> EntryTasks(u[i])]
           g == Append(e, EntryTasks(x))
           V == Seq(AllTasks)
<1>1. /\ n \in Nat /\ u \in Seq(Templates) /\ Len(u) = n + 1 /\ u[n + 1] = x
      /\ \A i \in 1 .. n : u[i] = s[i]
  BY AppendProperties
<1>2. \A y \in Templates : EntryTasks(y) \in V
  BY EntryPath
<1> HIDE DEF V
<1>3. \A i \in 1 .. n : s[i] \in Templates
  BY ElementOfSeq
<1>4. e \in Seq(V) /\ Len(e) = n /\ \A i \in 1 .. n : e[i] = EntryTasks(s[i])
  <2>1. \A i \in 1 .. n : EntryTasks(s[i]) \in V
    BY <1>2, <1>3
  <2>2. n \in Nat
    BY <1>1
  <2> HIDE DEF n
  <2>3. e \in [1 .. n -> V] /\ \A i \in 1 .. n : e[i] = EntryTasks(s[i])
    BY <2>1
  <2> HIDE DEF e
  <2>4. e \in Seq(V) /\ Len(e) = n
    BY <2>2, <2>3, FunctionIsSeq
  <2>5. QED
    BY <2>3, <2>4
<1>5. /\ f \in Seq(V) /\ Len(f) = n + 1
      /\ \A i \in 1 .. n + 1 : f[i] = EntryTasks(u[i])
  <2>1. \A i \in 1 .. n + 1 : EntryTasks(u[i]) \in V
    BY <1>1, <1>2, ElementOfSeq
  <2>2. n + 1 \in Nat
    BY <1>1
  <2> HIDE DEF n, u
  <2>3. f \in [1 .. n + 1 -> V] /\ \A i \in 1 .. n + 1 : f[i] = EntryTasks(u[i])
    BY <2>1
  <2> HIDE DEF f
  <2>4. f \in Seq(V) /\ Len(f) = n + 1
    BY <2>2, <2>3, FunctionIsSeq
  <2>5. QED
    BY <2>3, <2>4
<1>6. /\ g \in Seq(V) /\ Len(g) = n + 1
      /\ g[n + 1] = EntryTasks(x) /\ \A i \in 1 .. n : g[i] = e[i]
  <2> HIDE DEF e
  <2>1. EntryTasks(x) \in V
    BY <1>2
  <2> HIDE DEF n
  <2>2. e \in Seq(V) /\ Len(e) = n
    BY <1>4
  <2> HIDE DEF g
  <2>3. /\ g \in Seq(V) /\ Len(g) = Len(e) + 1 /\ g[Len(e) + 1] = EntryTasks(x)
        /\ \A i \in 1 .. Len(e) : g[i] = e[i]
    <3> DEFINE y == EntryTasks(x)
    <3>1. y \in V
      BY <2>1
    <3> HIDE DEF y
    <3>2. /\ Append(e, y) \in Seq(V) /\ Len(Append(e, y)) = Len(e) + 1
          /\ Append(e, y)[Len(e) + 1] = y /\ \A i \in 1 .. Len(e) : Append(e, y)[i] = e[i]
      BY <2>2, <3>1, AppendProperties
    <3>3. QED
      BY <3>2 DEF g, y
  <2>4. QED
    BY <2>2, <2>3
<1>7. TasksOf(s) = e /\ TasksOf(u) = f
  BY <1>1 DEF TasksOf
<1> HIDE DEF e, f, g, u
<1>8. \A i \in 1 .. n + 1 : f[i] = g[i]
  <2>1. \A i \in 1 .. n + 1 : i = n + 1 \/ i \in 1 .. n
    BY <1>1
  <2>2. QED
    BY <2>1, <1>1, <1>4, <1>5, <1>6
<1>9. f = g
  BY <1>5, <1>6, <1>8, SeqEqual
<1>10. QED
  BY <1>2, <1>4, <1>7, <1>9 DEF u, g, V

\* The tasks of all entries leave what FinishMapping takes.
LEMMA EntriesPath ==
  ASSUME NEW keys \in Seq(Templates), NEW c \in Nat, NEW k \in Nat
  PROVE  /\ FlattenSeq(TasksOf(keys)) \in Seq(AllTasks)
         /\ Path(FlattenSeq(TasksOf(keys)), c, k,
                 c + (Len(keys) + KeyNodes(keys)), k + Len(keys))
<1> DEFINE F(s) == FlattenSeq(TasksOf(s))
           N(s) == Len(s) + KeyNodes(s)
           D == {s \in Seq(Templates) :
                   /\ F(s) \in Seq(AllTasks)
                   /\ Path(F(s), c, k, c + N(s), k + Len(s))}
<1>1. <<>> \in D
  <2>1. TasksOf(<<>>) = <<>>
    BY SeqEqual DEF TasksOf
  <2>2. F(<<>>) = <<>>
    BY <2>1 DEF FlattenSeq
  <2>3. KeyNodes(<<>>) = 0
    <3>1. {i \in DOMAIN <<>> : <<>>[i].form = "node"} = {}
      OBVIOUS
    <3>2. QED
      BY <3>1, FS_EmptySet DEF KeyNodes
  <2>4. c + N(<<>>) = c /\ k + Len(<<>>) = k
    BY <2>3
  <2>5. <<>> \in Seq(Templates) /\ <<>> \in Seq(AllTasks)
    OBVIOUS
  <2> HIDE DEF F, N
  <2>6. QED
    BY <2>2, <2>4, <2>5, PathEmpty
<1>2. ASSUME NEW s \in Seq(Templates), NEW x \in Templates, s \in D
      PROVE  Append(s, x) \in D
  <2>1. F(Append(s, x)) = F(s) \o EntryTasks(x) /\ EntryTasks(x) \in Seq(AllTasks)
    BY TasksOfAppend, FlattenSeqAppend
  <2>2. F(s) \in Seq(AllTasks) /\ Path(F(s), c, k, c + N(s), k + Len(s))
    BY <1>2
  <2>3. N(s) \in Nat /\ Len(s) \in Nat
    BY KeyNodesType
  <2>4. N(Append(s, x)) = N(s) + 1 + NodesOfKey(x) /\ Len(Append(s, x)) = Len(s) + 1
        /\ NodesOfKey(x) \in Nat
    <3>1. KeyNodes(Append(s, x)) = KeyNodes(s) + NodesOfKey(x) /\ KeyNodes(s) \in Nat
          /\ NodesOfKey(x) \in Nat
      BY KeyNodesGrow, KeyNodesType DEF NodesOfKey
    <3>2. QED
      BY <3>1
  <2> HIDE DEF F, N
  <2>5. Path(EntryTasks(x), c + N(s), k + Len(s), (c + N(s)) + 1 + NodesOfKey(x), (k + Len(s)) + 1)
    <3>1. c + N(s) \in Nat /\ k + Len(s) \in Nat
      BY <2>3
    <3>2. QED
      BY <3>1, EntryPath
  <2>6. /\ (c + N(s)) + 1 + NodesOfKey(x) = c + N(Append(s, x))
        /\ (k + Len(s)) + 1 = k + Len(Append(s, x))
    BY <2>3, <2>4
  <2>7. /\ F(s) \o EntryTasks(x) \in Seq(AllTasks)
        /\ Path(F(s) \o EntryTasks(x), c, k, c + N(Append(s, x)), k + Len(Append(s, x)))
    BY <2>1, <2>2, <2>5, <2>6, PathJoined, ConcatProperties
  <2>8. Append(s, x) \in Seq(Templates)
    OBVIOUS
  <2>9. QED
    BY <2>1, <2>7, <2>8
<1>3. Seq(Templates) \subseteq D
  <2> HIDE DEF D
  <2>1. QED
    BY <1>1, <1>2, SequenceInduction
<1>4. QED
  BY <1>3

(***************************************************************************)
(* The children of a collection.                                           *)
(***************************************************************************)
\* What a sequence of sequences holds, flattened.
LEMMA FlattenRange ==
  ASSUME NEW S, NEW ss \in Seq(Seq(S))
  PROVE  ToSet(FlattenSeq(ss)) = UNION {ToSet(ss[i]) : i \in 1 .. Len(ss)}
<1> DEFINE R(s) == ToSet(FlattenSeq(s))
           U(s) == UNION {ToSet(s[i]) : i \in 1 .. Len(s)}
           D == {s \in Seq(Seq(S)) : R(s) = U(s)}
<1>1. <<>> \in D
  BY DEF FlattenSeq, ToSet
<1>2. ASSUME NEW s \in Seq(Seq(S)), NEW x \in Seq(S), s \in D
      PROVE  Append(s, x) \in D
  <2> DEFINE n == Len(s)
             u == Append(s, x)
             f == FlattenSeq(s)
  <2>1. /\ n \in Nat /\ u \in Seq(Seq(S)) /\ Len(u) = n + 1 /\ u[n + 1] = x
        /\ \A i \in 1 .. n : u[i] = s[i]
    BY AppendProperties
  <2>2. FlattenSeq(u) = f \o x /\ f \in Seq(S)
    BY FlattenSeqAppend, FlattenSeqType
  <2>3. ToSet(f \o x) = ToSet(f) \cup ToSet(x)
    <3> HIDE DEF f
    <3>1. /\ f \o x \in Seq(S) /\ Len(f \o x) = Len(f) + Len(x)
          /\ \A i \in 1 .. Len(f) + Len(x) :
               (f \o x)[i] = IF i <= Len(f) THEN f[i] ELSE x[i - Len(f)]
      BY <2>2, ConcatProperties
    <3>2. Len(f) \in Nat /\ Len(x) \in Nat
      BY <2>2
    <3>3. /\ \A i \in 1 .. Len(f) : i \in 1 .. Len(f) + Len(x) /\ (f \o x)[i] = f[i]
          /\ \A i \in 1 .. Len(x) : i + Len(f) \in 1 .. Len(f) + Len(x)
                                    /\ (f \o x)[i + Len(f)] = x[i]
      BY <3>1, <3>2
    <3>4. DOMAIN f = 1 .. Len(f) /\ DOMAIN x = 1 .. Len(x) /\ DOMAIN (f \o x) = 1 .. Len(f) + Len(x)
      BY <2>2, <3>1, LenProperties
    <3>5. \A i \in 1 .. Len(f) + Len(x) : i \in 1 .. Len(f) \/ i - Len(f) \in 1 .. Len(x)
      BY <3>2
    <3>6. ToSet(f \o x) \subseteq ToSet(f) \cup ToSet(x)
      BY <3>1, <3>2, <3>4, <3>5 DEF ToSet
    <3>7. ToSet(f) \cup ToSet(x) \subseteq ToSet(f \o x)
      BY <3>3, <3>4 DEF ToSet
    <3>8. QED
      BY <3>6, <3>7
  <2>4. U(u) = U(s) \cup ToSet(x)
    <3> HIDE DEF u
    <3>1. U(u) \subseteq U(s) \cup ToSet(x)
      <4>1. \A i \in 1 .. n + 1 : i = n + 1 \/ i \in 1 .. n
        BY <2>1
      <4>2. QED
        BY <2>1, <4>1
    <3>2. U(s) \subseteq U(u)
      BY <2>1
    <3>3. ToSet(x) \subseteq U(u)
      <4>1. n + 1 \in 1 .. Len(u) /\ ToSet(u[n + 1]) = ToSet(x)
        BY <2>1
      <4>2. ToSet(u[n + 1]) \subseteq U(u)
        BY <4>1
      <4>3. QED
        BY <4>1, <4>2
    <3>4. QED
      BY <3>1, <3>2, <3>3
  <2>5. R(s) = U(s)
    BY <1>2
  <2>6. R(u) = R(s) \cup ToSet(x)
    BY <2>2, <2>3
  <2> HIDE DEF U, R, u
  <2>7. R(u) = U(u)
    BY <2>4, <2>5, <2>6
  <2>8. QED
    BY <2>1, <2>7 DEF u
<1>3. Seq(Seq(S)) \subseteq D
  <2> HIDE DEF D
  <2>1. QED
    BY <1>1, <1>2, SequenceInduction
<1>4. QED
  BY <1>3

\* How many nodes the entries with these keys take, and the place of an entry's value
\* among them.
Wanted(s) == Len(s) + KeyNodes(s)

EntryPlace(s, i) == i + KeyNodes(SubSeq(s, 1, i))

\* Each node that the entries take is the value or the key of one of them.
Covered(s) ==
  /\ \A i \in 1 .. Len(s) :
       /\ EntryPlace(s, i) \in 1 .. Wanted(s)
       /\ s[i].form = "node" => EntryPlace(s, i) - 1 \in 1 .. Wanted(s)
  /\ \A j \in 1 .. Wanted(s) : \E i \in 1 .. Len(s) :
       j = EntryPlace(s, i) \/ (s[i].form = "node" /\ j = EntryPlace(s, i) - 1)

\* Without entries nothing is wanted.
LEMMA EmptyWants == Wanted(<<>>) = 0
<1>1. {i \in DOMAIN <<>> : <<>>[i].form = "node"} = {}
  OBVIOUS
<1>2. KeyNodes(<<>>) = 0
  BY <1>1, FS_EmptySet DEF KeyNodes
<1>3. QED
  BY <1>2 DEF Wanted

\* What is wanted, one entry after the other.
LEMMA WantedType ==
  ASSUME NEW s \in Seq(Templates)
  PROVE  Wanted(s) \in Nat /\ Len(s) <= Wanted(s)
<1>1. Len(s) \in Nat /\ KeyNodes(s) \in Nat
  BY KeyNodesType
<1>2. QED
  BY <1>1 DEF Wanted

LEMMA PlacesGrow ==
  ASSUME NEW s \in Seq(Templates), NEW x \in Templates
  PROVE  LET u == Append(s, x)
         IN  /\ Wanted(u) = Wanted(s) + 1 + NodesOfKey(x)
             /\ \A i \in 1 .. Len(s) : EntryPlace(u, i) = EntryPlace(s, i)
             /\ EntryPlace(u, Len(s) + 1) = Wanted(u)
<1> DEFINE u == Append(s, x)
           n == Len(s)
<1>1. /\ n \in Nat /\ u \in Seq(Templates) /\ Len(u) = n + 1 /\ u[n + 1] = x
      /\ \A i \in 1 .. n : u[i] = s[i]
  BY AppendProperties
<1>2. KeyNodes(u) = KeyNodes(s) + NodesOfKey(x)
  BY KeyNodesGrow
<1>3. KeyNodes(s) \in Nat /\ NodesOfKey(x) \in Nat
  BY KeyNodesType DEF NodesOfKey
<1>4. Wanted(s) = n + KeyNodes(s)
  BY DEF Wanted
<1> HIDE DEF u
<1>5. Wanted(u) = Wanted(s) + 1 + NodesOfKey(x)
  BY <1>1, <1>2, <1>3, <1>4 DEF Wanted
<1>6. ASSUME NEW i \in 1 .. n PROVE EntryPlace(u, i) = EntryPlace(s, i)
  <2> DEFINE p == SubSeq(u, 1, i)
             q == SubSeq(s, 1, i)
  <2>1. i \in 0 .. Len(s) /\ i \in 0 .. Len(u)
    BY <1>1
  <2>2. p \in Seq(Templates) /\ Len(p) = i /\ \A j \in 1 .. i : p[j] = u[j]
    BY <2>1, <1>1, CutInTwo
  <2>3. q \in Seq(Templates) /\ Len(q) = i /\ \A j \in 1 .. i : q[j] = s[j]
    BY <2>1, CutInTwo
  <2> HIDE DEF p, q
  <2>4. \A j \in 1 .. i : p[j] = q[j]
    BY <1>1, <2>2, <2>3
  <2>5. p = q
    BY <2>2, <2>3, <2>4, SeqEqual
  <2>6. QED
    BY <2>5 DEF EntryPlace, p, q
<1>7. EntryPlace(u, n + 1) = Wanted(u)
  <2>1. SubSeq(u, 1, n + 1) = u
    BY <1>1, SubSeqFull
  <2>2. QED
    BY <1>1, <2>1 DEF EntryPlace, Wanted
<1>8. QED
  BY <1>5, <1>6, <1>7 DEF u, n

\* No node that the entries take is left out, and none is taken that is not there.
LEMMA PlacesCovered ==
  ASSUME NEW keys \in Seq(Templates)
  PROVE  Covered(keys)
<1> DEFINE D == {s \in Seq(Templates) : Covered(s)}
<1>1. <<>> \in D
  <2>1. 1 .. Wanted(<<>>) = {} /\ 1 .. Len(<<>>) = {}
    BY EmptyWants
  <2>2. QED
    BY <2>1 DEF Covered
<1>2. ASSUME NEW s \in Seq(Templates), NEW x \in Templates, s \in D
      PROVE  Append(s, x) \in D
  <2> DEFINE u == Append(s, x)
             n == Len(s)
  <2>1. /\ n \in Nat /\ u \in Seq(Templates) /\ Len(u) = n + 1 /\ u[n + 1] = x
        /\ \A i \in 1 .. n : u[i] = s[i]
    BY AppendProperties
  <2>2. /\ Wanted(u) = Wanted(s) + 1 + NodesOfKey(x)
        /\ \A i \in 1 .. n : EntryPlace(u, i) = EntryPlace(s, i)
        /\ EntryPlace(u, n + 1) = Wanted(u)
    BY PlacesGrow
  <2>3. Wanted(s) \in Nat
    BY WantedType
  <2>4. Covered(s)
    BY <1>2
  <2> HIDE DEF u
  <2>5. ASSUME NEW i \in 1 .. Len(u)
        PROVE  /\ EntryPlace(u, i) \in 1 .. Wanted(u)
               /\ u[i].form = "node" => EntryPlace(u, i) - 1 \in 1 .. Wanted(u)
    <3>1. CASE i \in 1 .. n
      <4>1. EntryPlace(u, i) = EntryPlace(s, i) /\ u[i] = s[i]
        BY <3>1, <2>1, <2>2
      <4>2. EntryPlace(s, i) \in 1 .. Wanted(s)
            /\ (s[i].form = "node" => EntryPlace(s, i) - 1 \in 1 .. Wanted(s))
        BY <3>1, <2>4 DEF Covered
      <4>3. \A j \in 1 .. Wanted(s) : j \in 1 .. Wanted(u)
        BY <2>2, <2>3 DEF NodesOfKey
      <4>4. QED
        BY <4>1, <4>2, <4>3
    <3>2. CASE i = n + 1
      BY <3>2, <2>1, <2>2, <2>3 DEF NodesOfKey
    <3>3. QED
      BY <2>1, <3>1, <3>2
  <2>6. ASSUME NEW j \in 1 .. Wanted(u)
        PROVE  \E i \in 1 .. Len(u) :
                 j = EntryPlace(u, i) \/ (u[i].form = "node" /\ j = EntryPlace(u, i) - 1)
    <3>1. CASE j \in 1 .. Wanted(s)
      <4>1. PICK i \in 1 .. n :
              j = EntryPlace(s, i) \/ (s[i].form = "node" /\ j = EntryPlace(s, i) - 1)
        BY <3>1, <2>4 DEF Covered
      <4>2. i \in 1 .. Len(u) /\ EntryPlace(u, i) = EntryPlace(s, i) /\ u[i] = s[i]
        BY <2>1, <2>2
      <4>3. QED
        BY <4>1, <4>2
    <3>2. CASE j \notin 1 .. Wanted(s)
      <4>1. n + 1 \in 1 .. Len(u)
        BY <2>1
      <4>2. j = Wanted(u) \/ (x.form = "node" /\ j = Wanted(u) - 1)
        BY <3>2, <2>2, <2>3, SMTT(30) DEF NodesOfKey
      <4>3. QED
        BY <4>1, <4>2, <2>1, <2>2
    <3>3. QED
      BY <3>1, <3>2
  <2>7. Covered(u)
    BY <2>5, <2>6 DEF Covered
  <2>8. QED
    BY <2>1, <2>7 DEF u
<1>3. Seq(Templates) \subseteq D
  <2> HIDE DEF D
  <2>1. QED
    BY <1>1, <1>2, SequenceInduction
<1>4. QED
  BY <1>3

\* Short sequences.
LEMMA RangeOfOne ==
  ASSUME NEW a
  PROVE  ToSet(<<a>>) = {a}
BY DEF ToSet

LEMMA RangeOfTwo ==
  ASSUME NEW a, NEW b
  PROVE  ToSet(<<a, b>>) = {a, b}
BY DEF ToSet

\* The entries of a mapping name what they were given, each node of it.
LEMMA EntriesName ==
  ASSUME NEW templates \in Seq(Templates), NEW children \in Seq(Nat), NEW keys \in Seq(KeyNames),
         Len(children) = Wanted(templates), Len(keys) = Len(templates),
         NEW node, node.kind = "mapping",
         node.parts = EntriesOfFirstKeys(templates, children, keys)
  PROVE  /\ node.parts \in Seq(EntryParts)
         /\ ToSet(Children(node)) = ToSet(children)
<1> DEFINE n == Len(templates)
           m == Len(children)
           p == node.parts
           at(i) == EntryPlace(templates, i)
<1>1. n \in Nat /\ m \in Nat /\ DOMAIN templates = 1 .. n /\ DOMAIN children = 1 .. m
  OBVIOUS
<1>2. p = [i \in 1 .. n |->
             [form |-> templates[i].form, from |-> keys[i].from,
              anchor |-> keys[i].anchor, alias |-> keys[i].alias,
              node |-> IF templates[i].form = "node" THEN children[at(i) - 1] ELSE 0,
              value |-> children[at(i)]]]
  BY <1>1 DEF EntriesOfFirstKeys, EntryPlace
<1>3. \A i \in 1 .. n : /\ at(i) \in 1 .. m
                        /\ templates[i].form = "node" => at(i) - 1 \in 1 .. m
  BY PlacesCovered DEF Covered
<1>4. \A j \in 1 .. m : \E i \in 1 .. n : j = at(i) \/ (templates[i].form = "node" /\ j = at(i) - 1)
  BY PlacesCovered DEF Covered
<1> HIDE DEF p, at
<1>5. ASSUME NEW i \in 1 .. n
      PROVE  /\ p[i].form = templates[i].form /\ p[i].value = children[at(i)]
             /\ p[i].form = "node" => p[i].node = children[at(i) - 1]
             /\ p[i] \in EntryParts /\ p[i].value \in Nat /\ p[i].node \in Nat
  <2>1. templates[i] \in Templates /\ keys[i] \in KeyNames
    BY ElementOfSeq
  <2>2. \A j \in 1 .. m : children[j] \in Nat
    BY ElementOfSeq
  <2>3. QED
    BY <1>2, <1>3, <2>1, <2>2 DEF Templates, KeyNames, EntryParts
<1>6. p \in Seq(EntryParts) /\ Len(p) = n /\ DOMAIN p = 1 .. n
  <2>1. p \in [1 .. n -> EntryParts]
    BY <1>2, <1>5
  <2>2. QED
    BY <1>1, <2>1, FunctionIsSeq
<1> DEFINE e(i) == IF p[i].form = "node" THEN <<p[i].node, p[i].value>> ELSE <<p[i].value>>
           V == Seq(Nat)
           ss == [i \in 1 .. n |-> e(i)]
<1>7. Children(node) = FlattenSeq(ss)
  BY <1>6 DEF Children, p
<1>8. \A i \in 1 .. n : e(i) \in V
  BY <1>5
<1>9. ss \in [1 .. n -> V] /\ \A i \in 1 .. n : ss[i] = e(i)
  <2> HIDE DEF V, e
  <2>1. QED
    BY <1>8
<1> HIDE DEF ss, V, e
<1>10. ss \in Seq(V) /\ Len(ss) = n
  BY <1>1, <1>9, FunctionIsSeq
<1>11. ToSet(FlattenSeq(ss)) = UNION {ToSet(ss[i]) : i \in 1 .. n}
  BY <1>10, FlattenRange DEF V
<1>12. \A i \in 1 .. n :
         ToSet(ss[i]) = {children[at(i)]}
                          \cup (IF templates[i].form = "node" THEN {children[at(i) - 1]} ELSE {})
  <2> SUFFICES ASSUME NEW i \in 1 .. n
               PROVE  ToSet(ss[i]) = {children[at(i)]}
                        \cup (IF templates[i].form = "node" THEN {children[at(i) - 1]} ELSE {})
    OBVIOUS
  <2>1. CASE templates[i].form = "node"
    <3>1. ss[i] = <<children[at(i) - 1], children[at(i)]>>
      BY <2>1, <1>5, <1>9 DEF e
    <3>2. ToSet(ss[i]) = {children[at(i) - 1], children[at(i)]}
      BY <3>1, RangeOfTwo
    <3>3. QED
      BY <2>1, <3>2
  <2>2. CASE templates[i].form # "node"
    <3>1. ss[i] = <<children[at(i)]>>
      BY <2>2, <1>5, <1>9 DEF e
    <3>2. ToSet(ss[i]) = {children[at(i)]}
      BY <3>1, RangeOfOne
    <3>3. QED
      BY <2>2, <3>2
  <2>3. QED
    BY <2>1, <2>2
<1>13. UNION {ToSet(ss[i]) : i \in 1 .. n} = ToSet(children)
  <2>1. ASSUME NEW i \in 1 .. n PROVE ToSet(ss[i]) \subseteq ToSet(children)
    BY <1>1, <1>3, <1>12, ZenonT(30) DEF ToSet
  <2>2. ASSUME NEW c \in ToSet(children) PROVE \E i \in 1 .. n : c \in ToSet(ss[i])
    <3>1. PICK j \in 1 .. m : c = children[j]
      BY <1>1 DEF ToSet
    <3>2. QED
      BY <3>1, <1>4, <1>12
  <2>3. QED
    BY <2>1, <2>2
<1>14. QED
  BY <1>6, <1>7, <1>11, <1>13 DEF p

(***************************************************************************)
(* The arena while it is built.                                            *)
(***************************************************************************)
\* The completed nodes are those without a parent, each once, and the last of all is one
\* of them; a node comes behind its children.
Forest(ns, cs) ==
  /\ ns \in Seq(AllNodes) /\ cs \in Seq(1 .. Len(ns))
  /\ \A i, j \in 1 .. Len(cs) : cs[i] = cs[j] => i = j
  /\ \A i \in 1 .. Len(ns) : \A c \in ToSet(Children(ns[i])) : c \in 1 .. i - 1
  /\ \A i \in 1 .. Len(ns) :
       IF i \in ToSet(cs) THEN Parents(ns, i) = {} ELSE \E p : Parents(ns, i) = {p}
  /\ Len(ns) # 0 => Len(ns) \in ToSet(cs)

\* What a sequence holds.
LEMMA RangeIs ==
  ASSUME NEW S, NEW s \in Seq(S)
  PROVE  ToSet(s) = {s[i] : i \in 1 .. Len(s)} /\ ToSet(s) \subseteq S
<1>1. DOMAIN s = 1 .. Len(s) /\ \A i \in 1 .. Len(s) : s[i] \in S
  BY LenProperties, ElementOfSeq
<1>2. QED
  BY <1>1 DEF ToSet

\* A sequence without repetitions, cut in two: nothing is in both parts.
LEMMA CutRange ==
  ASSUME NEW S, NEW s \in Seq(S), NEW m \in 0 .. Len(s),
         \A i, j \in 1 .. Len(s) : s[i] = s[j] => i = j
  PROVE  /\ Without(s, m) \in Seq(S) /\ Tails(s, m) \in Seq(S)
         /\ Len(Without(s, m)) = Len(s) - m /\ Len(Tails(s, m)) = m
         /\ \A i \in 1 .. Len(s) - m : Without(s, m)[i] = s[i]
         /\ ToSet(Tails(s, m)) = ToSet(s) \ ToSet(Without(s, m))
         /\ ToSet(Without(s, m)) \subseteq ToSet(s)
<1> DEFINE n == Len(s)
           k == n - m
           t == Without(s, m)
           u == Tails(s, m)
<1>1. n \in Nat /\ k \in 0 .. n /\ m \in Nat
  OBVIOUS
<1>2. t = SubSeq(s, 1, k) /\ u = SubSeq(s, k + 1, n)
  BY DEF Without, Tails
<1>3. /\ t \in Seq(S) /\ u \in Seq(S) /\ Len(t) = k /\ \A i \in 1 .. k : t[i] = s[i]
      /\ s = t \o u
  <2>1. k \in 0 .. Len(s)
    BY <1>1
  <2> HIDE DEF k, t, u
  <2>2. /\ SubSeq(s, 1, k) \in Seq(S) /\ SubSeq(s, k + 1, Len(s)) \in Seq(S)
        /\ Len(SubSeq(s, 1, k)) = k /\ \A i \in 1 .. k : SubSeq(s, 1, k)[i] = s[i]
        /\ s = SubSeq(s, 1, k) \o SubSeq(s, k + 1, Len(s))
    BY <2>1, CutInTwo, Zenon
  <2>3. QED
    BY <1>2, <2>2, Zenon
<1> HIDE DEF t, u
<1>4. /\ Len(t \o u) = Len(t) + Len(u)
      /\ \A i \in 1 .. Len(t) + Len(u) : (t \o u)[i] = IF i <= Len(t) THEN t[i] ELSE u[i - Len(t)]
  <2>1. t \in Seq(S) /\ u \in Seq(S)
    BY <1>3
  <2>2. QED
    BY <2>1, ConcatProperties
<1>5. Len(u) \in Nat /\ Len(u) = m
  <2>1. n = k + Len(u) /\ Len(u) \in Nat
    BY <1>3, <1>4
  <2>2. QED
    BY <1>1, <2>1
<1>6. \A i \in 1 .. m : u[i] = s[k + i] /\ k + i \in 1 .. n /\ ~(k + i <= k)
  <2> SUFFICES ASSUME NEW i \in 1 .. m PROVE u[i] = s[k + i] /\ k + i \in 1 .. n /\ ~(k + i <= k)
    OBVIOUS
  <2>1. k + i \in 1 .. Len(t) + Len(u) /\ ~(k + i <= Len(t)) /\ (k + i) - Len(t) = i
        /\ k + i \in 1 .. n
    BY <1>1, <1>3, <1>5
  <2>2. (t \o u)[k + i] = u[i]
    BY <1>4, <2>1
  <2>3. QED
    BY <1>1, <1>3, <2>1, <2>2
<1> HIDE DEF n, k
<1>7. /\ ToSet(t) = {s[i] : i \in 1 .. k} /\ ToSet(u) = {s[i] : i \in k + 1 .. n}
      /\ ToSet(s) = {s[i] : i \in 1 .. n}
  <2>0. ToSet(t) = {t[i] : i \in 1 .. Len(t)} /\ ToSet(u) = {u[i] : i \in 1 .. Len(u)}
    BY <1>3, RangeIs
  <2>1. ToSet(t) = {t[i] : i \in 1 .. k}
    BY <1>3, <2>0
  <2>2. ToSet(u) = {u[i] : i \in 1 .. m}
    BY <1>5, <2>0
  <2>3. ToSet(s) = {s[i] : i \in 1 .. n}
    BY RangeIs DEF n
  <2>4. {u[i] : i \in 1 .. m} = {s[i] : i \in k + 1 .. n}
    <3>1. \A i \in k + 1 .. n : i - k \in 1 .. m /\ k + (i - k) = i
      BY <1>1 DEF k
    <3>2. \A i \in 1 .. m : k + i \in k + 1 .. n
      BY <1>1, <1>6
    <3>3. \A i \in k + 1 .. n : s[i] = u[i - k]
      <4> SUFFICES ASSUME NEW i \in k + 1 .. n PROVE s[i] = u[i - k]
        OBVIOUS
      <4>1. i - k \in 1 .. m /\ k + (i - k) = i
        BY <3>1
      <4>2. u[i - k] = s[k + (i - k)]
        BY <4>1, <1>6
      <4>3. QED
        BY <4>1, <4>2
    <3>4. \A i \in k + 1 .. n : s[i] \in {u[l] : l \in 1 .. m}
      BY <3>1, <3>3
    <3>5. \A i \in 1 .. m : u[i] \in {s[l] : l \in k + 1 .. n}
      BY <3>2, <1>6
    <3>6. QED
      BY <3>4, <3>5
  <2>5. {t[i] : i \in 1 .. k} = {s[i] : i \in 1 .. k}
    <3>1. \A i \in 1 .. k : t[i] = s[i]
      BY <1>3
    <3>2. QED
      BY <3>1
  <2>6. QED
    BY <2>1, <2>2, <2>3, <2>4, <2>5
<1>8. \A i, j \in 1 .. n : s[i] = s[j] => i = j
  BY DEF n
<1>9. \A i \in 1 .. n : i \in 1 .. k \/ i \in k + 1 .. n
  BY <1>1
<1>10. (\A i \in 1 .. k : i \in 1 .. n) /\ (\A i \in k + 1 .. n : i \in 1 .. n /\ i \notin 1 .. k)
  BY <1>1
<1>11. ToSet(t) \subseteq ToSet(s) /\ ToSet(u) = ToSet(s) \ ToSet(t)
  BY <1>7, <1>8, <1>9, <1>10
<1>12. QED
  BY <1>3, <1>5, <1>11 DEF n, k, t, u

\* Who names a node, when one is added.
LEMMA ParentsGrow ==
  ASSUME NEW ns \in Seq(AllNodes), NEW node \in AllNodes, NEW i
  PROVE  Parents(Append(ns, node), i) =
           Parents(ns, i) \cup (IF i \in ToSet(Children(node)) THEN {Len(ns) + 1} ELSE {})
<1> DEFINE n == Len(ns)
           u == Append(ns, node)
<1>1. /\ n \in Nat /\ DOMAIN u = 1 .. n + 1 /\ DOMAIN ns = 1 .. n /\ u[n + 1] = node
      /\ \A j \in 1 .. n : u[j] = ns[j]
  BY AppendProperties
<1> HIDE DEF u, n
<1>2. \A j \in 1 .. n + 1 : j = n + 1 \/ j \in 1 .. n
  BY <1>1
<1>3. \A j \in 1 .. n : j \in 1 .. n + 1
  BY <1>1
<1>4. n + 1 \in 1 .. n + 1
  BY <1>1
<1>5. QED
  BY <1>1, <1>2, <1>3, <1>4 DEF Parents, u, n

\* A node that names exactly the last of the completed ones replaces them: the forest stays one.
LEMMA ForestGrows ==
  ASSUME NEW ns, NEW cs, Forest(ns, cs), NEW m \in 0 .. Len(cs), NEW node \in AllNodes,
         ToSet(Children(node)) = ToSet(Tails(cs, m))
  PROVE  Forest(Append(ns, node), Append(Without(cs, m), Len(ns) + 1))
<1> DEFINE n == Len(ns)
           u == Append(ns, node)
           t == Without(cs, m)
           v == Append(t, n + 1)
           k == Len(cs) - m
<1>1. /\ ns \in Seq(AllNodes) /\ cs \in Seq(1 .. n) /\ n \in Nat /\ k \in 0 .. Len(cs)
      /\ \A i, j \in 1 .. Len(cs) : cs[i] = cs[j] => i = j
  BY DEF Forest
<1>2. /\ u \in Seq(AllNodes) /\ Len(u) = n + 1 /\ u[n + 1] = node
      /\ \A i \in 1 .. n : u[i] = ns[i]
  BY <1>1, AppendProperties
<1>3. /\ t \in Seq(1 .. n) /\ Len(t) = k /\ \A i \in 1 .. k : t[i] = cs[i]
      /\ ToSet(Children(node)) = ToSet(cs) \ ToSet(t) /\ ToSet(t) \subseteq ToSet(cs)
  BY <1>1, CutRange
<1>4. ToSet(cs) \subseteq 1 .. n /\ ToSet(t) \subseteq 1 .. n
  BY <1>1, <1>3, RangeIs
<1>5. /\ v \in Seq(1 .. n + 1) /\ Len(v) = k + 1 /\ v[k + 1] = n + 1
      /\ \A i \in 1 .. k : v[i] = t[i]
  <2>1. t \in Seq(1 .. n + 1)
    BY <1>1, <1>3, SeqMonotonic
  <2>2. n + 1 \in 1 .. n + 1
    BY <1>1
  <2> HIDE DEF t, n
  <2>3. QED
    BY <2>1, <2>2, <1>3, AppendProperties
<1> HIDE DEF u, v, t
<1>6. ToSet(v) = ToSet(t) \cup {n + 1}
  <2>0. ToSet(v) = {v[i] : i \in 1 .. Len(v)} /\ ToSet(t) = {t[i] : i \in 1 .. Len(t)}
    <3>1. v \in Seq(1 .. n + 1) /\ t \in Seq(1 .. n)
      BY <1>3, <1>5
    <3> HIDE DEF n
    <3>2. QED
      BY <3>1, RangeIs
  <2>1. ToSet(v) = {v[i] : i \in 1 .. k + 1} /\ ToSet(t) = {t[i] : i \in 1 .. k}
    BY <1>3, <1>5, <2>0
  <2>2. \A i \in 1 .. k + 1 : i = k + 1 \/ i \in 1 .. k
    BY <1>1
  <2>3. (\A i \in 1 .. k : i \in 1 .. k + 1) /\ k + 1 \in 1 .. k + 1
    BY <1>1
  <2>4. QED
    BY <2>1, <2>2, <2>3, <1>5
<1>7. \A i, j \in 1 .. Len(v) : v[i] = v[j] => i = j
  <2> SUFFICES ASSUME NEW i \in 1 .. k + 1, NEW j \in 1 .. k + 1, v[i] = v[j] PROVE i = j
    BY <1>5
  <2>1. \A l \in 1 .. k : v[l] = cs[l] /\ l \in 1 .. Len(cs) /\ v[l] \in 1 .. n
    <3> SUFFICES ASSUME NEW l \in 1 .. k PROVE v[l] = cs[l] /\ l \in 1 .. Len(cs) /\ v[l] \in 1 .. n
      OBVIOUS
    <3>1. v[l] = t[l] /\ t[l] = cs[l] /\ l \in 1 .. Len(cs)
      <4>1. l \in 1 .. Len(cs)
        BY <1>1
      <4>2. QED
        BY <4>1, <1>3, <1>5
    <3>2. cs[l] \in 1 .. n
      BY <3>1, <1>1, ElementOfSeq
    <3>3. QED
      BY <3>1, <3>2
  <2>2. (i = k + 1 \/ i \in 1 .. k) /\ (j = k + 1 \/ j \in 1 .. k)
    BY <1>1
  <2>3. n + 1 \notin 1 .. n
    BY <1>1
  <2>4. \A l \in 1 .. k : v[l] # v[k + 1]
    BY <2>1, <2>3, <1>5
  <2>5. CASE i \in 1 .. k /\ j \in 1 .. k
    BY <2>1, <2>5, <1>1
  <2>6. CASE i = k + 1 \/ j = k + 1
    BY <2>2, <2>4, <2>6
  <2>7. QED
    BY <2>2, <2>5, <2>6
<1>8. ASSUME NEW i \in 1 .. Len(u), NEW c \in ToSet(Children(u[i]))
      PROVE  c \in 1 .. i - 1
  <2>1. CASE i \in 1 .. n
    BY <2>1, <1>2 DEF Forest
  <2>2. CASE i = n + 1
    <3>1. c \in ToSet(cs) /\ i - 1 = n
      BY <2>2, <1>1, <1>2, <1>3
    <3>2. QED
      BY <3>1, <1>4
  <2>3. QED
    BY <1>1, <1>2, <2>1, <2>2
<1>9. \A i : Parents(u, i) = Parents(ns, i) \cup (IF i \in ToSet(Children(node)) THEN {n + 1} ELSE {})
  BY <1>1, ParentsGrow DEF u
<1>10. Parents(ns, n + 1) = {}
  <2>1. \A p \in 1 .. n : n + 1 \notin 1 .. p - 1
    BY <1>1
  <2>2. DOMAIN ns = 1 .. n
    BY <1>1
  <2>3. \A p \in 1 .. n : \A c \in ToSet(Children(ns[p])) : c \in 1 .. p - 1
    BY DEF Forest
  <2>4. QED
    BY <2>1, <2>2, <2>3 DEF Parents
<1>11. ASSUME NEW i \in 1 .. Len(u)
       PROVE  IF i \in ToSet(v) THEN Parents(u, i) = {} ELSE \E p : Parents(u, i) = {p}
  <2>1. CASE i = n + 1
    <3>1. i \in ToSet(v) /\ i \notin ToSet(Children(node))
      <4>1. n + 1 \notin 1 .. n
        BY <1>1
      <4>2. QED
        BY <2>1, <4>1, <1>3, <1>4, <1>6
    <3>2. Parents(u, i) = {}
      BY <3>1, <2>1, <1>9, <1>10
    <3>3. QED
      BY <3>1, <3>2
  <2>2. CASE i \in 1 .. n
    <3>1. IF i \in ToSet(cs) THEN Parents(ns, i) = {} ELSE \E p : Parents(ns, i) = {p}
      BY <2>2 DEF Forest
    <3>2. i # n + 1
      BY <2>2, <1>1
    <3>3. CASE i \in ToSet(t)
      <4>1. i \in ToSet(cs) /\ i \notin ToSet(Children(node)) /\ i \in ToSet(v)
        BY <3>3, <1>3, <1>6
      <4>2. QED
        BY <4>1, <3>1, <1>9
    <3>4. CASE i \in ToSet(cs) /\ i \notin ToSet(t)
      <4>1. i \in ToSet(Children(node)) /\ i \notin ToSet(v)
        BY <3>2, <3>4, <1>3, <1>6
      <4>2. Parents(u, i) = {n + 1}
        BY <4>1, <3>1, <3>4, <1>9
      <4>3. QED
        BY <4>1, <4>2
    <3>5. CASE i \notin ToSet(cs)
      <4>1. i \notin ToSet(Children(node)) /\ i \notin ToSet(v)
        BY <3>2, <3>5, <1>3, <1>6
      <4>2. Parents(u, i) = Parents(ns, i)
        BY <4>1, <1>9
      <4>3. QED
        BY <4>1, <4>2, <3>1, <3>5
    <3>6. QED
      BY <3>3, <3>4, <3>5
  <2>3. i = n + 1 \/ i \in 1 .. n
    BY <1>1, <1>2
  <2>4. QED
    BY <2>1, <2>2, <2>3
<1>12. Len(u) \in ToSet(v)
  BY <1>2, <1>6
<1>13. Forest(u, v)
  <2>1. v \in Seq(1 .. Len(u))
    BY <1>2, <1>5
  <2>2. QED
    BY <2>1, <1>2, <1>7, <1>8, <1>11, <1>12 DEF Forest
<1>14. QED
  BY <1>13 DEF u, v, t, n

\* A node may change in what is not its children.
LEMMA ForestRestored ==
  ASSUME NEW ns, NEW cs, Forest(ns, cs), NEW i \in 1 .. Len(ns), NEW node \in AllNodes,
         Children(node) = Children(ns[i])
  PROVE  Forest([ns EXCEPT ![i] = node], cs)
<1> DEFINE u == [ns EXCEPT ![i] = node]
<1>1. ns \in Seq(AllNodes)
  BY DEF Forest
<1>2. /\ u \in Seq(AllNodes) /\ Len(u) = Len(ns) /\ DOMAIN u = DOMAIN ns
      /\ \A j \in 1 .. Len(ns) : u[j] = IF j = i THEN node ELSE ns[j]
  BY <1>1, ExceptSeq
<1> HIDE DEF u
<1>3. DOMAIN ns = 1 .. Len(ns)
  BY <1>1
<1>4. \A j \in 1 .. Len(ns) : Children(u[j]) = Children(ns[j])
  BY <1>2
<1>5. \A j : Parents(u, j) = Parents(ns, j)
  BY <1>2, <1>3, <1>4 DEF Parents
<1>6. Forest(u, cs)
  BY <1>2, <1>4, <1>5 DEF Forest
<1>7. QED
  BY <1>6 DEF u

\* One node without a parent is the root of all.
LEMMA ForestTree ==
  ASSUME NEW ns, NEW cs, Forest(ns, cs), Len(cs) = 1
  PROVE  IsTree(ns, Last(cs))
<1> DEFINE n == Len(ns)
<1>1. ns \in Seq(AllNodes) /\ cs \in Seq(1 .. n) /\ n \in Nat /\ DOMAIN ns = 1 .. n
  BY DEF Forest
<1>2. cs[1] \in 1 .. n /\ Last(cs) = cs[1]
  <2>1. 1 \in 1 .. Len(cs)
    OBVIOUS
  <2>2. QED
    BY <2>1, <1>1, ElementOfSeq DEF Last
<1>3. ToSet(cs) = {cs[1]}
  <2>1. ToSet(cs) = {cs[i] : i \in 1 .. 1}
    BY <1>1, RangeIs
  <2>2. QED
    BY <2>1
<1>4. Last(cs) = n
  BY <1>1, <1>2, <1>3 DEF Forest
<1>5. ASSUME NEW i \in 1 .. n
      PROVE  Cardinality(Parents(ns, i)) = IF i = n THEN 0 ELSE 1
  <2>1. CASE i = n
    <3>1. Parents(ns, i) = {}
      BY <2>1, <1>2, <1>3, <1>4 DEF Forest
    <3>2. QED
      BY <2>1, <3>1, FS_EmptySet
  <2>2. CASE i # n
    <3>1. \E p : Parents(ns, i) = {p}
      BY <2>2, <1>2, <1>3, <1>4 DEF Forest
    <3>2. QED
      BY <2>2, <3>1, FS_Singleton
  <2>3. QED
    BY <2>1, <2>2
<1>6. \A i \in 1 .. n : \A c \in ToSet(Children(ns[i])) : c \in 1 .. i - 1
  BY DEF Forest
<1>7. QED
  BY <1>1, <1>4, <1>5, <1>6 DEF IsTree

(***************************************************************************)
(* The invariant of the lowering.                                          *)
(***************************************************************************)
\* Types of the stacks and of the documents.
Lowerings ==
  [tasks : Seq(AllTasks), completed : Seq(Nat), nodes : Seq(AllNodes),
   anchors : SUBSET AnyName, keys : Seq(KeyNames)]

Documents == [nodes : Seq(AllNodes), root : Nat, start : BOOLEAN, end : BOOLEAN]

\* The stacks fit each other.
Fits(l) ==
  /\ l \in Lowerings
  /\ Forest(l.nodes, l.completed)
  /\ Bound(l.tasks, Len(l.completed), Len(l.keys))

LInv ==
  /\ setting \in Settings /\ left \in Nat /\ count \in Nat
  /\ Fits(lower)
  /\ arenas \in Seq(Documents)
  /\ \A i \in 1 .. Len(arenas) : IsTree(arenas[i].nodes, arenas[i].root)

\* What the assumptions say of the names and bounds.
LEMMA NamesType ==
  ASSUME setting \in Settings
  PROVE  /\ Names \subseteq AnyName /\ setting.names \subseteq AnyName
         /\ setting.step \in Nat \ {0} /\ setting.width \in Nat /\ setting.nodes \in Nat \ {0}
BY ArenaConstants DEF Names, AnyName

\* A node without parts has no children.
LEMMA NothingNamed ==
  ASSUME NEW node, node.parts = <<>>
  PROVE  Children(node) = <<>>
<1>1. DOMAIN node.parts = {}
  OBVIOUS
<1>2. CASE node.kind = "mapping"
  <2> DEFINE ss == [j \in DOMAIN node.parts |->
                      IF node.parts[j].form = "node" THEN <<node.parts[j].node, node.parts[j].value>>
                      ELSE <<node.parts[j].value>>]
  <2>1. ss \in [1 .. 0 -> {}]
    BY <1>1
  <2>2. Children(node) = FlattenSeq(ss)
    BY <1>2 DEF Children
  <2> HIDE DEF ss
  <2>3. ss \in Seq({}) /\ Len(ss) = 0
    BY <2>1, FunctionIsSeq
  <2>4. ss = <<>>
    BY <2>3
  <2>5. QED
    BY <2>2, <2>4 DEF FlattenSeq
<1>3. CASE node.kind # "mapping"
  BY <1>3 DEF Children
<1>4. QED
  BY <1>2, <1>3

\* The nodes that a visit chooses from.
LEMMA VisitedType ==
  ASSUME NEW task \in Visits, setting \in Settings, count \in Nat
  PROVE  /\ AnchorsOf(task) \subseteq AnyName /\ None \in AnyName
         /\ Flags \subseteq BOOLEAN /\ Styles \subseteq BOOLEAN
<1>1. AnchorsOf(task) \subseteq AnyName /\ None \in AnyName
  BY NamesType DEF AnchorsOf, Visits, AnyName
<1>2. Flags \subseteq BOOLEAN /\ Styles \subseteq BOOLEAN
  BY DEF Flags, Styles
<1>3. QED
  BY <1>1, <1>2

LEMMA NodesType ==
  ASSUME count \in Nat, NEW K, NEW A, A \subseteq AnyName, NEW N, N \subseteq AnyName,
         NEW F, F \subseteq BOOLEAN
  PROVE  Nodes(K, A, N, F) \subseteq NodesOf(K, {<<>>})
<1>1. Flags \subseteq BOOLEAN
  BY DEF Flags
<1>2. {count + 1} \subseteq Nat
  OBVIOUS
<1>3. PICK C : C = {count + 1}
  OBVIOUS
<1>4. Nodes(K, A, N, F) =
        [kind : K, from : C, anchor : A, name : N, before : Flags, inline : Flags, flow : F,
         parts : {<<>>}]
  BY <1>3 DEF Nodes
<1>5. C \subseteq Nat
  BY <1>2, <1>3
<1>6. ASSUME NEW node \in Nodes(K, A, N, F)
      PROVE  node \in NodesOf(K, {<<>>})
  <2>1. /\ node = [kind |-> node.kind, from |-> node.from, anchor |-> node.anchor,
                   name |-> node.name, before |-> node.before, inline |-> node.inline,
                   flow |-> node.flow, parts |-> node.parts]
        /\ node.kind \in K /\ node.from \in C /\ node.anchor \in A /\ node.name \in N
        /\ node.before \in Flags /\ node.inline \in Flags /\ node.flow \in F
        /\ node.parts \in {<<>>}
    BY <1>4
  <2>2. /\ node.from \in Nat /\ node.anchor \in AnyName /\ node.name \in AnyName
        /\ node.before \in BOOLEAN /\ node.inline \in BOOLEAN /\ node.flow \in BOOLEAN
    BY <2>1, <1>1, <1>5
  <2>3. QED
    BY <2>1, <2>2 DEF NodesOf
<1>7. QED
  BY <1>6

LEMMA LeavesType ==
  ASSUME NEW task \in Visits, setting \in Settings, count \in Nat,
         NEW node \in Scalars(task) \cup Aliases(task)
  PROVE  node \in AllNodes /\ Children(node) = <<>> /\ node.anchor \in AnyName /\ node.name \in AnyName
<1> DEFINE K == {"scalar", "block", "null", "alias", "sequence"}
<1>1. node \in NodesOf(K, {<<>>})
  <2>1. PICK F : F = {FALSE} /\ F \subseteq BOOLEAN
    OBVIOUS
  <2>2. {None} \subseteq AnyName
    BY VisitedType
  <2>3. Nodes(ScalarKinds, AnchorsOf(task), {None}, F) \subseteq NodesOf(ScalarKinds, {<<>>})
    BY <2>1, <2>2, VisitedType, NodesType
  <2>4. Nodes({"alias"}, {None}, AliasNames(task), F) \subseteq NodesOf({"alias"}, {<<>>})
    <3>1. AliasNames(task) \subseteq AnyName
      BY NamesType DEF AliasNames
    <3>2. QED
      BY <2>1, <2>2, <3>1, NodesType
  <2>5. ScalarKinds \subseteq K /\ {"alias"} \subseteq K
    BY DEF ScalarKinds
  <2>6. NodesOf(ScalarKinds, {<<>>}) \subseteq NodesOf(K, {<<>>})
        /\ NodesOf({"alias"}, {<<>>}) \subseteq NodesOf(K, {<<>>})
    <3> HIDE DEF K
    <3>1. QED
      BY <2>5 DEF NodesOf
  <2>7. Scalars(task) = Nodes(ScalarKinds, AnchorsOf(task), {None}, F)
        /\ Aliases(task) = Nodes({"alias"}, {None}, AliasNames(task), F)
    BY <2>1 DEF Scalars, Aliases
  <2> HIDE DEF K
  <2>8. QED
    BY <2>3, <2>4, <2>6, <2>7
<1>2. node.parts = <<>> /\ node.anchor \in AnyName /\ node.name \in AnyName
  BY <1>1 DEF NodesOf
<1>3. <<>> \in Seq(Nat)
  OBVIOUS
<1>4. node \in AllNodes
  BY <1>1, <1>3 DEF AllNodes, NodesOf
<1>5. QED
  BY <1>2, <1>4, NothingNamed

LEMMA CollectionsType ==
  ASSUME NEW task \in Visits, setting \in Settings, count \in Nat,
         NEW kind \in {"sequence", "mapping"}, NEW node \in Collections(kind, task)
  PROVE  node \in NodesOf({kind}, {<<>>}) /\ node.anchor \in AnyName
<1>1. node \in Nodes({kind}, AnchorsOf(task), {None}, Styles)
  BY DEF Collections
<1>2. node \in NodesOf({kind}, {<<>>})
  BY <1>1, VisitedType DEF Nodes, NodesOf
<1>3. node.kind = kind /\ node.anchor \in AnyName
  BY <1>2 DEF NodesOf
<1>4. QED
  BY <1>2, <1>3

(***************************************************************************)
(* The tasks keep the invariant.                                           *)
(***************************************************************************)
\* What the task at hand finds, and what is left for the tasks behind it.
LEMMA AtHand ==
  ASSUME Fits(lower), lower.tasks # <<>>
  PROVE  /\ Task \in AllTasks /\ Takes(Task) \in 0 .. Len(lower.completed)
         /\ TakesKeys(Task) \in 0 .. Len(lower.keys)
         /\ Len(lower.completed) \in Nat /\ Len(lower.keys) \in Nat
         /\ Front(lower.tasks) \in Seq(AllTasks)
         /\ Bound(Front(lower.tasks), Len(lower.completed) - Takes(Task) + Gives(Task),
                  Len(lower.keys) - TakesKeys(Task) + GivesKeys(Task))
<1>1. /\ lower.tasks \in Seq(AllTasks) /\ lower.completed \in Seq(Nat) /\ lower.keys \in Seq(KeyNames)
      /\ Bound(lower.tasks, Len(lower.completed), Len(lower.keys))
  BY DEF Fits, Lowerings
<1>2. /\ Task \in AllTasks /\ Takes(Task) <= Len(lower.completed)
      /\ TakesKeys(Task) <= Len(lower.keys) /\ Front(lower.tasks) \in Seq(AllTasks)
      /\ Bound(Front(lower.tasks), Len(lower.completed) - Takes(Task) + Gives(Task),
               Len(lower.keys) - TakesKeys(Task) + GivesKeys(Task))
  BY <1>1, TaskDone DEF Task
<1>3. Takes(Task) \in Nat /\ TakesKeys(Task) \in Nat
  BY <1>2, CostTypes
<1>4. Len(lower.completed) \in Nat /\ Len(lower.keys) \in Nat
  BY <1>1
<1>5. QED
  BY <1>2, <1>3, <1>4

\* The state once the task at hand is done.
LEMMA DoneIs ==
  ASSUME Fits(lower), lower.tasks # <<>>, NEW ts \in Seq(AllTasks)
  PROVE  /\ Done(ts) \in Lowerings
         /\ Done(ts) = [tasks |-> Front(lower.tasks) \o Reverse(ts), completed |-> lower.completed,
                        nodes |-> lower.nodes, anchors |-> lower.anchors, keys |-> lower.keys]
<1>1. Front(lower.tasks) \in Seq(AllTasks)
  BY AtHand
<1>2. Reverse(ts) \in Seq(AllTasks)
  BY ReverseIs
<1>3. Front(lower.tasks) \o Reverse(ts) \in Seq(AllTasks)
  BY <1>1, <1>2, ConcatProperties
<1>4. Done(ts) = [lower EXCEPT !.tasks = Front(lower.tasks) \o Reverse(ts)]
  BY DEF Done
<1> DEFINE rest == Front(lower.tasks) \o Reverse(ts)
<1> HIDE DEF rest
<1>5. rest \in Seq(AllTasks) /\ Done(ts) = [lower EXCEPT !.tasks = rest]
  BY <1>3, <1>4 DEF rest
<1>6. lower \in Lowerings
  BY DEF Fits
<1>7. /\ Done(ts) \in Lowerings
      /\ Done(ts) = [tasks |-> rest, completed |-> lower.completed,
                     nodes |-> lower.nodes, anchors |-> lower.anchors, keys |-> lower.keys]
  BY <1>5, <1>6 DEF Lowerings
<1>8. QED
  BY <1>7 DEF rest

LEMMA NothingPushed ==
  ASSUME Fits(lower), lower.tasks # <<>>
  PROVE  /\ Done(<<>>) \in Lowerings
         /\ Done(<<>>) = [tasks |-> Front(lower.tasks), completed |-> lower.completed,
                          nodes |-> lower.nodes, anchors |-> lower.anchors, keys |-> lower.keys]
<1>1. <<>> \in Seq(AllTasks) /\ Reverse(<<>>) = <<>>
  <2>1. Reverse(<<>>) \in Seq(AllTasks) /\ Len(Reverse(<<>>)) = Len(<<>>)
    BY EmptySeq, ReverseIs
  <2>2. QED
    BY <2>1
<1>2. Front(lower.tasks) \o <<>> = Front(lower.tasks)
  BY AtHand, ConcatEmptySeq
<1>3. QED
  BY <1>1, <1>2, DoneIs

\* The tasks a task leads to take its place.
LEMMA PushedFits ==
  ASSUME Fits(lower), lower.tasks # <<>>, NEW ts \in Seq(AllTasks), NEW an \in SUBSET AnyName,
         Path(ts, Len(lower.completed), Len(lower.keys),
              Len(lower.completed) - Takes(Task) + Gives(Task),
              Len(lower.keys) - TakesKeys(Task) + GivesKeys(Task))
  PROVE  Fits([Done(ts) EXCEPT !.anchors = an])
<1> DEFINE tasks == Front(lower.tasks) \o Reverse(ts)
<1>1. tasks \in Seq(AllTasks) /\ Bound(tasks, Len(lower.completed), Len(lower.keys))
  BY AtHand, TasksPushed
<1>2. Done(ts) = [tasks |-> tasks, completed |-> lower.completed,
                  nodes |-> lower.nodes, anchors |-> lower.anchors, keys |-> lower.keys]
  BY DoneIs
<1> HIDE DEF tasks
<1> DEFINE l == [Done(ts) EXCEPT !.anchors = an]
<1>3. l = [tasks |-> tasks, completed |-> lower.completed,
           nodes |-> lower.nodes, anchors |-> an, keys |-> lower.keys]
  BY <1>2
<1> HIDE DEF l
<1>4. lower \in Lowerings /\ Forest(lower.nodes, lower.completed)
  BY DEF Fits
<1>5. l \in Lowerings
  BY <1>1, <1>3, <1>4 DEF Lowerings
<1>6. Forest(l.nodes, l.completed) /\ Bound(l.tasks, Len(l.completed), Len(l.keys))
  BY <1>1, <1>3, <1>4
<1>7. QED
  BY <1>5, <1>6 DEF Fits, l

\* The parts of the invariant.
LEMMA PartsFit ==
  ASSUME NEW ts \in Seq(AllTasks), NEW cs \in Seq(Nat), NEW ns \in Seq(AllNodes),
         NEW an \in SUBSET AnyName, NEW ks \in Seq(KeyNames), Forest(ns, cs),
         Bound(ts, Len(cs), Len(ks))
  PROVE  Fits([tasks |-> ts, completed |-> cs, nodes |-> ns, anchors |-> an, keys |-> ks])
BY DEF Fits, Lowerings

\* A node that names the last of what was completed takes its place.
LEMMA CompletedFits ==
  ASSUME Fits(lower), lower.tasks # <<>>, NEW node \in AllNodes, NEW m \in Nat,
         m = Takes(Task), Gives(Task) = 1,
         ToSet(Children(node)) = ToSet(Tails(lower.completed, m)),
         NEW an \in SUBSET AnyName, NEW ks \in Seq(KeyNames),
         Len(ks) = Len(lower.keys) - TakesKeys(Task) + GivesKeys(Task),
         NEW l, l = [tasks |-> Front(lower.tasks),
                     completed |-> Append(Without(lower.completed, m), Len(lower.nodes) + 1),
                     nodes |-> Append(lower.nodes, node), anchors |-> an, keys |-> ks]
  PROVE  Fits(l)
<1> DEFINE cs == Append(Without(lower.completed, m), Len(lower.nodes) + 1)
           ns == Append(lower.nodes, node)
           ts == Front(lower.tasks)
<1>1. /\ m \in 0 .. Len(lower.completed) /\ Len(lower.completed) \in Nat
      /\ ts \in Seq(AllTasks)
      /\ Bound(ts, Len(lower.completed) - m + 1, Len(ks))
  BY AtHand
<1>2. lower \in Lowerings /\ Forest(lower.nodes, lower.completed)
  BY DEF Fits
<1>3. Forest(ns, cs)
  BY <1>1, <1>2, ForestGrows
<1>4. lower.completed \in Seq(Nat) /\ Len(lower.nodes) + 1 \in Nat
  BY <1>2 DEF Lowerings
<1>5. cs \in Seq(Nat) /\ Len(cs) = Len(lower.completed) - m + 1
  <2>1. SubSeq(lower.completed, 1, Len(lower.completed) - m) \in Seq(Nat)
        /\ Len(SubSeq(lower.completed, 1, Len(lower.completed) - m)) = Len(lower.completed) - m
    <3>1. Len(lower.completed) - m \in 0 .. Len(lower.completed)
      BY <1>1, SMTT(30)
    <3>2. QED
      BY <3>1, <1>4, CutInTwo
  <2> DEFINE w == Without(lower.completed, m)
  <2>2. w \in Seq(Nat) /\ Len(w) = Len(lower.completed) - m
    BY <2>1 DEF Without
  <2> HIDE DEF w
  <2>3. Append(w, Len(lower.nodes) + 1) \in Seq(Nat) /\ Len(Append(w, Len(lower.nodes) + 1)) = Len(w) + 1
    BY <2>2, <1>4, AppendProperties
  <2>4. QED
    BY <2>2, <2>3 DEF w
<1>6. ns \in Seq(AllNodes)
  BY <1>2 DEF Lowerings
<1> HIDE DEF cs, ns, ts
<1>7. Fits([tasks |-> ts, completed |-> cs, nodes |-> ns, anchors |-> an, keys |-> ks])
  <2>1. Bound(ts, Len(cs), Len(ks))
    BY <1>1, <1>5
  <2>2. QED
    BY <1>1, <1>3, <1>5, <1>6, <2>1, PartsFit
<1>8. QED
  BY <1>7 DEF ts, cs, ns

\* What is last is nothing when nothing is taken.
LEMMA NothingTaken ==
  ASSUME Fits(lower)
  PROVE  /\ Without(lower.completed, 0) = lower.completed
         /\ ToSet(Tails(lower.completed, 0)) = {}
<1> DEFINE s == lower.completed
<1>1. s \in Seq(Nat) /\ Len(s) \in Nat
  BY DEF Fits, Lowerings
<1> HIDE DEF s
<1>2. Without(s, 0) = s
  <2>1. SubSeq(s, 1, Len(s)) = s
    BY <1>1
  <2>2. Len(s) - 0 = Len(s)
    BY <1>1
  <2>3. QED
    BY <2>1, <2>2 DEF Without
<1>3. Tails(s, 0) = <<>>
  <2>1. Len(s) - 0 + 1 = Len(s) + 1
    BY <1>1
  <2>2. SubSeq(s, Len(s) + 1, Len(s)) = <<>>
    BY <1>1
  <2>3. QED
    BY <2>1, <2>2 DEF Tails
<1>4. ToSet(<<>>) = {}
  BY DEF ToSet
<1>5. QED
  BY <1>2, <1>3, <1>4 DEF s

\* Two tasks on the stack.
LEMMA TwoIs ==
  ASSUME NEW a, NEW b
  PROVE  <<a, b>> = <<a>> \o <<b>>
<1> DEFINE S == {a, b}
<1>1. <<a>> \in Seq(S) /\ <<b>> \in Seq(S) /\ <<a, b>> \in Seq(S)
  OBVIOUS
<1>2. Len(<<a>>) = 1 /\ Len(<<b>>) = 1 /\ Len(<<a, b>>) = 2
      /\ <<a>>[1] = a /\ <<b>>[1] = b /\ <<a, b>>[1] = a /\ <<a, b>>[2] = b
  OBVIOUS
<1> DEFINE s == <<a>>
           t == <<b>>
           u == <<a, b>>
<1> HIDE DEF S, s, t, u
<1>3. s \o t \in Seq(S) /\ Len(s \o t) = 2
      /\ \A i \in 1 .. 2 : (s \o t)[i] = IF i <= 1 THEN s[i] ELSE t[i - 1]
  BY <1>1, <1>2, ConcatProperties DEF s, t
<1>4. \A i \in 1 .. 2 : u[i] = (s \o t)[i]
  BY <1>2, <1>3 DEF s, t, u
<1>5. u = s \o t
  BY <1>1, <1>2, <1>3, <1>4, SeqEqual DEF u
<1>6. QED
  BY <1>5 DEF s, t, u

\* The task at hand is a visit.
LEMMA VisitTask ==
  ASSUME Fits(lower), Lowering("Visit")
  PROVE  /\ Task \in Visits /\ lower.tasks # <<>> /\ Takes(Task) = 0 /\ Gives(Task) = 1
         /\ TakesKeys(Task) = 0 /\ GivesKeys(Task) = 0
         /\ lower.anchors \in SUBSET AnyName /\ lower.keys \in Seq(KeyNames)
         /\ Len(lower.completed) \in Nat /\ Len(lower.keys) \in Nat
<1>1. lower.tasks # <<>> /\ Task.task = "Visit"
  BY DEF Lowering
<1>2. Task \in AllTasks
  BY <1>1, AtHand
<1>3. Task \in Visits
  BY <1>1, <1>2 DEF AllTasks, Visits, KeyTasks, Restores, FinishSequences, FinishMappings
<1>4. Takes(Task) = 0 /\ Gives(Task) = 1 /\ TakesKeys(Task) = 0 /\ GivesKeys(Task) = 0
  BY <1>1 DEF Takes, Gives, TakesKeys, GivesKeys
<1>5. lower \in Lowerings
  BY DEF Fits
<1>6. /\ lower.anchors \in SUBSET AnyName /\ lower.keys \in Seq(KeyNames)
      /\ lower.completed \in Seq(Nat)
  BY <1>5 DEF Lowerings
<1>7. Len(lower.completed) \in Nat /\ Len(lower.keys) \in Nat
  BY <1>6
<1>8. QED
  BY <1>1, <1>3, <1>4, <1>6, <1>7

\* The state once a node is complete.
LEMMA CompletedIs ==
  ASSUME Fits(lower), lower.tasks # <<>>, NEW node
  PROVE  Completed(node) =
           [tasks |-> Front(lower.tasks), completed |-> Append(lower.completed, Len(lower.nodes) + 1),
            nodes |-> Append(lower.nodes, node), anchors |-> lower.anchors, keys |-> lower.keys]
<1> DEFINE d == Done(<<>>)
<1>1. d = [tasks |-> Front(lower.tasks), completed |-> lower.completed,
           nodes |-> lower.nodes, anchors |-> lower.anchors, keys |-> lower.keys]
  BY NothingPushed
<1>2. Completed(node) = [d EXCEPT !.nodes = Append(@, node),
                                 !.completed = Append(@, Len(lower.nodes) + 1)]
  BY DEF Completed
<1> HIDE DEF d
<1>3. QED
  BY <1>1, <1>2

\* A node without children is complete at once.
LEMMA LeafFits ==
  ASSUME Fits(lower), Lowering("Visit"), NEW node \in AllNodes, Children(node) = <<>>,
         NEW an \in SUBSET AnyName
  PROVE  Fits([Completed(node) EXCEPT !.anchors = an]) /\ Completed(node).anchors = lower.anchors
<1> DEFINE l == [Completed(node) EXCEPT !.anchors = an]
<1>1. lower.tasks # <<>>
  BY VisitTask
<1>2. Without(lower.completed, 0) = lower.completed /\ ToSet(Tails(lower.completed, 0)) = {}
  BY NothingTaken
<1>3. l = [tasks |-> Front(lower.tasks),
           completed |-> Append(lower.completed, Len(lower.nodes) + 1),
           nodes |-> Append(lower.nodes, node), anchors |-> an, keys |-> lower.keys]
  <2>1. Completed(node) =
          [tasks |-> Front(lower.tasks), completed |-> Append(lower.completed, Len(lower.nodes) + 1),
           nodes |-> Append(lower.nodes, node), anchors |-> lower.anchors, keys |-> lower.keys]
    BY <1>1, CompletedIs
  <2> DEFINE cs == Append(lower.completed, Len(lower.nodes) + 1)
             ns == Append(lower.nodes, node)
             ts == Front(lower.tasks)
             as == lower.anchors
             ks == lower.keys
  <2> HIDE DEF cs, ns, ts, as, ks
  <2>2. Completed(node) = [tasks |-> ts, completed |-> cs, nodes |-> ns, anchors |-> as, keys |-> ks]
    BY <2>1 DEF cs, ns, ts, as, ks
  <2>3. l = [tasks |-> ts, completed |-> cs, nodes |-> ns, anchors |-> an, keys |-> ks]
    BY <2>2
  <2>4. QED
    BY <2>3 DEF cs, ns, ts, ks
<1> HIDE DEF l
<1>4. l = [tasks |-> Front(lower.tasks),
           completed |-> Append(Without(lower.completed, 0), Len(lower.nodes) + 1),
           nodes |-> Append(lower.nodes, node), anchors |-> an, keys |-> lower.keys]
  BY <1>2, <1>3
<1>5. ToSet(Children(node)) = ToSet(Tails(lower.completed, 0))
  BY <1>2 DEF ToSet
<1>6. 0 \in Nat /\ 0 = Takes(Task) /\ Gives(Task) = 1 /\ lower.keys \in Seq(KeyNames)
      /\ Len(lower.keys) = Len(lower.keys) - TakesKeys(Task) + GivesKeys(Task)
  BY VisitTask
<1>7. Fits(l)
  BY <1>1, <1>4, <1>5, <1>6, CompletedFits
<1>8. Completed(node).anchors = lower.anchors
  BY <1>1, CompletedIs
<1>9. QED
  BY <1>7, <1>8 DEF l

\* The anchors are names.
LEMMA AnchoredType ==
  ASSUME NEW an \in SUBSET AnyName, NEW node, node.anchor \in AnyName
  PROVE  Anchored(an, node) \in SUBSET AnyName
BY DEF Anchored

\* A scalar.
LEMMA VisitScalarKeeps ==
  ASSUME LInv, VisitScalar
  PROVE  Fits(lower')
<1>1. Lowering("Visit") /\ Fits(lower)
  BY DEF LInv, VisitScalar
<1>2. PICK node \in Scalars(Task) : lower' = [Completed(node) EXCEPT !.anchors = Anchored(@, node)]
  BY DEF VisitScalar
<1>3. node \in AllNodes /\ Children(node) = <<>> /\ node.anchor \in AnyName
  BY <1>1, VisitTask, LeavesType DEF LInv
<1>4. Anchored(lower.anchors, node) \in SUBSET AnyName
  BY <1>1, <1>3, VisitTask, AnchoredType
<1>5. Completed(node).anchors = lower.anchors
      /\ Fits([Completed(node) EXCEPT !.anchors = Anchored(lower.anchors, node)])
  BY <1>1, <1>3, <1>4, LeafFits
<1>6. QED
  BY <1>2, <1>5

\* An alias, or what takes its place.
LEMMA VisitAliasKeeps ==
  ASSUME LInv, VisitAlias
  PROVE  Fits(lower')
<1>1. Lowering("Visit") /\ Fits(lower)
  BY DEF LInv, VisitAlias
<1>2. PICK node \in Aliases(Task) :
         \/ lower' = Completed(node)
         \/ lower' = [Done(<<Visit(node.name, FALSE), RestoreTask(node)>>)
                         EXCEPT !.anchors = @ \cup {node.name}]
  BY DEF VisitAlias
<1>3. node \in AllNodes /\ Children(node) = <<>> /\ node.name \in AnyName
  BY <1>1, VisitTask, LeavesType DEF LInv
<1>4. CASE lower' = Completed(node)
  <2>1. Completed(node).anchors = lower.anchors
        /\ Fits([Completed(node) EXCEPT !.anchors = lower.anchors])
    BY <1>1, <1>3, VisitTask, LeafFits
  <2>2. [Completed(node) EXCEPT !.anchors = lower.anchors] = Completed(node)
    BY <1>1, VisitTask, CompletedIs
  <2>3. QED
    BY <1>4, <2>1, <2>2
<1>5. CASE lower' = [Done(<<Visit(node.name, FALSE), RestoreTask(node)>>)
                       EXCEPT !.anchors = @ \cup {node.name}]
  <2> DEFINE v == Visit(node.name, FALSE)
             r == RestoreTask(node)
             an == lower.anchors \cup {node.name}
             ts == <<v>> \o <<r>>
             c == Len(lower.completed)
             k == Len(lower.keys)
  <2>1. v \in AllTasks /\ v.task = "Visit" /\ r \in AllTasks /\ r.task = "RestoreAnchor"
    <3>1. v \in AllTasks /\ v.task = "Visit"
      BY <1>3, VisitType
    <3>2. r \in AllTasks /\ r.task = "RestoreAnchor"
      BY <1>3 DEF RestoreTask, AllTasks, Restores
    <3>3. QED
      BY <3>1, <3>2
  <2>2. <<v, r>> = ts
    BY TwoIs
  <2>3. an \in SUBSET AnyName /\ c \in Nat /\ k \in Nat
    BY <1>1, <1>3, VisitTask
  <2>4. lower' = [Done(ts) EXCEPT !.anchors = @ \cup {node.name}]
    BY <1>5, <2>2
  <2> HIDE DEF v, r
  <2>5. <<v>> \in Seq(AllTasks) /\ <<r>> \in Seq(AllTasks)
    BY <2>1
  <2>6. ts \in Seq(AllTasks)
    BY <2>5, ConcatProperties
  <2> HIDE DEF ts, an, c, k
  <2>7. Done(ts).anchors = lower.anchors
    BY <1>1, <2>6, VisitTask, DoneIs
  <2>8. lower' = [Done(ts) EXCEPT !.anchors = an]
    BY <2>4, <2>7 DEF an
  <2>9. Takes(v) = 0 /\ Gives(v) = 1 /\ TakesKeys(v) = 0 /\ GivesKeys(v) = 0
        /\ Takes(r) = 1 /\ Gives(r) = 1 /\ TakesKeys(r) = 0 /\ GivesKeys(r) = 0
    BY <2>1 DEF Takes, Gives, TakesKeys, GivesKeys
  <2>10. Path(<<v>>, c, k, c + 1, k)
    <3>1. Takes(v) <= c /\ TakesKeys(v) <= k /\ c - Takes(v) + Gives(v) = c + 1
          /\ k - TakesKeys(v) + GivesKeys(v) = k
      BY <2>3, <2>9
    <3>2. Path(<<v>>, c, k, c - Takes(v) + Gives(v), k - TakesKeys(v) + GivesKeys(v))
      BY <3>1, <2>1, <2>3, PathOne
    <3>3. QED
      BY <3>1, <3>2
  <2>11. Path(<<r>>, c + 1, k, c + 1, k)
    <3>1. Takes(r) <= c + 1 /\ TakesKeys(r) <= k /\ (c + 1) - Takes(r) + Gives(r) = c + 1
          /\ k - TakesKeys(r) + GivesKeys(r) = k /\ c + 1 \in Nat
      BY <2>3, <2>9
    <3>2. Path(<<r>>, c + 1, k, (c + 1) - Takes(r) + Gives(r), k - TakesKeys(r) + GivesKeys(r))
      BY <3>1, <2>1, <2>3, PathOne
    <3>3. QED
      BY <3>1, <3>2
  <2>12. Path(ts, c, k, c + 1, k)
    BY <2>5, <2>10, <2>11, PathJoined DEF ts
  <2>13. Path(ts, c, k, c - Takes(Task) + Gives(Task), k - TakesKeys(Task) + GivesKeys(Task))
    <3>1. c - Takes(Task) + Gives(Task) = c + 1 /\ k - TakesKeys(Task) + GivesKeys(Task) = k
      BY <1>1, <2>3, VisitTask
    <3>2. QED
      BY <2>12, <3>1
  <2>14. Path(ts, Len(lower.completed), Len(lower.keys), 
              Len(lower.completed) - Takes(Task) + Gives(Task),
              Len(lower.keys) - TakesKeys(Task) + GivesKeys(Task))
    BY <2>13 DEF c, k
  <2>15. Fits([Done(ts) EXCEPT !.anchors = an])
    BY <1>1, <2>3, <2>6, <2>14, VisitTask, PushedFits
  <2>16. QED
    BY <2>8, <2>15
<1>6. QED
  BY <1>2, <1>4, <1>5

\* The first task is the one that finishes the root, or the root's own visit.
RootFirst(tasks) ==
  /\ tasks # <<>>
  /\ \/ tasks[1].task \in {"FinishSequence", "FinishMapping"}
     \/ tasks[1].task = "Visit" /\ Len(tasks) = 1

\* More tasks leave the first one where it is.
LEMMA LongFirst ==
  ASSUME NEW old \in Seq(AllTasks), NEW new \in Seq(AllTasks), RootFirst(old), Len(old) > 1
  PROVE  RootFirst(Front(old)) /\ RootFirst(Front(old) \o new)
<1> DEFINE f == Front(old)
<1>1. /\ f \in Seq(AllTasks) /\ Len(f) = Len(old) - 1 /\ Len(old) \in Nat
      /\ \A i \in 1 .. Len(old) - 1 : f[i] = old[i]
  BY FrontIs DEF RootFirst
<1> HIDE DEF f
<1>2. f[1] = old[1] /\ f # <<>> /\ 1 \in 1 .. Len(f)
  BY <1>1
<1>3. old[1].task \in {"FinishSequence", "FinishMapping"}
  <2>1. Len(old) # 1
    BY <1>1
  <2>2. QED
    BY <2>1, Zenon DEF RootFirst
<1>4. Len(f \o new) = Len(f) + Len(new) /\ (f \o new)[1] = f[1] /\ Len(new) \in Nat /\ Len(f) \in Nat
  <2>1. /\ Len(f \o new) = Len(f) + Len(new)
        /\ \A i \in 1 .. Len(f) + Len(new) : (f \o new)[i] = IF i <= Len(f) THEN f[i] ELSE new[i - Len(f)]
    <3>1. f \in Seq(AllTasks) /\ new \in Seq(AllTasks)
      BY <1>1
    <3>2. QED
      BY <3>1, ConcatProperties
  <2>0. Len(new) \in Nat /\ Len(f) \in Nat
    BY <1>1
  <2>2. 1 \in 1 .. Len(f) + Len(new) /\ 1 <= Len(f)
    BY <1>2, <2>0
  <2>3. QED
    BY <2>0, <2>1, <2>2
<1>5. f \o new # <<>>
  BY <1>2, <1>4
<1>6. QED
  BY <1>2, <1>3, <1>4, <1>5 DEF RootFirst, f

\* The root's visit makes way for the task that finishes it.
LEMMA FinishFirst ==
  ASSUME NEW old \in Seq(AllTasks), NEW ts \in Seq(AllTasks), NEW f \in AllTasks,
         RootFirst(old), f.task \in {"FinishSequence", "FinishMapping"}
  PROVE  RootFirst(Front(old) \o Reverse(ts \o <<f>>))
<1> DEFINE us == ts \o <<f>>
           r == Reverse(us)
<1>1. <<f>> \in Seq(AllTasks) /\ Len(<<f>>) = 1 /\ <<f>>[1] = f
  OBVIOUS
<1>2. us \in Seq(AllTasks) /\ Len(us) = Len(ts) + 1 /\ us[Len(us)] = f /\ Len(ts) \in Nat
  <2>1. /\ us \in Seq(AllTasks) /\ Len(us) = Len(ts) + Len(<<f>>) /\ Len(ts) \in Nat
        /\ \A i \in 1 .. Len(ts) + Len(<<f>>) : us[i] = IF i <= Len(ts) THEN ts[i] ELSE <<f>>[i - Len(ts)]
    BY <1>1, ConcatProperties
  <2> HIDE DEF us
  <2>2. Len(ts) + 1 \in 1 .. Len(ts) + Len(<<f>>) /\ ~(Len(ts) + 1 <= Len(ts)) /\ (Len(ts) + 1) - Len(ts) = 1
    BY <1>1, <2>1
  <2>3. us[Len(ts) + 1] = f
    BY <1>1, <2>1, <2>2
  <2>4. QED
    BY <1>1, <2>1, <2>3
<1> HIDE DEF us
<1>3. r \in Seq(AllTasks) /\ Len(r) = Len(us) /\ r[1] = f
  <2>1. /\ r \in Seq(AllTasks) /\ Len(r) = Len(us)
        /\ \A i \in 1 .. Len(us) : r[i] = us[(Len(us) - i) + 1]
    BY <1>2, ReverseIs
  <2>2. 1 \in 1 .. Len(us) /\ (Len(us) - 1) + 1 = Len(us)
    BY <1>2
  <2>3. QED
    BY <2>1, <2>2, <1>2
<1> HIDE DEF r
<1>4. CASE Len(old) > 1
  BY <1>3, <1>4, LongFirst DEF r, us
<1>5. CASE ~(Len(old) > 1)
  <2>1. Front(old) \in Seq(AllTasks) /\ Len(Front(old)) = 0
    <3>1. /\ Front(old) \in Seq(AllTasks) /\ Len(Front(old)) = Len(old) - 1
          /\ Len(old) \in Nat \ {0}
      BY FrontIs DEF RootFirst
    <3>2. QED
      BY <1>5, <3>1
  <2>2. Front(old) \o r = r
    <3>1. Front(old) = <<>>
      BY <2>1
    <3>2. QED
      BY <1>3, <3>1, ConcatEmptySeq
  <2>3. r # <<>>
    BY <1>2, <1>3
  <2>4. RootFirst(r)
    BY <1>3, <2>3 DEF RootFirst
  <2>5. QED
    BY <2>2, <2>4 DEF r, us
<1>6. QED
  BY <1>4, <1>5

\* What a collection leads to, and then the task that finishes it.
LEMMA CollectionFits ==
  ASSUME Fits(lower), Lowering("Visit"), NEW ts \in Seq(AllTasks), NEW n \in Nat, NEW m \in Nat,
         Path(ts, Len(lower.completed), Len(lower.keys),
              Len(lower.completed) + n, Len(lower.keys) + m),
         NEW f \in AllTasks, Takes(f) = n, Gives(f) = 1, TakesKeys(f) = m, GivesKeys(f) = 0,
         f.task \in {"FinishSequence", "FinishMapping"}, NEW node, node.anchor \in AnyName
  PROVE  LET l == [Done(ts \o <<f>>) EXCEPT !.anchors = Anchored(@, node)]
         IN  Fits(l) /\ (RootFirst(lower.tasks) => RootFirst(l.tasks))
<1> DEFINE c == Len(lower.completed)
           k == Len(lower.keys)
           us == ts \o <<f>>
           an == Anchored(lower.anchors, node)
<1>1. c \in Nat /\ k \in Nat /\ an \in SUBSET AnyName
  BY VisitTask, AnchoredType
<1>2. <<f>> \in Seq(AllTasks)
  OBVIOUS
<1>3. us \in Seq(AllTasks)
  BY <1>2, ConcatProperties
<1> HIDE DEF us, an
<1>4. Path(<<f>>, c + n, k + m, c + 1, k)
  <2>1. /\ Takes(f) <= c + n /\ TakesKeys(f) <= k + m
        /\ (c + n) - Takes(f) + Gives(f) = c + 1 /\ (k + m) - TakesKeys(f) + GivesKeys(f) = k
        /\ c + n \in Nat /\ k + m \in Nat
    BY <1>1
  <2> HIDE DEF c, k
  <2>2. Path(<<f>>, c + n, k + m, (c + n) - Takes(f) + Gives(f), (k + m) - TakesKeys(f) + GivesKeys(f))
    BY <2>1, PathOne
  <2>3. QED
    BY <2>1, <2>2
<1>5. Path(us, c, k, c + 1, k)
  BY <1>2, <1>4, PathJoined DEF us
<1>6. c - Takes(Task) + Gives(Task) = c + 1 /\ k - TakesKeys(Task) + GivesKeys(Task) = k
  BY <1>1, VisitTask
<1>7. Path(us, c, k, c - Takes(Task) + Gives(Task), k - TakesKeys(Task) + GivesKeys(Task))
  BY <1>5, <1>6
<1>8. Fits([Done(us) EXCEPT !.anchors = an])
  BY <1>1, <1>3, <1>7, VisitTask, PushedFits
<1>9. Done(us).anchors = lower.anchors
  BY <1>3, VisitTask, DoneIs
<1>10. Fits([Done(us) EXCEPT !.anchors = Anchored(@, node)])
  BY <1>8, <1>9 DEF an
<1>11. Done(us).tasks = Front(lower.tasks) \o Reverse(us)
  BY <1>3, VisitTask, DoneIs, SMTT(30)
<1>12. RootFirst(lower.tasks) => RootFirst(Front(lower.tasks) \o Reverse(us))
  BY FinishFirst DEF Fits, Lowerings, us
<1>13. [Done(us) EXCEPT !.anchors = Anchored(@, node)].tasks = Done(us).tasks
  <2>1. PICK d : d = Done(us)
    OBVIOUS
  <2>2. d = [tasks |-> Front(lower.tasks) \o Reverse(us), completed |-> lower.completed,
             nodes |-> lower.nodes, anchors |-> lower.anchors, keys |-> lower.keys]
    BY <1>3, <2>1, VisitTask, DoneIs
  <2>3. [d EXCEPT !.anchors = Anchored(@, node)].tasks = d.tasks
    BY <2>2
  <2>4. QED
    BY <2>1, <2>3
<1>14. QED
  BY <1>10, <1>11, <1>12, <1>13 DEF us

\* A sequence.
LEMMA VisitSequenceKeeps ==
  ASSUME LInv, VisitSequence
  PROVE  Fits(lower') /\ (RootFirst(lower.tasks) => RootFirst(lower'.tasks))
<1>1. Lowering("Visit") /\ Fits(lower) /\ setting \in Settings /\ count \in Nat
  BY DEF LInv, VisitSequence
<1>2. PICK node \in Collections("sequence", Task), len \in 0 .. setting.width :
       lower' = [Done([i \in 1 .. len |-> Visit(None, FALSE)]
                           \o <<FinishSequenceTask(node, len)>>)
                      EXCEPT !.anchors = Anchored(@, node)]
  BY DEF VisitSequence
<1> DEFINE v == Visit(None, FALSE)
           f == FinishSequenceTask(node, len)
           ts == [i \in 1 .. len |-> v]
           c == Len(lower.completed)
           k == Len(lower.keys)
<1>3. len \in Nat
  BY <1>1, NamesType
<1>4. node \in NodesOf({"sequence"}, {<<>>}) /\ node.anchor \in AnyName
  BY <1>1, VisitTask, CollectionsType
<1>5. v \in AllTasks /\ v.task = "Visit"
  BY VisitType DEF AnyName
<1>6. f \in AllTasks /\ f.task = "FinishSequence" /\ f.len = len
  BY <1>3, <1>4 DEF FinishSequenceTask, AllTasks, FinishSequences
<1> HIDE DEF v, f
<1>7. c \in Nat /\ k \in Nat
  BY <1>1, VisitTask
<1>8. Takes(f) = len /\ Gives(f) = 1 /\ TakesKeys(f) = 0 /\ GivesKeys(f) = 0
  BY <1>6 DEF Takes, Gives, TakesKeys, GivesKeys
<1>9. ts \in Seq(AllTasks) /\ Path(ts, c, k, c + len, k)
  BY <1>3, <1>5, <1>7, VisitsPath
<1> HIDE DEF ts
<1>10. Path(ts, c, k, c + len, k + 0)
  BY <1>7, <1>9
<1> DEFINE l == [Done(ts \o <<f>>) EXCEPT !.anchors = Anchored(@, node)]
<1>11. Fits(l) /\ (RootFirst(lower.tasks) => RootFirst(l.tasks))
  BY <1>1, <1>3, <1>4, <1>6, <1>8, <1>9, <1>10, CollectionFits
<1>12. QED
  BY <1>2, <1>11 DEF ts, f, v

\* The keys a mapping may have.
LEMMA GoodKeysType ==
  ASSUME setting \in Settings
  PROVE  GoodKeys \subseteq Templates
<1>1. Names \subseteq AnyName
  BY NamesType
<1>2. Keys \subseteq Templates
  BY <1>1 DEF Keys, Templates, KeyForms
<1>3. QED
  BY <1>2 DEF GoodKeys

\* A mapping.
LEMMA VisitMappingKeeps ==
  ASSUME LInv, VisitMapping
  PROVE  Fits(lower') /\ (RootFirst(lower.tasks) => RootFirst(lower'.tasks))
<1>1. Lowering("Visit") /\ Fits(lower) /\ setting \in Settings /\ count \in Nat
  BY DEF LInv, VisitMapping
<1>2. PICK node \in Collections("mapping", Task), len \in 0 .. setting.width :
       \E keys \in [1 .. len -> GoodKeys] :
         lower' = [Done(FlattenSeq([i \in 1 .. len |-> EntryTasks(keys[i])])
                             \o <<FinishMappingTask(node, keys)>>)
                        EXCEPT !.anchors = Anchored(@, node)]
  BY DEF VisitMapping
<1>3. PICK keys \in [1 .. len -> GoodKeys] :
         lower' = [Done(FlattenSeq([i \in 1 .. len |-> EntryTasks(keys[i])])
                             \o <<FinishMappingTask(node, keys)>>)
                        EXCEPT !.anchors = Anchored(@, node)]
  BY <1>2
<1> DEFINE f == FinishMappingTask(node, keys)
           ts == FlattenSeq([i \in 1 .. len |-> EntryTasks(keys[i])])
           c == Len(lower.completed)
           k == Len(lower.keys)
<1>4. len \in Nat
  BY <1>1, NamesType
<1>5. node \in NodesOf({"mapping"}, {<<>>}) /\ node.anchor \in AnyName
  BY <1>1, VisitTask, CollectionsType
<1>6. keys \in Seq(Templates) /\ Len(keys) = len
  <2>1. keys \in [1 .. len -> Templates]
    BY <1>1, GoodKeysType
  <2>2. QED
    BY <1>4, <2>1, FunctionIsSeq
<1>7. f \in AllTasks /\ f.task = "FinishMapping" /\ f.templates = keys
  BY <1>5, <1>6 DEF FinishMappingTask, AllTasks, FinishMappings
<1>8. ts = FlattenSeq(TasksOf(keys))
  BY <1>6 DEF TasksOf
<1> HIDE DEF f, ts
<1>9. c \in Nat /\ k \in Nat
  BY <1>1, VisitTask
<1>10. KeyNodes(keys) \in Nat
  BY <1>6, KeyNodesType
<1>11. Takes(f) = Len(keys) + KeyNodes(keys) /\ Gives(f) = 1 /\ TakesKeys(f) = Len(keys) /\ GivesKeys(f) = 0
  BY <1>7 DEF Takes, Gives, TakesKeys, GivesKeys
<1>12. ts \in Seq(AllTasks) /\ Path(ts, c, k, c + (Len(keys) + KeyNodes(keys)), k + Len(keys))
  BY <1>6, <1>8, <1>9, EntriesPath
<1>13. Len(keys) + KeyNodes(keys) \in Nat /\ Len(keys) \in Nat
  BY <1>4, <1>6, <1>10
<1> DEFINE l == [Done(ts \o <<f>>) EXCEPT !.anchors = Anchored(@, node)]
<1>14. Fits(l) /\ (RootFirst(lower.tasks) => RootFirst(l.tasks))
  BY <1>1, <1>5, <1>7, <1>11, <1>12, <1>13, CollectionFits
<1>15. QED
  BY <1>3, <1>14 DEF ts, f

\* The key of an entry.
LEMMA VisitKeyKeeps ==
  ASSUME LInv, VisitKey
  PROVE  Fits(lower')
<1> DEFINE key == KeyProperties(lower.anchors, Task)
           x == [from |-> count + 1, anchor |-> key.anchor, alias |-> key.alias]
           an == Anchored(lower.anchors, key)
           ks == Append(lower.keys, x)
           ts == Front(lower.tasks)
<1>1. lower.tasks # <<>> /\ Task.task = "Key" /\ Fits(lower) /\ count \in Nat
  BY DEF LInv, VisitKey, Lowering
<1>2. lower' = [Done(<<>>) EXCEPT !.anchors = Anchored(@, key), !.keys = Append(@, x)]
  BY DEF VisitKey
<1>3. Task \in KeyTasks
  BY <1>1, AtHand DEF AllTasks, Visits, KeyTasks, Restores, FinishSequences, FinishMappings
<1>4. key.anchor \in AnyName /\ key.alias \in AnyName
  <2>1. Task.anchor \in AnyName /\ Task.alias \in AnyName /\ None \in AnyName
    BY <1>3 DEF KeyTasks, AnyName
  <2>2. QED
    BY <2>1 DEF KeyProperties
<1>5. x \in KeyNames
  BY <1>1, <1>4 DEF KeyNames
<1> HIDE DEF key
<1>6. lower \in Lowerings /\ Forest(lower.nodes, lower.completed)
  BY <1>1 DEF Fits
<1>7. lower.anchors \in SUBSET AnyName /\ lower.keys \in Seq(KeyNames)
      /\ lower.completed \in Seq(Nat) /\ lower.nodes \in Seq(AllNodes)
  BY <1>6 DEF Lowerings
<1>8. an \in SUBSET AnyName
  BY <1>4, <1>7, AnchoredType
<1> HIDE DEF x, an
<1>9. ks \in Seq(KeyNames) /\ Len(ks) = Len(lower.keys) + 1
  BY <1>5, <1>7, AppendProperties
<1>10. /\ Takes(Task) = 0 /\ Gives(Task) = 0 /\ TakesKeys(Task) = 0 /\ GivesKeys(Task) = 1
  BY <1>1 DEF Takes, Gives, TakesKeys, GivesKeys
<1>11. /\ Len(lower.completed) \in Nat /\ Len(lower.keys) \in Nat /\ ts \in Seq(AllTasks)
       /\ Bound(ts, Len(lower.completed) - Takes(Task) + Gives(Task),
                Len(lower.keys) - TakesKeys(Task) + GivesKeys(Task))
  BY <1>1, AtHand
<1>12. Bound(ts, Len(lower.completed), Len(ks))
  <2>1. /\ Len(lower.completed) - Takes(Task) + Gives(Task) = Len(lower.completed)
        /\ Len(lower.keys) - TakesKeys(Task) + GivesKeys(Task) = Len(ks)
    BY <1>9, <1>10, <1>11
  <2>2. QED
    BY <1>11, <2>1
<1> DEFINE d == Done(<<>>)
           cs == lower.completed
           ns == lower.nodes
           as == lower.anchors
           js == lower.keys
<1>13. d = [tasks |-> ts, completed |-> cs, nodes |-> ns, anchors |-> as, keys |-> js]
  BY <1>1, NothingPushed
<1>14. lower' = [d EXCEPT !.anchors = Anchored(@, key), !.keys = Append(@, x)]
  BY <1>2
<1>15. an = Anchored(as, key) /\ ks = Append(js, x)
  BY DEF an
<1> HIDE DEF ks, ts, d, cs, ns, as, js
<1>18. lower' = [tasks |-> ts, completed |-> cs, nodes |-> ns, anchors |-> an, keys |-> ks]
  BY <1>13, <1>14, <1>15
<1>16. Fits([tasks |-> ts, completed |-> lower.completed,
                 nodes |-> lower.nodes, anchors |-> an, keys |-> ks])
  BY <1>6, <1>7, <1>8, <1>9, <1>11, <1>12, PartsFit
<1>17. QED
  BY <1>16, <1>18 DEF cs, ns

\* What was completed last.
LEMMA TailsAre ==
  ASSUME NEW S, NEW s \in Seq(S), NEW m \in 0 .. Len(s)
  PROVE  /\ Without(s, m) \in Seq(S) /\ Len(Without(s, m)) = Len(s) - m
         /\ Tails(s, m) \in Seq(S) /\ Len(Tails(s, m)) = m
<1> DEFINE n == Len(s) - m
           a == SubSeq(s, 1, n)
           b == SubSeq(s, n + 1, Len(s))
<1>1. n \in 0 .. Len(s) /\ Len(s) \in Nat
  OBVIOUS
<1>2. Without(s, m) = a /\ Tails(s, m) = b
  BY DEF Without, Tails
<1>3. n = Len(s) - m
  OBVIOUS
<1> HIDE DEF n
<1>4. a \in Seq(S) /\ b \in Seq(S) /\ Len(a) = n /\ s = a \o b
  BY <1>1, CutInTwo
<1> HIDE DEF a, b
<1>5. Len(s) = Len(a) + Len(b) /\ Len(b) \in Nat
  <2>1. Len(a \o b) = Len(a) + Len(b)
    BY <1>4, ConcatProperties
  <2>2. Len(b) \in Nat
    BY <1>4
  <2>3. QED
    BY <1>4, <2>1, <2>2
<1>6. QED
  BY <1>1, <1>2, <1>3, <1>4, <1>5

\* A node with an anchor and comments restored is a node with the same children.
LEMMA RestoredIs ==
  ASSUME NEW node \in AllNodes, NEW alias \in AllNodes
  PROVE  Restored(node, alias) \in AllNodes /\ Children(Restored(node, alias)) = Children(node)
<1>1. alias.name \in AnyName /\ alias.before \in BOOLEAN /\ alias.inline \in BOOLEAN
  BY DEF AllNodes, NodesOf
<1> DEFINE r == Restored(node, alias)
<1>2. PICK a, b, c : a = alias.name /\ b = alias.before /\ c = alias.inline
  OBVIOUS
<1>3. r = [node EXCEPT !.anchor = a, !.before = b, !.inline = c]
  BY <1>2 DEF Restored
<1>4. a \in AnyName /\ b \in BOOLEAN /\ c \in BOOLEAN
  BY <1>1, <1>2
<1> HIDE DEF r
<1>5. ASSUME NEW K, NEW P, node \in NodesOf(K, P)
      PROVE  r \in NodesOf(K, P) /\ r.kind = node.kind /\ r.parts = node.parts
  BY <1>3, <1>4, <1>5 DEF NodesOf
<1>6. r \in AllNodes /\ r.kind = node.kind /\ r.parts = node.parts
  BY <1>5 DEF AllNodes
<1>7. Children(r) = Children(node)
  BY <1>6 DEF Children
<1>8. QED
  BY <1>6, <1>7 DEF r

\* What the alias stood for is the node completed last.
LEMMA RestoreAnchorKeeps ==
  ASSUME LInv, RestoreAnchor
  PROVE  Fits(lower')
<1> DEFINE d == Done(<<>>)
           ts == Front(lower.tasks)
           cs == lower.completed
           ns == lower.nodes
           as == lower.anchors
           ks == lower.keys
           j == Last(cs)
           alias == Task.alias
<1>1. lower.tasks # <<>> /\ Task.task = "RestoreAnchor" /\ Fits(lower)
  BY DEF LInv, RestoreAnchor, Lowering
<1>2. lower' = [d EXCEPT !.nodes[j] = Restored(@, alias)]
  BY DEF RestoreAnchor
<1>3. alias \in AllNodes
  BY <1>1, AtHand DEF AllTasks, Visits, KeyTasks, Restores, FinishSequences, FinishMappings
<1>4. lower \in Lowerings /\ Forest(ns, cs)
  BY <1>1 DEF Fits
<1>5. /\ ts \in Seq(AllTasks) /\ cs \in Seq(Nat) /\ ns \in Seq(AllNodes)
      /\ as \in SUBSET AnyName /\ ks \in Seq(KeyNames)
  BY <1>1, <1>4, AtHand DEF Lowerings
<1>6. d = [tasks |-> ts, completed |-> cs, nodes |-> ns, anchors |-> as, keys |-> ks]
  BY <1>1, NothingPushed
<1>7. Takes(Task) = 1 /\ Gives(Task) = 1 /\ TakesKeys(Task) = 0 /\ GivesKeys(Task) = 0
  BY <1>1 DEF Takes, Gives, TakesKeys, GivesKeys
<1>8. 1 <= Len(cs) /\ Bound(ts, Len(cs), Len(ks))
  <2>1. /\ Takes(Task) \in 0 .. Len(cs) /\ Len(cs) \in Nat /\ Len(ks) \in Nat
        /\ Bound(ts, Len(cs) - Takes(Task) + Gives(Task), Len(ks) - TakesKeys(Task) + GivesKeys(Task))
    BY <1>1, AtHand
  <2>2. Len(cs) - Takes(Task) + Gives(Task) = Len(cs) /\ Len(ks) - TakesKeys(Task) + GivesKeys(Task) = Len(ks)
    BY <1>7, <2>1
  <2>3. QED
    BY <1>7, <2>1, <2>2
<1> HIDE DEF d, ts, cs, ns, as, ks, alias
<1>9. j \in 1 .. Len(ns)
  <2>1. cs \in Seq(1 .. Len(ns)) /\ cs # <<>>
    BY <1>4, <1>8 DEF Forest
  <2>2. QED
    BY <2>1, FrontIs
<1> HIDE DEF j
<1>10. ns[j] \in AllNodes
  BY <1>5, <1>9, ElementOfSeq
<1> DEFINE r == Restored(ns[j], alias)
           us == [ns EXCEPT ![j] = r]
<1>11. r \in AllNodes /\ Children(r) = Children(ns[j])
  BY <1>3, <1>10, RestoredIs
<1>12. lower' = [tasks |-> ts, completed |-> cs, nodes |-> us, anchors |-> as, keys |-> ks]
  BY <1>2, <1>6
<1> HIDE DEF r
<1>13. us \in Seq(AllNodes)
  BY <1>5, <1>9, <1>11, ExceptSeq
<1>14. Forest(us, cs)
  BY <1>4, <1>9, <1>11, ForestRestored
<1> HIDE DEF us
<1>15. Fits([tasks |-> ts, completed |-> cs, nodes |-> us, anchors |-> as, keys |-> ks])
  BY <1>5, <1>8, <1>13, <1>14, PartsFit
<1>16. QED
  BY <1>12, <1>15

\* The state once a collection is complete.
LEMMA FinishedIs ==
  ASSUME Fits(lower), lower.tasks # <<>>, NEW node, NEW m, NEW parts
  PROVE  Finished(node, m, parts) =
           [tasks |-> Front(lower.tasks),
            completed |-> Append(Without(lower.completed, m), Len(lower.nodes) + 1),
            nodes |-> Append(lower.nodes, [node EXCEPT !.parts = parts]),
            anchors |-> lower.anchors, keys |-> lower.keys]
<1> DEFINE x == [node EXCEPT !.parts = parts]
           c == Completed(x)
           ts == Front(lower.tasks)
           cs == Append(lower.completed, Len(lower.nodes) + 1)
           ds == Append(Without(lower.completed, m), Len(lower.nodes) + 1)
           ns == Append(lower.nodes, x)
           as == lower.anchors
           ks == lower.keys
<1>1. c = [tasks |-> ts, completed |-> cs, nodes |-> ns, anchors |-> as, keys |-> ks]
  <2> HIDE DEF x
  <2>1. QED
    BY CompletedIs
<1>2. Finished(node, m, parts) = [c EXCEPT !.completed = ds]
  BY DEF Finished
<1> HIDE DEF x, c, ts, cs, ds, ns, as, ks
<1>3. Finished(node, m, parts) = [tasks |-> ts, completed |-> ds, nodes |-> ns, anchors |-> as, keys |-> ks]
  BY <1>1, <1>2
<1>4. QED
  BY <1>3 DEF x, ts, ds, ns, as, ks

\* A collection with its parts.
LEMMA PartsGiven ==
  ASSUME NEW kind \in {"sequence", "mapping"}, NEW node \in NodesOf({kind}, {<<>>}), NEW P,
         NEW parts \in P
  PROVE  LET x == [node EXCEPT !.parts = parts]
         IN  /\ x \in NodesOf({kind}, P) /\ x.kind = kind /\ x.parts = parts
             /\ x.kind = node.kind /\ x.flow = node.flow
BY DEF NodesOf

\* A collection has been completed, of the nodes that its task takes.
Finishing(l) ==
  \E x \in AllNodes, cs \in Seq(Nat) :
    /\ x.kind \in {"sequence", "mapping"} /\ x.kind = Task.node.kind /\ x.flow = Task.node.flow
    /\ ToSet(Children(x)) = ToSet(Tails(lower.completed, Takes(Task)))
    /\ cs = Without(lower.completed, Takes(Task)) /\ l.tasks = Front(lower.tasks)
    /\ l.completed = Append(cs, Len(lower.nodes) + 1) /\ l.nodes = Append(lower.nodes, x)

\* The end of a sequence, and of a mapping.
LEMMA FinishSequenceKeeps ==
  ASSUME LInv, FinishSequence
  PROVE  Fits(lower') /\ Finishing(lower')
<1> DEFINE m == Task.len
           parts == Tails(lower.completed, m)
           x == [Task.node EXCEPT !.parts = parts]
<1>1. lower.tasks # <<>> /\ Task.task = "FinishSequence" /\ Fits(lower)
  BY DEF LInv, FinishSequence, Lowering
<1>2. lower' = Finished(Task.node, m, parts)
  BY DEF FinishSequence
<1>3. Task \in FinishSequences
  BY <1>1, AtHand DEF AllTasks, Visits, KeyTasks, Restores, FinishSequences, FinishMappings
<1>4. m \in Nat /\ Task.node \in NodesOf({"sequence"}, {<<>>})
  BY <1>3 DEF FinishSequences
<1>5. Takes(Task) = m /\ Gives(Task) = 1 /\ TakesKeys(Task) = 0 /\ GivesKeys(Task) = 0
  BY <1>1 DEF Takes, Gives, TakesKeys, GivesKeys
<1>6. m \in 0 .. Len(lower.completed) /\ Len(lower.keys) \in Nat
  BY <1>1, <1>5, AtHand
<1>7. lower.completed \in Seq(Nat) /\ lower.keys \in Seq(KeyNames) /\ lower.anchors \in SUBSET AnyName
  BY <1>1 DEF Fits, Lowerings
<1> HIDE DEF m
<1>8. parts \in Seq(Nat)
  BY <1>6, <1>7, TailsAre
<1> HIDE DEF parts
<1>9. /\ x \in NodesOf({"sequence"}, Seq(Nat)) /\ x.kind = "sequence" /\ x.parts = parts
      /\ x.kind = Task.node.kind /\ x.flow = Task.node.flow
  BY <1>4, <1>8, PartsGiven
<1> HIDE DEF x
<1>10. x \in AllNodes
  BY <1>9 DEF AllNodes, NodesOf
<1>11. Children(x) = parts
  BY <1>9 DEF Children
<1>12. lower' = [tasks |-> Front(lower.tasks),
                 completed |-> Append(Without(lower.completed, m), Len(lower.nodes) + 1),
                 nodes |-> Append(lower.nodes, x), anchors |-> lower.anchors, keys |-> lower.keys]
  BY <1>1, <1>2, FinishedIs DEF x
<1>13. Len(lower.keys) = Len(lower.keys) - TakesKeys(Task) + GivesKeys(Task)
  BY <1>5, <1>6
<1>14. ToSet(Children(x)) = ToSet(Tails(lower.completed, m))
  BY <1>11 DEF parts
<1>15. Takes(Task) = m /\ Gives(Task) = 1
  BY <1>5
<1>16. Fits(lower')
  BY <1>1, <1>4, <1>7, <1>10, <1>12, <1>13, <1>14, <1>15, CompletedFits
<1>17. Finishing(lower')
  <2>1. Without(lower.completed, m) \in Seq(Nat)
    BY <1>6, <1>7, TailsAre
  <2>2. /\ lower'.tasks = Front(lower.tasks) /\ lower'.nodes = Append(lower.nodes, x)
        /\ lower'.completed = Append(Without(lower.completed, m), Len(lower.nodes) + 1)
    BY <1>12
  <2>3. x.kind \in {"sequence", "mapping"} /\ x.kind = Task.node.kind /\ x.flow = Task.node.flow
    BY <1>9
  <2>4. QED
    BY <1>10, <1>14, <1>15, <2>1, <2>2, <2>3 DEF Finishing
<1>18. QED
  BY <1>16, <1>17

LEMMA FinishMappingKeeps ==
  ASSUME LInv, FinishMapping
  PROVE  Fits(lower') /\ Finishing(lower')
<1> DEFINE templates == Task.templates
           n == Len(templates)
           m == Len(templates) + KeyNodes(templates)
           children == Tails(lower.completed, m)
           keys == Tails(lower.keys, n)
           parts == EntriesOfFirstKeys(templates, children, keys)
           x == [Task.node EXCEPT !.parts = parts]
           rest == Without(lower.keys, n)
<1>1. lower.tasks # <<>> /\ Task.task = "FinishMapping" /\ Fits(lower)
  BY DEF LInv, FinishMapping, Lowering
<1>2. lower' = [Finished(Task.node, m, parts) EXCEPT !.keys = Without(@, n)]
  BY DEF FinishMapping, Entries
<1>3. Task \in FinishMappings
  BY <1>1, AtHand DEF AllTasks, Visits, KeyTasks, Restores, FinishSequences, FinishMappings
<1>4. templates \in Seq(Templates) /\ Task.node \in NodesOf({"mapping"}, {<<>>})
  BY <1>3 DEF FinishMappings
<1>5. Takes(Task) = m /\ Gives(Task) = 1 /\ TakesKeys(Task) = n /\ GivesKeys(Task) = 0
  BY <1>1 DEF Takes, Gives, TakesKeys, GivesKeys
<1>6. /\ Takes(Task) \in 0 .. Len(lower.completed) /\ TakesKeys(Task) \in 0 .. Len(lower.keys)
      /\ Len(lower.keys) \in Nat
  BY <1>1, AtHand
<1>7. lower.completed \in Seq(Nat) /\ lower.keys \in Seq(KeyNames) /\ lower.anchors \in SUBSET AnyName
  BY <1>1 DEF Fits, Lowerings
<1>8. m = Wanted(templates)
  BY DEF Wanted
<1>9. m \in 0 .. Len(lower.completed) /\ n \in 0 .. Len(lower.keys) /\ n = Len(templates)
  BY <1>5, <1>6
<1>20. m \in Nat
  BY <1>4, <1>8, WantedType
<1> HIDE DEF m, n, templates
<1>10. children \in Seq(Nat) /\ Len(children) = m
  BY <1>7, <1>9, TailsAre
<1>11. /\ keys \in Seq(KeyNames) /\ Len(keys) = n
       /\ rest \in Seq(KeyNames) /\ Len(rest) = Len(lower.keys) - n
  BY <1>7, <1>9, TailsAre, ZenonT(30)
<1> HIDE DEF children, keys, rest
<1> HIDE DEF parts
<1>12. PICK P : parts \in P
  <2>1. parts \in {parts}
    OBVIOUS
  <2>2. QED
    BY <2>1
<1>13. /\ x.kind = "mapping" /\ x.parts = parts
       /\ x.kind = Task.node.kind /\ x.flow = Task.node.flow
  <2>1. PICK node \in NodesOf({"mapping"}, {<<>>}) : node = Task.node
    BY <1>4
  <2> DEFINE y == [node EXCEPT !.parts = parts]
  <2>2. y.kind = "mapping" /\ y.parts = parts /\ y.kind = node.kind /\ y.flow = node.flow
    BY DEF NodesOf
  <2>3. x = y
    BY <2>1
  <2> HIDE DEF x, y
  <2>4. QED
    BY <2>1, <2>2, <2>3
<1> HIDE DEF x
<1>14. x.parts \in Seq(EntryParts) /\ ToSet(Children(x)) = ToSet(children)
  <2>1. x.parts = EntriesOfFirstKeys(templates, children, keys)
    BY <1>13 DEF parts
  <2>2. Len(children) = Wanted(templates) /\ Len(keys) = Len(templates)
    BY <1>8, <1>9, <1>10, <1>11
  <2>3. QED
    BY <1>4, <1>10, <1>11, <1>13, <2>1, <2>2, EntriesName
<1>15. x \in AllNodes
  <2>1. parts \in Seq(EntryParts)
    BY <1>13, <1>14
  <2>2. x \in NodesOf({"mapping"}, Seq(EntryParts))
    BY <1>4, <2>1, PartsGiven DEF x
  <2>3. QED
    BY <2>2 DEF AllNodes
<1> DEFINE f == Finished(Task.node, m, parts)
           ts == Front(lower.tasks)
           ds == Append(Without(lower.completed, m), Len(lower.nodes) + 1)
           ns == Append(lower.nodes, x)
           as == lower.anchors
           ks == lower.keys
<1>16. f = [tasks |-> ts, completed |-> ds, nodes |-> ns, anchors |-> as, keys |-> ks]
  BY <1>1, FinishedIs DEF x
<1>17. lower' = [tasks |-> ts, completed |-> ds, nodes |-> ns, anchors |-> as, keys |-> rest]
  <2>1. lower' = [f EXCEPT !.keys = Without(@, n)]
    BY <1>2
  <2>2. rest = Without(ks, n)
    BY DEF rest
  <2> HIDE DEF f, ts, ds, ns, as, ks
  <2>3. QED
    BY <1>16, <2>1, <2>2
<1>18. Len(rest) = Len(lower.keys) - TakesKeys(Task) + GivesKeys(Task)
  BY <1>5, <1>6, <1>9, <1>11
<1>19. ToSet(Children(x)) = ToSet(Tails(lower.completed, m))
  BY <1>14 DEF children
<1>21. Takes(Task) = m /\ Gives(Task) = 1
  BY <1>5
<1>22. Fits(lower')
  BY <1>1, <1>7, <1>11, <1>15, <1>17, <1>18, <1>19, <1>20, <1>21, CompletedFits
<1>23. Finishing(lower')
  <2>1. Without(lower.completed, m) \in Seq(Nat)
    BY <1>7, <1>9, TailsAre
  <2>2. /\ lower'.tasks = Front(lower.tasks) /\ lower'.nodes = Append(lower.nodes, x)
        /\ lower'.completed = Append(Without(lower.completed, m), Len(lower.nodes) + 1)
    BY <1>17
  <2>3. x.kind \in {"sequence", "mapping"} /\ x.kind = Task.node.kind /\ x.flow = Task.node.flow
    BY <1>13
  <2>4. QED
    BY <1>15, <1>19, <1>21, <2>1, <2>2, <2>3 DEF Finishing
<1>24. QED
  BY <1>22, <1>23

\* Without tasks there is one node, or none, and no key is waiting.
LEMMA NothingLeft ==
  ASSUME Fits(lower), lower.tasks = <<>>
  PROVE  Len(lower.completed) \in 0 .. 1 /\ Len(lower.keys) = 0
<1>1. Bound(<<>>, Len(lower.completed), Len(lower.keys))
  BY DEF Fits
<1>2. Reverse(<<>>) = <<>>
  <2>1. Reverse(<<>>) \in Seq(AllTasks) /\ Len(Reverse(<<>>)) = Len(<<>>)
    BY EmptySeq, ReverseIs
  <2>2. QED
    BY <2>1
<1>3. PICK d \in 0 .. 1 : Path(<<>>, Len(lower.completed), Len(lower.keys), d, 0)
  BY <1>1, <1>2 DEF Bound
<1>4. Len(lower.completed) = d /\ Len(lower.keys) = 0
  BY <1>3 DEF Path
<1>5. QED
  BY <1>4

\* Before a document.
LEMMA EmptyForest == Forest(<<>>, <<>>)
<1>1. <<>> \in Seq(AllNodes) /\ <<>> \in Seq(1 .. 0) /\ Len(<<>>) = 0
  OBVIOUS
<1>2. QED
  BY <1>1 DEF Forest

LEMMA FreshFits ==
  Fits(Fresh) /\ Fits([Fresh EXCEPT !.tasks = <<>>])
<1> DEFINE v == Visit(None, FALSE)
<1>1. v \in AllTasks /\ v.task = "Visit"
  <2>1. None \in AnyName /\ FALSE \in BOOLEAN
    BY DEF AnyName
  <2>2. QED
    BY <2>1, VisitType
<1> HIDE DEF v
<1>2. Fresh = [tasks |-> <<v>>, completed |-> <<>>, nodes |-> <<>>, anchors |-> {}, keys |-> <<>>]
  BY DEF Fresh, v
<1>3. [Fresh EXCEPT !.tasks = <<>>] =
        [tasks |-> <<>>, completed |-> <<>>, nodes |-> <<>>, anchors |-> {}, keys |-> <<>>]
  <2>1. PICK u, e, n : u = <<v>> /\ e = <<>> /\ n = {}
    OBVIOUS
  <2>2. Fresh = [tasks |-> u, completed |-> e, nodes |-> e, anchors |-> n, keys |-> e]
    BY <1>2, <2>1
  <2>3. [Fresh EXCEPT !.tasks = e] = [tasks |-> e, completed |-> e, nodes |-> e, anchors |-> n, keys |-> e]
    BY <2>2
  <2>4. QED
    BY <2>1, <2>3
<1>4. <<v>> \in Seq(AllTasks) /\ <<>> \in Seq(AllTasks) /\ <<>> \in Seq(Nat) /\ <<>> \in Seq(AllNodes)
      /\ {} \in SUBSET AnyName /\ <<>> \in Seq(KeyNames) /\ Len(<<>>) = 0
  BY <1>1
<1>5. Reverse(<<>>) = <<>>
  <2>1. Reverse(<<>>) \in Seq(AllTasks) /\ Len(Reverse(<<>>)) = Len(<<>>)
    BY EmptySeq, ReverseIs
  <2>2. QED
    BY <2>1
<1>6. Reverse(<<v>>) = <<v>>
  <2>1. /\ Reverse(<<v>>) \in Seq(AllTasks) /\ Len(Reverse(<<v>>)) = Len(<<v>>)
        /\ \A i \in 1 .. Len(<<v>>) : Reverse(<<v>>)[i] = <<v>>[(Len(<<v>>) - i) + 1]
    BY <1>4, ReverseIs
  <2> DEFINE r == Reverse(<<v>>)
  <2> HIDE DEF r
  <2>2. Len(<<v>>) = 1 /\ <<v>>[1] = v
    OBVIOUS
  <2>3. r \in Seq(AllTasks) /\ Len(r) = 1 /\ r[1] = v
    <3>1. 1 \in 1 .. Len(<<v>>) /\ (Len(<<v>>) - 1) + 1 = 1
      BY <2>2
    <3>2. QED
      BY <2>1, <2>2, <3>1 DEF r
  <2>4. r = <<v>>
    BY <2>3
  <2>5. QED
    BY <2>4 DEF r
<1>7. Path(<<>>, 0, 0, 0, 0)
  BY PathEmpty
<1>8. Path(<<v>>, 0, 0, 1, 0)
  <2>1. Takes(v) = 0 /\ Gives(v) = 1 /\ TakesKeys(v) = 0 /\ GivesKeys(v) = 0
    BY <1>1 DEF Takes, Gives, TakesKeys, GivesKeys
  <2>2. Path(<<v>>, 0, 0, 0 - Takes(v) + Gives(v), 0 - TakesKeys(v) + GivesKeys(v))
    <3>1. 0 \in Nat /\ Takes(v) <= 0 /\ TakesKeys(v) <= 0
      BY <2>1
    <3>2. QED
      BY <1>1, <3>1, PathOne
  <2>3. 0 - Takes(v) + Gives(v) = 1 /\ 0 - TakesKeys(v) + GivesKeys(v) = 0
    BY <2>1
  <2>4. QED
    BY <2>2, <2>3
<1>9. Bound(<<>>, 0, 0) /\ Bound(<<v>>, 0, 0)
  <2>1. 0 \in 0 .. 1 /\ 1 \in 0 .. 1
    OBVIOUS
  <2>2. QED
    BY <2>1, <1>5, <1>6, <1>7, <1>8 DEF Bound
<1>10. Bound(<<>>, Len(<<>>), Len(<<>>)) /\ Bound(<<v>>, Len(<<>>), Len(<<>>))
  BY <1>4, <1>9
<1>11. Fits([tasks |-> <<v>>, completed |-> <<>>, nodes |-> <<>>, anchors |-> {}, keys |-> <<>>])
  BY <1>4, <1>10, EmptyForest, PartsFit
<1>12. Fits([tasks |-> <<>>, completed |-> <<>>, nodes |-> <<>>, anchors |-> {}, keys |-> <<>>])
  BY <1>4, <1>10, EmptyForest, PartsFit
<1>13. QED
  BY <1>2, <1>3, <1>11, <1>12

\* The documents are trees.
ArenasWhole(as) ==
  /\ as \in Seq(Documents)
  /\ \A i \in 1 .. Len(as) : IsTree(as[i].nodes, as[i].root)

\* A document is done.
LEMMA LoweredKeeps ==
  ASSUME LInv, Lowered
  PROVE  Fits(lower') /\ ArenasWhole(arenas') /\ left' \in Nat
<1>1. Fits(lower) /\ lower.tasks = <<>> /\ lower.completed # <<>> /\ arenas \in Seq(Documents)
      /\ left \in Nat /\ \A i \in 1 .. Len(arenas) : IsTree(arenas[i].nodes, arenas[i].root)
  BY DEF LInv, Lowered
<1>2. PICK marks \in [start : BOOLEAN, end : BOOLEAN] :
       arenas' = Append(arenas, [nodes |-> lower.nodes, root |-> Last(lower.completed),
                                    start |-> marks.start, end |-> marks.end])
  BY DEF Lowered
<1> DEFINE ns == lower.nodes
           cs == lower.completed
           doc == [nodes |-> ns, root |-> Last(cs), start |-> marks.start, end |-> marks.end]
<1>3. cs \in Seq(Nat) /\ ns \in Seq(AllNodes) /\ Forest(ns, cs)
  BY <1>1 DEF Fits, Lowerings
<1>4. Len(cs) = 1
  <2>1. Len(cs) \in 0 .. 1
    BY <1>1, NothingLeft
  <2>2. Len(cs) # 0
    BY <1>1, <1>3
  <2>3. QED
    BY <2>1, <2>2
<1>5. IsTree(ns, Last(cs)) /\ Last(cs) \in Nat
  BY <1>1, <1>3, <1>4, ForestTree, FrontIs
<1>6. doc \in Documents /\ IsTree(doc.nodes, doc.root)
  BY <1>3, <1>5 DEF Documents
<1>7. arenas' = Append(arenas, doc)
  BY <1>2
<1> HIDE DEF doc
<1>8. /\ arenas' \in Seq(Documents) /\ Len(arenas') = Len(arenas) + 1
      /\ arenas'[Len(arenas) + 1] = doc /\ \A i \in 1 .. Len(arenas) : arenas'[i] = arenas[i]
      /\ Len(arenas) \in Nat
  BY <1>1, <1>6, <1>7, AppendProperties
<1>9. ASSUME NEW i \in 1 .. Len(arenas')
      PROVE  IsTree(arenas'[i].nodes, arenas'[i].root)
  <2>1. i = Len(arenas) + 1 \/ i \in 1 .. Len(arenas)
    BY <1>8
  <2>2. CASE i = Len(arenas) + 1
    BY <2>2, <1>6, <1>8
  <2>3. CASE i \in 1 .. Len(arenas)
    BY <2>3, <1>1, <1>8
  <2>4. QED
    BY <2>1, <2>2, <2>3
<1>10. Fits(lower')
  BY FreshFits DEF Lowered
<1>11. left' \in Nat
  BY <1>1 DEF Lowered
<1>12. QED
  BY <1>8, <1>9, <1>10, <1>11 DEF ArenasWhole

\* Every step of the lowering.
LEMMA LoweringKept ==
  ASSUME LInv, Lower
  PROVE  LInv'
<1>1. LInv' <=> /\ setting' \in Settings /\ left' \in Nat /\ count' \in Nat
                /\ Fits(lower') /\ ArenasWhole(arenas')
  BY DEF LInv, ArenasWhole
<1>2. setting \in Settings /\ left \in Nat /\ count \in Nat /\ ArenasWhole(arenas) /\ Fits(lower)
  BY DEF LInv, ArenasWhole
<1>3. CASE VisitScalar
  <2>1. setting' = setting /\ left' = left - 0 /\ count' = count + 1 /\ arenas' = arenas
    BY <1>3 DEF VisitScalar, Counted
  <2>2. QED
    BY <1>1, <1>2, <1>3, <2>1, VisitScalarKeeps
<1>4. CASE VisitAlias
  <2>1. /\ setting' = setting /\ left' \in {left, left - 0} /\ count' \in {count, count + 1}
        /\ arenas' = arenas
    BY <1>4 DEF VisitAlias, Counted
  <2>2. QED
    BY <1>1, <1>2, <1>4, <2>1, VisitAliasKeeps
<1>5. CASE VisitSequence
  <2>1. PICK len \in 0 .. setting.width : len <= left /\ left' = left - len
    BY <1>5 DEF VisitSequence, Counted
  <2>2. setting' = setting /\ count' = count + 1 /\ arenas' = arenas
    BY <1>5 DEF VisitSequence, Counted
  <2>3. left' \in Nat
    BY <1>2, <2>1, NamesType
  <2>4. QED
    BY <1>1, <1>2, <1>5, <2>2, <2>3, VisitSequenceKeeps
<1>6. CASE VisitMapping
  <2>1. PICK len \in 0 .. setting.width : \E keys \in [1 .. len -> GoodKeys] :
          len + KeyNodes(keys) <= left /\ left' = left - (len + KeyNodes(keys))
    BY <1>6 DEF VisitMapping, Counted
  <2>2. PICK keys \in [1 .. len -> GoodKeys] :
          len + KeyNodes(keys) <= left /\ left' = left - (len + KeyNodes(keys))
    BY <2>1
  <2>3. setting' = setting /\ count' = count + 1 /\ arenas' = arenas
    BY <1>6 DEF VisitMapping, Counted
  <2>4. len \in Nat
    BY <1>2, NamesType
  <2>5. KeyNodes(keys) \in Nat
    <3>1. keys \in [1 .. len -> Templates]
      BY <1>2, GoodKeysType
    <3>2. QED
      BY <2>4, <3>1, FunctionIsSeq, KeyNodesType
  <2>6. left' \in Nat
    BY <1>2, <2>2, <2>4, <2>5
  <2>7. QED
    BY <1>1, <1>2, <1>6, <2>3, <2>6, VisitMappingKeeps
<1>7. CASE VisitKey
  <2>1. setting' = setting /\ left' = left - 0 /\ count' = count + 1 /\ arenas' = arenas
    BY <1>7 DEF VisitKey, Counted
  <2>2. QED
    BY <1>1, <1>2, <1>7, <2>1, VisitKeyKeeps
<1>8. CASE RestoreAnchor
  <2>1. setting' = setting /\ left' = left /\ count' = count /\ arenas' = arenas
    BY <1>8 DEF RestoreAnchor
  <2>2. QED
    BY <1>1, <1>2, <1>8, <2>1, RestoreAnchorKeeps
<1>9. CASE FinishSequence
  <2>1. setting' = setting /\ left' = left /\ count' = count /\ arenas' = arenas
    BY <1>9 DEF FinishSequence
  <2>2. QED
    BY <1>1, <1>2, <1>9, <2>1, FinishSequenceKeeps
<1>10. CASE FinishMapping
  <2>1. setting' = setting /\ left' = left /\ count' = count /\ arenas' = arenas
    BY <1>10 DEF FinishMapping
  <2>2. QED
    BY <1>1, <1>2, <1>10, <2>1, FinishMappingKeeps
<1>11. CASE Lowered
  <2>1. setting' = setting /\ count' = count
    BY <1>11 DEF Lowered
  <2>2. QED
    BY <1>1, <1>2, <1>11, <2>1, LoweredKeeps
<1>12. QED
  BY <1>3, <1>4, <1>5, <1>6, <1>7, <1>8, <1>9, <1>10, <1>11 DEF Lower

\* One element more, of any kind.
LEMMA PlainAppend ==
  ASSUME NEW S, NEW s \in Seq(S), NEW x
  PROVE  /\ Len(Append(s, x)) = Len(s) + 1 /\ Append(s, x)[Len(s) + 1] = x
         /\ \A i \in 1 .. Len(s) : Append(s, x)[i] = s[i]
<1>1. s \in Seq(S \cup {x}) /\ x \in S \cup {x}
  BY SeqMonotonic
<1>2. QED
  BY <1>1, AppendProperties

(***************************************************************************)
(* The root of a document.                                                 *)
(***************************************************************************)
\* What is lowered last is not an alias, nor is the root of a document.
RootGood(l) ==
  /\ l.tasks # <<>> => RootFirst(l.tasks)
  /\ l.tasks = <<>> /\ l.completed # <<>> => l.nodes[Last(l.completed)].kind # "alias"

RootsGood(as) ==
  \A i \in 1 .. Len(as) :
    as[i].root \in DOMAIN as[i].nodes /\ as[i].nodes[as[i].root].kind # "alias"

\* The last task is done: only the root's own can be the last.
LEMMA TaskDropped ==
  ASSUME Fits(lower), lower.tasks # <<>>, RootFirst(lower.tasks)
  PROVE  \/ Front(lower.tasks) # <<>> /\ RootFirst(Front(lower.tasks)) /\ Len(lower.tasks) > 1
         \/ /\ Front(lower.tasks) = <<>> /\ ~(Len(lower.tasks) > 1)
            /\ Task.task \in {"Visit", "FinishSequence", "FinishMapping"}
<1> DEFINE ts == lower.tasks
<1>1. ts \in Seq(AllTasks) /\ ts # <<>>
  BY DEF Fits, Lowerings
<1>2. /\ Front(ts) \in Seq(AllTasks) /\ Len(Front(ts)) = Len(ts) - 1 /\ Last(ts) = ts[Len(ts)]
      /\ Len(ts) \in Nat \ {0}
  BY <1>1, FrontIs
<1>3. CASE Len(ts) > 1
  <2>1. <<>> \in Seq(AllTasks)
    OBVIOUS
  <2>2. RootFirst(Front(ts))
    BY <1>1, <1>3, <2>1, LongFirst
  <2>3. QED
    BY <1>3, <2>2 DEF RootFirst
<1>4. CASE ~(Len(ts) > 1)
  <2>0. Task = Last(ts)
    BY DEF Task
  <2> HIDE DEF ts
  <2>1. Len(ts) = 1 /\ Task = ts[1]
    BY <1>2, <1>4, <2>0
  <2>2. Front(ts) = <<>>
    BY <1>2, <2>1
  <2>3. Task.task \in {"Visit", "FinishSequence", "FinishMapping"}
    BY <2>1, Zenon DEF RootFirst, ts
  <2>4. QED
    BY <1>4, <2>2, <2>3 DEF ts
<1>5. QED
  BY <1>3, <1>4

\* The root is completed as no alias,
LEMMA RootCompleted ==
  ASSUME Fits(lower), lower.tasks # <<>>, RootFirst(lower.tasks), NEW x \in AllNodes, x.kind # "alias",
         NEW cs \in Seq(Nat), NEW l, l.tasks = Front(lower.tasks),
         l.completed = Append(cs, Len(lower.nodes) + 1), l.nodes = Append(lower.nodes, x)
  PROVE  RootGood(l)
<1>1. lower.nodes \in Seq(AllNodes)
  BY DEF Fits, Lowerings
<1>2. Len(lower.nodes) + 1 \in Nat /\ Append(lower.nodes, x)[Len(lower.nodes) + 1] = x
  BY <1>1, AppendProperties
<1>3. Last(Append(cs, Len(lower.nodes) + 1)) = Len(lower.nodes) + 1
  <2> DEFINE n == Len(lower.nodes) + 1
             ds == Append(cs, n)
  <2>1. n \in Nat
    BY <1>2
  <2> HIDE DEF n
  <2>2. ds \in Seq(Nat) /\ ds[Len(ds)] = n
    BY <2>1, AppendProperties
  <2>3. QED
    BY <2>2 DEF Last, n
<1>4. l.nodes[Last(l.completed)].kind # "alias"
  BY <1>2, <1>3
<1>5. l.tasks # <<>> => RootFirst(l.tasks)
  BY TaskDropped
<1>6. QED
  BY <1>4, <1>5 DEF RootGood

\* A task that is never the last one.
LEMMA RootNotYet ==
  ASSUME Fits(lower), lower.tasks # <<>>, RootFirst(lower.tasks),
         Len(lower.tasks) > 1 \/ Task.task \notin {"Visit", "FinishSequence", "FinishMapping"},
         NEW l, l.tasks = Front(lower.tasks)
  PROVE  RootGood(l)
BY TaskDropped DEF RootGood

\* A scalar is no alias.
LEMMA LeafKind ==
  ASSUME NEW node \in Scalars(Task)
  PROVE  node.kind # "alias"
<1>1. node.kind \in ScalarKinds
  BY DEF Scalars, Nodes
<1>2. QED
  BY <1>1 DEF ScalarKinds

\* Before a document nothing is said of its root.
LEMMA FreshRoot ==
  RootGood(Fresh) /\ RootGood([Fresh EXCEPT !.tasks = <<>>])
<1> DEFINE v == Visit(None, FALSE)
<1>1. v.task = "Visit"
  BY DEF Visit
<1> HIDE DEF v
<1>2. Fresh = [tasks |-> <<v>>, completed |-> <<>>, nodes |-> <<>>, anchors |-> {}, keys |-> <<>>]
  BY DEF Fresh, v
<1>3. PICK u, e, n : u = <<v>> /\ e = <<>> /\ n = {}
  OBVIOUS
<1>4. Fresh = [tasks |-> u, completed |-> e, nodes |-> e, anchors |-> n, keys |-> e]
  BY <1>2, <1>3
<1>5. Fresh.tasks = u /\ [Fresh EXCEPT !.tasks = e].tasks = e /\ [Fresh EXCEPT !.tasks = e].completed = e
  BY <1>4
<1>6. u # <<>> /\ RootFirst(u)
  BY <1>1, <1>3 DEF RootFirst
<1>7. RootGood(Fresh)
  BY <1>5, <1>6 DEF RootGood
<1>8. RootGood([Fresh EXCEPT !.tasks = e])
  BY <1>3, <1>5 DEF RootGood
<1>9. QED
  BY <1>3, <1>7, <1>8

\* Every step of the lowering.
LEMMA RootGoodKept ==
  ASSUME LInv, RootGood(lower), RootsGood(arenas), Lower
  PROVE  RootGood(lower') /\ RootsGood(arenas')
<1>1. Fits(lower) /\ setting \in Settings /\ count \in Nat
  BY DEF LInv
<1>2. lower.tasks # <<>> => RootFirst(lower.tasks)
  BY DEF RootGood
<1>3. CASE VisitScalar
  <2>1. Lowering("Visit") /\ lower.tasks # <<>> /\ arenas' = arenas
    BY <1>3 DEF VisitScalar, Lowering, Counted
  <2>2. PICK node \in Scalars(Task) : lower' = [Completed(node) EXCEPT !.anchors = Anchored(@, node)]
    BY <1>3 DEF VisitScalar
  <2>3. node \in AllNodes
    BY <1>1, <2>1, VisitTask, LeavesType
  <2>4. Completed(node) =
           [tasks |-> Front(lower.tasks), completed |-> Append(lower.completed, Len(lower.nodes) + 1),
            nodes |-> Append(lower.nodes, node), anchors |-> lower.anchors, keys |-> lower.keys]
    BY <1>1, <2>1, CompletedIs
  <2>5. /\ lower'.tasks = Front(lower.tasks)
        /\ lower'.completed = Append(lower.completed, Len(lower.nodes) + 1)
        /\ lower'.nodes = Append(lower.nodes, node)
    <3> DEFINE ts == Front(lower.tasks)
               cs == Append(lower.completed, Len(lower.nodes) + 1)
               ns == Append(lower.nodes, node)
               d == Completed(node)
    <3>1. d = [tasks |-> ts, completed |-> cs, nodes |-> ns, anchors |-> lower.anchors, keys |-> lower.keys]
      BY <2>4
    <3>2. lower' = [d EXCEPT !.anchors = Anchored(@, node)]
      BY <2>2
    <3> HIDE DEF ts, cs, ns, d
    <3>3. lower'.tasks = ts /\ lower'.completed = cs /\ lower'.nodes = ns
      BY <3>1, <3>2
    <3>4. QED
      BY <3>3 DEF ts, cs, ns
  <2>6. lower.completed \in Seq(Nat)
    BY <1>1 DEF Fits, Lowerings
  <2>7. RootGood(lower')
    BY <1>1, <1>2, <2>1, <2>3, <2>5, <2>6, LeafKind, RootCompleted
  <2>8. QED
    BY <2>1, <2>7
<1>4. CASE VisitAlias
  <2>1. Lowering("Visit") /\ lower.tasks # <<>> /\ arenas' = arenas
    BY <1>4 DEF VisitAlias, Lowering, Counted
  <2>2. PICK node \in Aliases(Task) :
           \/ lower' = Completed(node)
           \/ lower' = [Done(<<Visit(node.name, FALSE), RestoreTask(node)>>)
                           EXCEPT !.anchors = @ \cup {node.name}]
    BY <1>4 DEF VisitAlias
  <2>3. Len(lower.tasks) > 1
    <3>1. node.name \in AliasNames(Task)
      BY DEF Aliases, Nodes
    <3>2. QED
      BY <3>1 DEF AliasNames
  <2>4. node \in AllNodes /\ node.name \in AnyName
    BY <1>1, <2>1, VisitTask, LeavesType
  <2>5. CASE lower' = Completed(node)
    <3>1. lower'.tasks = Front(lower.tasks)
      BY <1>1, <2>1, <2>5, CompletedIs
    <3>2. QED
      BY <1>1, <1>2, <2>1, <2>3, <3>1, RootNotYet
  <2>6. CASE lower' = [Done(<<Visit(node.name, FALSE), RestoreTask(node)>>)
                         EXCEPT !.anchors = @ \cup {node.name}]
    <3> DEFINE v == Visit(node.name, FALSE)
               r == RestoreTask(node)
               ts == <<v, r>>
               tasks == Front(lower.tasks) \o Reverse(ts)
               d == Done(ts)
    <3>1. v \in AllTasks /\ r \in AllTasks
      <4>1. v \in AllTasks
        BY <2>4, VisitType
      <4>2. r \in AllTasks
        BY <2>4 DEF RestoreTask, AllTasks, Restores
      <4>3. QED
        BY <4>1, <4>2
    <3>2. ts \in Seq(AllTasks)
      <4> HIDE DEF v, r
      <4>1. QED
        BY <3>1
    <3>3. lower' = [d EXCEPT !.anchors = @ \cup {node.name}]
      BY <2>6
    <3> HIDE DEF v, r, ts
    <3>4. d = [tasks |-> tasks, completed |-> lower.completed,
               nodes |-> lower.nodes, anchors |-> lower.anchors, keys |-> lower.keys]
      BY <1>1, <2>1, <3>2, DoneIs
    <3>5. Reverse(ts) \in Seq(AllTasks) /\ lower.tasks \in Seq(AllTasks)
      BY <1>1, <3>2, ReverseIs DEF Fits, Lowerings
    <3>6. RootFirst(tasks)
      BY <1>2, <2>1, <2>3, <3>5, LongFirst
    <3> HIDE DEF tasks, d
    <3>7. lower'.tasks = tasks
      BY <3>3, <3>4
    <3>8. RootGood(lower')
      BY <3>6, <3>7 DEF RootGood, RootFirst
    <3>9. QED
      BY <2>1, <3>8
  <2>7. QED
    BY <2>1, <2>2, <2>5, <2>6
<1>5. CASE VisitSequence
  <2>1. lower.tasks # <<>> /\ arenas' = arenas
    BY <1>5 DEF VisitSequence, Lowering, Counted
  <2>2. RootFirst(lower'.tasks)
    BY <1>2, <1>5, <2>1, VisitSequenceKeeps
  <2>3. QED
    BY <2>1, <2>2 DEF RootGood, RootFirst
<1>6. CASE VisitMapping
  <2>1. lower.tasks # <<>> /\ arenas' = arenas
    BY <1>6 DEF VisitMapping, Lowering, Counted
  <2>2. RootFirst(lower'.tasks)
    BY <1>2, <1>6, <2>1, VisitMappingKeeps
  <2>3. QED
    BY <2>1, <2>2 DEF RootGood, RootFirst
<1>7. CASE VisitKey
  <2>1. lower.tasks # <<>> /\ Task.task = "Key" /\ arenas' = arenas
    BY <1>7 DEF VisitKey, Lowering, Counted
  <2> DEFINE d == Done(<<>>)
             ts == Front(lower.tasks)
             key == KeyProperties(lower.anchors, Task)
             x == [from |-> count + 1, anchor |-> key.anchor, alias |-> key.alias]
  <2>2. lower' = [d EXCEPT !.anchors = Anchored(@, key), !.keys = Append(@, x)]
    BY <1>7 DEF VisitKey
  <2>3. d = [tasks |-> ts, completed |-> lower.completed,
             nodes |-> lower.nodes, anchors |-> lower.anchors, keys |-> lower.keys]
    BY <1>1, <2>1, NothingPushed
  <2> HIDE DEF d, ts, key, x
  <2>4. lower'.tasks = ts
    BY <2>2, <2>3
  <2>5. RootGood(lower')
    BY <1>1, <1>2, <2>1, <2>4, RootNotYet DEF ts
  <2>6. QED
    BY <2>1, <2>5
<1>8. CASE RestoreAnchor
  <2>1. lower.tasks # <<>> /\ Task.task = "RestoreAnchor" /\ arenas' = arenas
    BY <1>8 DEF RestoreAnchor, Lowering
  <2> DEFINE d == Done(<<>>)
             ts == Front(lower.tasks)
             j == Last(lower.completed)
             alias == Task.alias
  <2>2. lower' = [d EXCEPT !.nodes[j] = Restored(@, alias)]
    BY <1>8 DEF RestoreAnchor
  <2>3. d = [tasks |-> ts, completed |-> lower.completed,
             nodes |-> lower.nodes, anchors |-> lower.anchors, keys |-> lower.keys]
    BY <1>1, <2>1, NothingPushed
  <2> HIDE DEF d, ts, j, alias
  <2>4. lower'.tasks = ts
    BY <2>2, <2>3
  <2>5. RootGood(lower')
    BY <1>1, <1>2, <2>1, <2>4, RootNotYet DEF ts
  <2>6. QED
    BY <2>1, <2>5
<1>9. CASE FinishSequence
  <2>1. lower.tasks # <<>> /\ arenas' = arenas
    BY <1>9 DEF FinishSequence, Lowering
  <2>2. PICK x \in AllNodes, cs \in Seq(Nat) :
          /\ x.kind # "alias" /\ lower'.tasks = Front(lower.tasks)
          /\ lower'.completed = Append(cs, Len(lower.nodes) + 1) /\ lower'.nodes = Append(lower.nodes, x)
    BY <1>9, FinishSequenceKeeps DEF Finishing
  <2>3. RootGood(lower')
    BY <1>1, <1>2, <2>1, <2>2, RootCompleted
  <2>4. QED
    BY <2>1, <2>3
<1>10. CASE FinishMapping
  <2>1. lower.tasks # <<>> /\ arenas' = arenas
    BY <1>10 DEF FinishMapping, Lowering
  <2>2. PICK x \in AllNodes, cs \in Seq(Nat) :
          /\ x.kind # "alias" /\ lower'.tasks = Front(lower.tasks)
          /\ lower'.completed = Append(cs, Len(lower.nodes) + 1) /\ lower'.nodes = Append(lower.nodes, x)
    BY <1>10, FinishMappingKeeps DEF Finishing
  <2>3. RootGood(lower')
    BY <1>1, <1>2, <2>1, <2>2, RootCompleted
  <2>4. QED
    BY <2>1, <2>3
<1>11. CASE Lowered
  <2>1. lower.tasks = <<>> /\ lower.completed # <<>> /\ arenas \in Seq(Documents)
    BY <1>11 DEF Lowered, LInv
  <2>2. PICK marks \in [start : BOOLEAN, end : BOOLEAN] :
       arenas' = Append(arenas, [nodes |-> lower.nodes, root |-> Last(lower.completed),
                                    start |-> marks.start, end |-> marks.end])
    BY <1>11 DEF Lowered
  <2> DEFINE doc == [nodes |-> lower.nodes, root |-> Last(lower.completed),
                     start |-> marks.start, end |-> marks.end]
  <2>3. doc.root \in DOMAIN doc.nodes /\ doc.nodes[doc.root].kind # "alias"
    <3>1. lower.nodes \in Seq(AllNodes) /\ lower.completed \in Seq(1 .. Len(lower.nodes))
      BY <1>1 DEF Fits, Forest
    <3>2. Last(lower.completed) \in 1 .. Len(lower.nodes)
      BY <2>1, <3>1, FrontIs
    <3>3. Last(lower.completed) \in DOMAIN lower.nodes
      BY <3>1, <3>2
    <3>4. QED
      BY <2>1, <3>3 DEF RootGood
  <2>4. arenas' = Append(arenas, doc)
    BY <2>2
  <2> HIDE DEF doc
  <2>5. /\ Len(arenas') = Len(arenas) + 1 /\ Len(arenas) \in Nat
        /\ arenas'[Len(arenas) + 1] = doc /\ \A i \in 1 .. Len(arenas) : arenas'[i] = arenas[i]
    <3>1. Len(arenas) \in Nat
      BY <2>1
    <3>2. QED
      BY <2>1, <2>4, <3>1, PlainAppend
  <2>6. RootsGood(arenas')
    <3>1. \A i \in 1 .. Len(arenas) + 1 : i = Len(arenas) + 1 \/ i \in 1 .. Len(arenas)
      BY <2>5
    <3>2. QED
      BY <2>3, <2>5, <3>1 DEF RootsGood
  <2>7. RootGood(Fresh) /\ RootGood([Fresh EXCEPT !.tasks = <<>>])
    BY FreshRoot
  <2>8. RootGood(lower')
    BY <1>11, <2>7 DEF Lowered
  <2>9. QED
    BY <2>6, <2>8
<1>12. QED
  BY <1>3, <1>4, <1>5, <1>6, <1>7, <1>8, <1>9, <1>10, <1>11 DEF Lower

(***************************************************************************)
(* The types of the text.                                                  *)
(***************************************************************************)
\* The pieces of a text have a width.
Text(s) == \E S : s \in Seq(Seq(S)) /\ \A x \in S : x.width \in Nat

\* A piece more, a line more, a line less.
LEMMA TextPut ==
  ASSUME NEW s, Text(s), NEW p, p.width \in Nat
  PROVE  Text(Put(s, p))
<1>1. PICK S : s \in Seq(Seq(S)) /\ \A x \in S : x.width \in Nat
  BY DEF Text
<1> DEFINE T == S \cup {p}
           l == s[Len(s)]
           u == [s EXCEPT ![Len(s)] = Append(l, p)]
<1>2. Put(s, p) = u
  BY DEF Put
<1>3. s \in Seq(Seq(T)) /\ \A x \in T : x.width \in Nat
  <2>1. Seq(S) \subseteq Seq(T)
    BY SeqMonotonic
  <2>2. Seq(Seq(S)) \subseteq Seq(Seq(T))
    BY <2>1, SeqMonotonic
  <2>3. QED
    BY <1>1, <2>2
<1>4. u \in Seq(Seq(T))
  <2>1. Len(s) \in Nat /\ DOMAIN s = 1 .. Len(s)
    BY <1>1
  <2>2. CASE Len(s) = 0
    <3>1. s = <<>>
      BY <1>1, <2>2
    <3>2. u = s
      BY <2>2, <3>1
    <3>3. QED
      BY <1>3, <3>2
  <2>3. CASE Len(s) # 0
    <3>1. Len(s) \in 1 .. Len(s)
      BY <2>1, <2>3
    <3>2. l \in Seq(T) /\ p \in T
      BY <1>3, <3>1, ElementOfSeq
    <3>3. Append(l, p) \in Seq(T)
      BY <3>2, AppendProperties
    <3> DEFINE m == Append(l, p)
               k == Len(s)
    <3>4. m \in Seq(T) /\ k \in 1 .. Len(s)
      BY <3>1, <3>3
    <3> HIDE DEF m, k, T
    <3>5. [s EXCEPT ![k] = m] \in Seq(Seq(T))
      BY <1>3, <3>4, ExceptSeq
    <3>6. QED
      BY <3>5 DEF m, k
  <2>4. QED
    BY <2>2, <2>3
<1> HIDE DEF u, T
<1>5. QED
  BY <1>2, <1>3, <1>4 DEF Text

LEMMA TextNewLine ==
  ASSUME NEW s, Text(s)
  PROVE  Text(NewLine(s))
<1>1. PICK S : s \in Seq(Seq(S)) /\ \A x \in S : x.width \in Nat
  BY DEF Text
<1>2. <<>> \in Seq(S)
  OBVIOUS
<1>3. Append(s, <<>>) \in Seq(Seq(S))
  BY <1>1, <1>2, AppendProperties
<1>4. QED
  BY <1>1, <1>3 DEF Text, NewLine

LEMMA TextFront ==
  ASSUME NEW s, Text(s)
  PROVE  Text(Front(s))
<1>1. PICK S : s \in Seq(Seq(S)) /\ \A x \in S : x.width \in Nat
  BY DEF Text
<1>2. CASE s = <<>>
  <2>1. Front(s) = SubSeq(s, 1, 0 - 1)
    BY <1>2 DEF Front
  <2>2. SubSeq(s, 1, 0 - 1) = <<>>
    BY <1>2
  <2>3. QED
    BY <1>1, <1>2, <2>1, <2>2 DEF Text
<1>3. CASE s # <<>>
  <2>1. Front(s) \in Seq(Seq(S))
    BY <1>1, <1>3, FrontIs
  <2>2. QED
    BY <1>1, <2>1 DEF Text
<1>4. QED
  BY <1>2, <1>3

\* Pieces of a known width.
LEMMA PieceWidth ==
  ASSUME NEW t, NEW w, NEW of
  PROVE  Piece(t, w, of).width = w
BY DEF Piece

LEMMA TextPiece ==
  ASSUME NEW s, Text(s), NEW t, NEW w \in Nat, NEW of
  PROVE  Text(Put(s, Piece(t, w, of))) /\ Text(Write(s, t, w))
<1>1. \A f : Text(Put(s, Piece(t, w, f)))
  BY PieceWidth, TextPut
<1>2. QED
  BY <1>1 DEF Write

\* What the emitter's methods write.
LEMMA TextIndent ==
  ASSUME NEW s, Text(s), NEW n \in Nat
  PROVE  Text(Indent(s, n))
BY TextPiece DEF Indent

LEMMA TextInline ==
  ASSUME NEW s, Text(s), NEW node
  PROVE  Text(InlineComment(s, node)) /\ Text(FinishLine(s, node))
<1>1. 1 \in Nat
  OBVIOUS
<1>2. Text(InlineComment(s, node))
  BY <1>1, TextPiece DEF InlineComment
<1>3. QED
  BY <1>2, TextNewLine DEF FinishLine

LEMMA TextBefore ==
  ASSUME NEW s, Text(s), NEW node, NEW n \in Nat
  PROVE  Text(CommentBefore(s, node, n)) /\ Text(Indent(CommentBefore(s, node, n), n))
<1>1. 1 \in Nat
  OBVIOUS
<1>2. Text(NewLine(Put(Indent(s, n), Piece("before", 1, node.from))))
  <2>1. Text(Put(Indent(s, n), Piece("before", 1, node.from)))
    BY <1>1, TextIndent, TextPiece
  <2>2. QED
    BY <2>1, TextNewLine
<1>3. Text(CommentBefore(s, node, n))
  BY <1>2 DEF CommentBefore
<1>4. QED
  BY <1>3, TextIndent

LEMMA TextAnchor ==
  ASSUME NEW s, Text(s), NEW name
  PROVE  Text(Anchor(s, name))
<1>1. 3 \in Nat
  OBVIOUS
<1>2. QED
  BY <1>1, TextPiece DEF Anchor

LEMMA TextAlias ==
  ASSUME NEW s, Text(s), NEW name, NEW from
  PROVE  Text(Alias(s, name, from))
<1>1. 2 \in Nat /\ 0 \in Nat
  OBVIOUS
<1>2. Text(Put(s, Piece("*", 2, name)))
  BY <1>1, TextPiece
<1>3. QED
  BY <1>1, <1>2, TextPiece DEF Alias

LEMMA TextBlock ==
  ASSUME NEW s, Text(s), NEW a, NEW from, NEW inline, NEW n \in Nat
  PROVE  Text(BlockText(s, a, from, inline, n))
<1> DEFINE header == Put(Anchor(s, a), Piece("header", 1, from))
           more == Put(header, Piece("inline", 1, from))
           line == NewLine(IF inline THEN more ELSE header)
           whole == Put(Indent(line, n), Piece("text", 1, from))
<1>1. 1 \in Nat
  OBVIOUS
<1>2. Text(header)
  BY <1>1, TextAnchor, TextPiece
<1> HIDE DEF header
<1>3. Text(more)
  BY <1>1, <1>2, TextPiece
<1> HIDE DEF more
<1>4. Text(line)
  BY <1>2, <1>3, TextNewLine
<1>5. BlockText(s, a, from, inline, n) = NewLine(whole)
  BY DEF BlockText, header, more
<1> HIDE DEF line
<1>6. Text(whole)
  BY <1>1, <1>4, TextIndent, TextPiece
<1> HIDE DEF whole
<1>7. QED
  BY <1>5, <1>6, TextNewLine

LEMMA TextScalar ==
  ASSUME NEW s, Text(s), NEW node, NEW n \in Nat, NEW inline, setting \in Settings
  PROVE  Text(Scalar(s, node, n, inline))
<1>1. setting.step \in Nat
  BY NamesType
<1>2. CASE node.kind = "block"
  <2>1. PICK m \in Nat : m = IF n = 0 THEN setting.step ELSE n
    BY <1>1
  <2>2. Scalar(s, node, n, inline) = BlockText(s, node.anchor, node.from, inline, m)
    BY <1>2, <2>1 DEF Scalar
  <2>3. QED
    BY <2>2, TextBlock
<1>3. CASE node.kind # "block"
  <2>1. PICK w \in Nat : w = IF node.kind = "null" THEN 0 ELSE 1
    OBVIOUS
  <2>2. Scalar(s, node, n, inline) = Put(Anchor(s, node.anchor), Piece(node.kind, w, node.from))
    BY <1>3, <2>1 DEF Scalar
  <2>3. QED
    BY <2>2, TextAnchor, TextPiece
<1>4. QED
  BY <1>2, <1>3

LEMMA TextEmpty ==
  ASSUME NEW s, Text(s), NEW node
  PROVE  Text(Empty(s, node))
<1>1. 2 \in Nat
  OBVIOUS
<1>2. QED
  BY <1>1, TextAnchor, TextPiece DEF Empty

\* Keys.
LEMMA TextKey ==
  ASSUME NEW s, Text(s), NEW key \in EntryParts, NEW of, NEW n \in Nat, setting \in Settings
  PROVE  Text(Key(s, key, of, n)) /\ Text(FlowKey(s, key))
<1> DEFINE Entry(t) == Put(s, Piece(t, 2, of))
           Name(u) == Put(Anchor(u, key.anchor), Piece("key", 1, key.from))
           OnNextLine(u) == Write(Indent(u, n), ":", 1)
<1>1. 0 \in Nat /\ 1 \in Nat /\ 2 \in Nat /\ n + setting.step \in Nat
  BY NamesType
<1>2. \A t : Text(Entry(t))
  BY <1>1, TextPiece
<1>3. ASSUME NEW u, Text(u) PROVE Text(Name(u))
  BY <1>1, <1>3, TextAnchor, TextPiece
<1>4. ASSUME NEW u, Text(u) PROVE Text(OnNextLine(u))
  BY <1>1, <1>4, TextIndent, TextPiece
<1>5. Text(Write(Name(Put(s, Piece("entry", 0, of))), ":", 1))
  <2>1. Text(Put(s, Piece("entry", 0, of)))
    BY <1>1, TextPiece
  <2>2. Text(Name(Put(s, Piece("entry", 0, of))))
    BY <2>1, <1>3
  <2> HIDE DEF Name
  <2>3. QED
    BY <1>1, <2>2, TextPiece
<1>6. Text(OnNextLine(NewLine(Alias(Entry("?"), key.alias, key.from))))
  <2> HIDE DEF Entry
  <2>1. Text(NewLine(Alias(Entry("?"), key.alias, key.from)))
    BY <1>2, TextAlias, TextNewLine
  <2> HIDE DEF OnNextLine
  <2>2. QED
    BY <2>1, <1>4
<1>7. Text(OnNextLine(BlockText(Entry("?"), key.anchor, key.from, FALSE, n + setting.step)))
  <2>1. \A inline : Text(BlockText(Entry("?"), key.anchor, key.from, inline, n + setting.step))
    BY <1>1, <1>2, TextBlock
  <2>2. Text(BlockText(Entry("?"), key.anchor, key.from, FALSE, n + setting.step))
    BY <2>1
  <2> HIDE DEF OnNextLine, Entry
  <2>3. QED
    BY <2>2, <1>4
<1>8. Text(OnNextLine(NewLine(Name(Entry("?")))))
  <2> HIDE DEF Entry, Name, OnNextLine
  <2>1. Text(NewLine(Name(Entry("?"))))
    BY <1>2, <1>3, TextNewLine
  <2>2. QED
    BY <2>1, <1>4
<1>9. key.form \in {"plain", "node", "long", "block"}
  BY DEF EntryParts, KeyForms
<1>10. Text(Key(s, key, of, n))
  <2>1. CASE key.alias # None
    <3>1. Key(s, key, of, n) = OnNextLine(NewLine(Alias(Entry("?"), key.alias, key.from)))
      BY <2>1 DEF Key
    <3> HIDE DEF Entry, OnNextLine
    <3>2. QED
      BY <1>6, <3>1
  <2>2. CASE key.alias = None /\ key.form = "node"
    <3>1. Key(s, key, of, n) = Entry("?")
      BY <2>2 DEF Key
    <3> HIDE DEF Entry
    <3>2. QED
      BY <1>2, <3>1
  <2>3. CASE key.alias = None /\ key.form = "block"
    <3>1. Key(s, key, of, n) = OnNextLine(BlockText(Entry("?"), key.anchor, key.from, FALSE, n + setting.step))
      BY <2>3 DEF Key
    <3> HIDE DEF Entry, OnNextLine
    <3>2. QED
      BY <1>7, <3>1
  <2>4. CASE key.alias = None /\ key.form = "long"
    <3>1. Key(s, key, of, n) = OnNextLine(NewLine(Name(Entry("?"))))
      BY <2>4 DEF Key
    <3> HIDE DEF Entry, OnNextLine, Name
    <3>2. QED
      BY <1>8, <3>1
  <2>5. CASE key.alias = None /\ key.form = "plain"
    <3>1. Key(s, key, of, n) = Write(Name(Put(s, Piece("entry", 0, of))), ":", 1)
      BY <2>5 DEF Key
    <3> HIDE DEF Name
    <3>2. QED
      BY <1>5, <3>1
  <2>6. QED
    BY <1>9, <2>1, <2>2, <2>3, <2>4, <2>5
<1>11. Text(FlowKey(s, key))
  <2> DEFINE t == IF key.form = "long" THEN Write(s, "?", 2) ELSE s
  <2>1. Text(t)
    BY <1>1, TextPiece
  <2>2. Text(Alias(s, key.alias, key.from))
    BY TextAlias
  <2>3. FlowKey(s, key) = IF key.alias # None THEN Alias(s, key.alias, key.from) ELSE Name(t)
    BY DEF FlowKey
  <2> HIDE DEF t, Name
  <2>4. QED
    BY <1>3, <2>1, <2>2, <2>3
<1>12. QED
  BY <1>10, <1>11

(***************************************************************************)
(* The operations of run, and the inductive invariant.                     *)
(***************************************************************************)
\* The operations, each with what it works on.
OpNames ==
  MappingOps \cup SequenceOps
    \cup {"Node", "NodeInline", "FinishLine", "]", "}", "strip", "colon", "flow colon"}

\* Operations whose numbers are numbers, and that find what they work on.
AllOps == [op : OpNames, id : Nat, index : Nat, indent : Nat]

GoodOps == {x \in AllOps : FindsItsNode(x)}

\* The text, the operations, and the document they are about.
OInv == Text(out) /\ ops \in Seq(GoodOps) /\ writing \in 0 .. Len(arenas) + 1

\* The inductive invariant.
EInv == LInv /\ RootGood(lower) /\ RootsGood(arenas) /\ OInv

\* What the children of a node are.
LEMMA ChildrenAre ==
  ASSUME NEW node \in AllNodes
  PROVE  /\ node.kind = "mapping" =>
              /\ node.parts \in Seq(EntryParts)
              /\ \A i \in DOMAIN node.parts :
                   /\ node.parts[i] \in EntryParts
                   /\ node.parts[i].value \in ToSet(Children(node))
                   /\ node.parts[i].form = "node" => node.parts[i].node \in ToSet(Children(node))
         /\ node.kind # "mapping" =>
              /\ node.parts \in Seq(Nat)
              /\ \A i \in DOMAIN node.parts : node.parts[i] \in ToSet(Children(node))
<1>1. CASE node.kind = "mapping"
  <2> DEFINE parts == node.parts
             Named(e) == IF e.form = "node" THEN <<e.node, e.value>> ELSE <<e.value>>
             ss == [i \in DOMAIN parts |-> Named(parts[i])]
             n == Len(parts)
  <2>1. parts \in Seq(EntryParts)
    BY <1>1 DEF AllNodes, NodesOf
  <2>2. n \in Nat /\ DOMAIN parts = 1 .. n /\ \A i \in 1 .. n : parts[i] \in EntryParts
    BY <2>1
  <2>3. Children(node) = FlattenSeq(ss)
    BY <1>1 DEF Children
  <2> HIDE DEF parts, n
  <2>4. ASSUME NEW e \in EntryParts
        PROVE  /\ Named(e) \in Seq(Nat) /\ e.value \in ToSet(Named(e))
               /\ e.form = "node" => e.node \in ToSet(Named(e))
    <3>1. e.value \in Nat /\ e.node \in Nat
      BY DEF EntryParts
    <3>2. CASE e.form = "node"
      <4>1. Named(e) = <<e.node, e.value>>
        BY <3>2
      <4>2. ToSet(<<e.node, e.value>>) = {e.node, e.value}
        BY RangeOfTwo
      <4> HIDE DEF Named
      <4>3. QED
        BY <3>1, <4>1, <4>2
    <3>3. CASE e.form # "node"
      <4>1. Named(e) = <<e.value>>
        BY <3>3
      <4>2. ToSet(<<e.value>>) = {e.value}
        BY RangeOfOne
      <4> HIDE DEF Named
      <4>3. QED
        BY <3>1, <3>3, <4>1, <4>2
    <3>4. QED
      BY <3>2, <3>3
  <2> HIDE DEF Named
  <2>5. ss \in [1 .. n -> Seq(Nat)] /\ \A i \in 1 .. n : ss[i] = Named(parts[i])
    BY <2>2, <2>4
  <2> HIDE DEF ss
  <2>6. ss \in Seq(Seq(Nat)) /\ Len(ss) = n
    BY <2>2, <2>5, FunctionIsSeq
  <2>7. ToSet(FlattenSeq(ss)) = UNION {ToSet(ss[i]) : i \in 1 .. Len(ss)}
    BY <2>6, FlattenRange
  <2>8. \A i \in 1 .. n : ToSet(ss[i]) \subseteq ToSet(Children(node))
    BY <2>3, <2>6, <2>7
  <2>9. ASSUME NEW i \in 1 .. n
        PROVE  /\ parts[i] \in EntryParts /\ parts[i].value \in ToSet(Children(node))
               /\ parts[i].form = "node" => parts[i].node \in ToSet(Children(node))
    <3>1. parts[i] \in EntryParts
      BY <2>2
    <3>2. ToSet(Named(parts[i])) \subseteq ToSet(Children(node))
      BY <2>5, <2>8
    <3>3. QED
      BY <3>1, <3>2, <2>4
  <2>10. QED
    BY <1>1, <2>1, <2>2, <2>9 DEF parts
<1>2. CASE node.kind # "mapping"
  <2>1. node.parts \in Seq(Nat)
    BY <1>2 DEF AllNodes, NodesOf
  <2>2. Children(node) = node.parts
    BY <1>2 DEF Children
  <2>3. QED
    BY <1>2, <2>1, <2>2 DEF ToSet
<1>3. QED
  BY <1>1, <1>2

(***************************************************************************)
(* The operations find their nodes.                                        *)
(***************************************************************************)
\* The nodes of the document that is being written.
InArena(id) == writing \in DOMAIN arenas /\ id \in DOMAIN Arena.nodes

\* A place in the arena holds a node, and the children of a node have a place.
LEMMA NodeAt ==
  ASSUME LInv, NEW id, InArena(id)
  PROVE  At(id) \in AllNodes
<1>1. arenas \in Seq(Documents) /\ writing \in DOMAIN arenas
  BY DEF LInv, InArena
<1>2. Arena \in Documents
  BY <1>1, ElementOfSeq DEF Arena
<1>3. Arena.nodes \in Seq(AllNodes)
  BY <1>2 DEF Documents
<1>4. QED
  BY <1>3, ElementOfSeq DEF At, InArena

LEMMA ChildAt ==
  ASSUME LInv, NEW id, InArena(id), NEW c \in ToSet(Children(At(id)))
  PROVE  InArena(c)
<1>1. arenas \in Seq(Documents) /\ writing \in DOMAIN arenas
  BY DEF LInv, InArena
<1>2. Arena \in Documents
  BY <1>1, ElementOfSeq DEF Arena
<1>3. Arena.nodes \in Seq(AllNodes)
  BY <1>2 DEF Documents
<1>4. id \in 1 .. Len(Arena.nodes) /\ DOMAIN Arena.nodes = 1 .. Len(Arena.nodes) /\ Len(Arena.nodes) \in Nat
  BY <1>3 DEF InArena
<1>5. IsTree(Arena.nodes, Arena.root)
  BY <1>1 DEF LInv, Arena
<1>6. c \in 1 .. id - 1
  BY <1>4, <1>5 DEF IsTree, At
<1>7. QED
  BY <1>1, <1>4, <1>6 DEF InArena

\* Operations that find their node.
LEMMA OpIs ==
  ASSUME NEW op, NEW id, NEW index, NEW indent
  PROVE  /\ Op(op, id, index, indent).op = op /\ Op(op, id, index, indent).id = id
         /\ Op(op, id, index, indent).index = index /\ Op(op, id, index, indent).indent = indent
BY DEF Op

LEMMA OpType ==
  ASSUME NEW op \in OpNames, NEW id \in Nat, NEW index \in Nat, NEW indent \in Nat
  PROVE  Op(op, id, index, indent) \in AllOps
BY DEF Op, AllOps

\* A place in the arena is a number.
LEMMA InArenaNat ==
  ASSUME LInv, NEW id, InArena(id)
  PROVE  id \in Nat
<1>1. arenas \in Seq(Documents) /\ writing \in DOMAIN arenas
  BY DEF LInv, InArena
<1>2. Arena \in Documents
  BY <1>1, ElementOfSeq DEF Arena
<1>3. Arena.nodes \in Seq(AllNodes)
  BY <1>2 DEF Documents
<1>4. QED
  BY <1>3 DEF InArena

\* Those that need none.
LEMMA TextOps ==
  ASSUME NEW n \in Nat
  PROVE  /\ Close("]") \in GoodOps /\ Close("}") \in GoodOps /\ Close("flow colon") \in GoodOps
         /\ Strip \in GoodOps /\ Colon(n) \in GoodOps
<1>1. ASSUME NEW o \in {"]", "}", "strip", "colon", "flow colon"}, NEW m \in Nat
      PROVE  Op(o, 0, 0, m) \in GoodOps
  <2>1. o \in OpNames /\ o \notin MappingOps \cup SequenceOps \cup {"Node", "NodeInline", "FinishLine"}
    BY DEF OpNames, MappingOps, SequenceOps
  <2>2. Op(o, 0, 0, m) \in AllOps
    BY <2>1, OpType
  <2>3. Op(o, 0, 0, m).op = o
    BY DEF Op
  <2>4. o # "MappingValue"
    OBVIOUS
  <2>5. FindsItsNode(Op(o, 0, 0, m))
    BY <2>1, <2>3, <2>4 DEF FindsItsNode
  <2>6. QED
    BY <2>2, <2>5 DEF GoodOps
<1>2. QED
  BY <1>1 DEF Close, Strip, Colon

\* Those that work on any node.
LEMMA NodeOps ==
  ASSUME LInv, NEW id, InArena(id), NEW n \in Nat
  PROVE  /\ Op("Node", id, 0, n) \in GoodOps /\ Op("NodeInline", id, 0, n) \in GoodOps
         /\ Op("FinishLine", id, 0, n) \in GoodOps
<1>1. ASSUME NEW o \in {"Node", "NodeInline", "FinishLine"}
      PROVE  Op(o, id, 0, n) \in GoodOps
  <2>1. o \in OpNames /\ o \notin MappingOps \cup SequenceOps /\ o # "MappingValue"
    BY DEF OpNames, MappingOps, SequenceOps
  <2>2. Op(o, id, 0, n) \in AllOps
    BY <2>1, OpType, InArenaNat
  <2>3. Op(o, id, 0, n).op = o /\ Op(o, id, 0, n).id = id
    BY OpIs
  <2>4. FindsItsNode(Op(o, id, 0, n))
    BY <2>1, <2>3 DEF FindsItsNode, InArena
  <2>5. QED
    BY <2>2, <2>4 DEF GoodOps
<1>2. QED
  BY <1>1

\* Those that work on a mapping, and on a sequence.
LEMMA MappingOpsFind ==
  ASSUME LInv, NEW id, InArena(id), At(id).kind = "mapping", NEW index \in Nat, NEW n \in Nat,
         NEW o \in MappingOps, o = "MappingValue" => index \in DOMAIN At(id).parts
  PROVE  Op(o, id, index, n) \in GoodOps
<1>1. o \in OpNames /\ o \notin SequenceOps
  BY DEF OpNames, MappingOps, SequenceOps
<1>2. Op(o, id, index, n) \in AllOps
  BY <1>1, OpType, InArenaNat
<1>3. Op(o, id, index, n).op = o /\ Op(o, id, index, n).id = id /\ Op(o, id, index, n).index = index
  BY OpIs
<1>4. FindsItsNode(Op(o, id, index, n))
  BY <1>1, <1>3 DEF FindsItsNode, InArena
<1>5. QED
  BY <1>2, <1>4 DEF GoodOps

LEMMA SequenceOpsFind ==
  ASSUME LInv, NEW id, InArena(id), At(id).kind = "sequence", NEW index \in Nat, NEW n \in Nat,
         NEW o \in SequenceOps
  PROVE  Op(o, id, index, n) \in GoodOps
<1>1. o \in OpNames /\ o \notin MappingOps /\ o # "MappingValue"
  BY DEF OpNames, MappingOps, SequenceOps
<1>2. Op(o, id, index, n) \in AllOps
  BY <1>1, OpType, InArenaNat
<1>3. Op(o, id, index, n).op = o /\ Op(o, id, index, n).id = id
  BY OpIs
<1>4. FindsItsNode(Op(o, id, index, n))
  BY <1>1, <1>3 DEF FindsItsNode, InArena
<1>5. QED
  BY <1>2, <1>4 DEF GoodOps

\* The names of the operations, for the two lemmas above.
LEMMA OpKinds ==
  /\ "Mapping" \in MappingOps /\ "MappingEntry" \in MappingOps /\ "MappingValue" \in MappingOps
  /\ "MappingInlineFirst" \in MappingOps /\ "MappingFlow" \in MappingOps
  /\ "MappingFlowEntry" \in MappingOps
  /\ "Sequence" \in SequenceOps /\ "SequenceItem" \in SequenceOps
  /\ "SequenceInlineFirst" \in SequenceOps /\ "SequenceFlow" \in SequenceOps
  /\ "SequenceFlowItem" \in SequenceOps
BY DEF MappingOps, SequenceOps

\* Those that write a collection.
LEMMA CollectionOps ==
  ASSUME LInv, NEW id, InArena(id), IsCollection(At(id)), NEW n \in Nat
  PROVE  Whole(At(id), id, n) \in GoodOps /\ InFlow(At(id), id) \in GoodOps
<1>1. 0 \in Nat /\ 1 \in Nat
  OBVIOUS
<1>2. CASE At(id).kind = "mapping"
  <2>1. Whole(At(id), id, n) = Op("Mapping", id, 0, n) /\ InFlow(At(id), id) = Op("MappingFlow", id, 1, 0)
    BY <1>2 DEF Whole, InFlow
  <2>2. "Mapping" # "MappingValue" /\ "MappingFlow" # "MappingValue"
    OBVIOUS
  <2>3. Op("Mapping", id, 0, n) \in GoodOps /\ Op("MappingFlow", id, 1, 0) \in GoodOps
    BY <1>1, <1>2, <2>2, OpKinds, MappingOpsFind
  <2>4. QED
    BY <2>1, <2>3
<1>3. CASE At(id).kind = "sequence"
  <2>1. Whole(At(id), id, n) = Op("Sequence", id, 0, n) /\ InFlow(At(id), id) = Op("SequenceFlow", id, 1, 0)
    BY <1>3 DEF Whole, InFlow
  <2>2. Op("Sequence", id, 0, n) \in GoodOps /\ Op("SequenceFlow", id, 1, 0) \in GoodOps
    BY <1>1, <1>3, OpKinds, SequenceOpsFind
  <2>3. QED
    BY <2>1, <2>2
<1>4. QED
  BY <1>2, <1>3 DEF IsCollection

\* The operation at hand.
LEMMA NowIs ==
  ASSUME OInv, NEW op, Doing(op)
  PROVE  Now \in GoodOps /\ Now.op = op /\ Front(ops) \in Seq(GoodOps) /\ Now \in AllOps
<1>1. ops \in Seq(GoodOps) /\ ops # <<>> /\ Now.op = op
  BY DEF OInv, Doing
<1>2. Len(ops) \in 1 .. Len(ops)
  BY <1>1
<1>3. Now \in GoodOps
  BY <1>1, <1>2, ElementOfSeq DEF Now, Last
<1>4. Front(ops) \in Seq(GoodOps)
  BY <1>1, FrontIs
<1>5. QED
  BY <1>1, <1>3, <1>4 DEF GoodOps

\* What it finds.
LEMMA NowFinds ==
  ASSUME OInv, NEW op \in MappingOps \cup SequenceOps \cup {"Node", "NodeInline", "FinishLine"}, Doing(op)
  PROVE  /\ InArena(Now.id) /\ Now.id \in Nat /\ Now.index \in Nat /\ Now.indent \in Nat
         /\ op \in MappingOps => At(Now.id).kind = "mapping"
         /\ op = "MappingValue" => Now.index \in DOMAIN At(Now.id).parts
         /\ op \in SequenceOps => At(Now.id).kind = "sequence"
<1>1. Now \in AllOps /\ FindsItsNode(Now) /\ Now.op = op
  BY NowIs DEF GoodOps
<1>2. Now.id \in Nat /\ Now.index \in Nat /\ Now.indent \in Nat
  BY <1>1 DEF AllOps
<1>3. QED
  BY <1>1, <1>2 DEF FindsItsNode, InArena

\* The operations find the same while the documents stay.
LEMMA SameOps ==
  ASSUME UNCHANGED <<avars, writing>>
  PROVE  GoodOps' = GoodOps
BY DEF GoodOps, FindsItsNode, At, Arena, avars

\* An operation is replaced by others that find their nodes.
LEMMA ThenKeeps ==
  ASSUME EInv, ops # <<>>, NEW text, Text(text), NEW next \in Seq(GoodOps), Then(text, next)
  PROVE  EInv' /\ UNCHANGED avars
<1>1. UNCHANGED <<avars, writing>> /\ out' = text /\ ops' = Front(ops) \o Reverse(next)
  BY DEF Then
<1>2. LInv' /\ RootGood(lower)' /\ RootsGood(arenas)'
  <2>1. UNCHANGED <<setting, left, count, lower, arenas>>
    BY <1>1 DEF avars
  <2>2. QED
    BY <2>1 DEF EInv, LInv
<1>3. Front(ops) \in Seq(GoodOps)
  <2>1. ops \in Seq(GoodOps)
    BY DEF EInv, OInv
  <2>2. QED
    BY <2>1, FrontIs
<1>4. Reverse(next) \in Seq(GoodOps)
  BY ReverseIs
<1>5. ops' \in Seq(GoodOps)
  BY <1>1, <1>3, <1>4, ConcatProperties
<1>6. writing' \in 0 .. Len(arenas') + 1
  BY <1>1 DEF avars, EInv, OInv
<1>7. Text(out)'
  BY <1>1 DEF Text
<1>8. OInv'
  BY <1>1, <1>5, <1>6, <1>7, SameOps DEF OInv
<1>9. QED
  BY <1>1, <1>2, <1>8 DEF EInv

(***************************************************************************)
(* The operations keep the invariant.                                      *)
(***************************************************************************)
\* An operation keeps the invariant.
LEMMA OpKeeps ==
  ASSUME EInv, NEW op, Doing(op), NEW text, Text(text), NEW next \in Seq(GoodOps), Then(text, next)
  PROVE  EInv'
BY ThenKeeps DEF Doing

\* What the invariant says of the state.
LEMMA InvParts ==
  ASSUME EInv
  PROVE  /\ LInv /\ OInv /\ Text(out) /\ setting \in Settings /\ setting.step \in Nat
         /\ <<>> \in Seq(GoodOps)
<1>1. LInv /\ OInv /\ Text(out) /\ setting \in Settings
  BY DEF EInv, OInv, LInv
<1>2. QED
  BY <1>1, NamesType

\* The operations on the text alone.
LEMMA TextOpsKeep ==
  ASSUME EInv, DoWrite \/ DoFinishLine \/ DoStrip \/ DoColon \/ DoFlowColon
  PROVE  EInv'
<1>1. Text(out) /\ OInv /\ <<>> \in Seq(GoodOps) /\ 1 \in Nat /\ 2 \in Nat
  BY InvParts
<1>2. CASE DoWrite
  <2>1. PICK b \in {"]", "}"} : Doing(b) /\ Then(Write(out, b, 1), <<>>)
    BY <1>2 DEF DoWrite
  <2>2. Text(Write(out, b, 1))
    BY <1>1, TextPiece
  <2>3. QED
    BY <1>1, <2>1, <2>2, OpKeeps
<1>3. CASE DoFinishLine
  <2>1. Doing("FinishLine") /\ Then(FinishLine(out, At(Now.id)), <<>>)
    BY <1>3 DEF DoFinishLine
  <2>2. Text(FinishLine(out, At(Now.id)))
    BY <1>1, TextInline
  <2>3. QED
    BY <1>1, <2>1, <2>2, OpKeeps
<1>4. CASE DoStrip
  <2>1. PICK text : text = (IF Last(out) = <<>> THEN Front(out) ELSE out)
                    /\ Doing("strip") /\ Then(text, <<>>)
    BY <1>4 DEF DoStrip
  <2>2. Text(text)
    BY <1>1, <2>1, TextFront
  <2>3. QED
    BY <1>1, <2>1, <2>2, OpKeeps
<1>5. CASE DoColon
  <2>1. Doing("colon") /\ Then(Write(Indent(NewLine(out), Now.indent), ":", 1), <<>>)
    BY <1>5 DEF DoColon
  <2>2. Now.indent \in Nat
    BY <1>1, <2>1, NowIs DEF AllOps
  <2>3. Text(Indent(NewLine(out), Now.indent))
    BY <1>1, <2>2, TextNewLine, TextIndent
  <2>4. Text(Write(Indent(NewLine(out), Now.indent), ":", 1))
    BY <1>1, <2>3, TextPiece
  <2>5. QED
    BY <1>1, <2>1, <2>4, OpKeeps
<1>6. CASE DoFlowColon
  <2>1. Doing("flow colon") /\ Then(Write(out, ":", 2), <<>>)
    BY <1>6 DEF DoFlowColon
  <2>2. Text(Write(out, ":", 2))
    BY <1>1, TextPiece
  <2>3. QED
    BY <1>1, <2>1, <2>2, OpKeeps
<1>7. QED
  BY <1>2, <1>3, <1>4, <1>5, <1>6

\* What an operation has at hand.
LEMMA Working ==
  ASSUME EInv, NEW op \in MappingOps \cup SequenceOps \cup {"Node", "NodeInline", "FinishLine"}, Doing(op)
  PROVE  /\ InArena(Now.id) /\ Now.id \in Nat /\ Now.index \in Nat /\ Now.indent \in Nat
         /\ At(Now.id) \in AllNodes
         /\ op \in MappingOps => At(Now.id).kind = "mapping"
         /\ op = "MappingValue" => Now.index \in DOMAIN At(Now.id).parts
         /\ op \in SequenceOps => At(Now.id).kind = "sequence"
BY InvParts, NowFinds, NodeAt

\* The kinds of nodes.
LEMMA NodeKinds ==
  ASSUME NEW node \in AllNodes
  PROVE  /\ node.kind \in {"mapping", "scalar", "block", "null", "alias", "sequence"}
         /\ node.flow \in BOOLEAN /\ node.before \in BOOLEAN /\ node.inline \in BOOLEAN
BY DEF AllNodes, NodesOf

\* Node and NodeInline.
LEMMA NodeKeeps ==
  ASSUME EInv, DoNode
  PROVE  EInv'
<1> DEFINE id == Now.id
           node == At(Now.id)
<1>1. Doing("Node") /\ "Node" \in MappingOps \cup SequenceOps \cup {"Node", "NodeInline", "FinishLine"}
  BY DEF DoNode
<1>2. InArena(id) /\ id \in Nat /\ Now.indent \in Nat /\ node \in AllNodes /\ 0 \in Nat
  BY <1>1, Working
<1>3. LInv /\ OInv /\ Text(out) /\ setting \in Settings /\ <<>> \in Seq(GoodOps)
  BY InvParts
<1>4. CASE node.kind = "mapping"
  <2>1. Then(out, <<Op("Mapping", id, 0, Now.indent)>>)
    BY <1>4 DEF DoNode
  <2>2. Op("Mapping", id, 0, Now.indent) \in GoodOps
    BY <1>2, <1>3, <1>4, OpKinds, MappingOpsFind
  <2>3. <<Op("Mapping", id, 0, Now.indent)>> \in Seq(GoodOps)
    BY <2>2
  <2>4. QED
    BY <1>1, <1>3, <2>1, <2>3, OpKeeps
<1>5. CASE node.kind = "sequence"
  <2>1. Then(out, <<Op("Sequence", id, 0, Now.indent)>>)
    BY <1>5 DEF DoNode
  <2>2. Op("Sequence", id, 0, Now.indent) \in GoodOps
    BY <1>2, <1>3, <1>5, OpKinds, SequenceOpsFind
  <2>3. <<Op("Sequence", id, 0, Now.indent)>> \in Seq(GoodOps)
    BY <2>2
  <2>4. QED
    BY <1>1, <1>3, <2>1, <2>3, OpKeeps
<1>6. CASE node.kind = "alias"
  <2>1. Then(Alias(out, node.name, node.from), <<>>)
    BY <1>6 DEF DoNode
  <2>2. Text(Alias(out, node.name, node.from))
    BY <1>3, TextAlias
  <2>3. QED
    BY <1>1, <1>3, <2>1, <2>2, OpKeeps
<1>7. CASE node.kind \notin {"mapping", "sequence", "alias"}
  <2>1. Then(Scalar(out, node, Now.indent, FALSE), <<>>)
    BY <1>7 DEF DoNode
  <2>2. \A b : Text(Scalar(out, node, Now.indent, b))
    BY <1>2, <1>3, TextScalar
  <2>3. Text(Scalar(out, node, Now.indent, FALSE))
    BY <2>2
  <2>4. QED
    BY <1>1, <1>3, <2>1, <2>3, OpKeeps
<1>8. QED
  BY <1>4, <1>5, <1>6, <1>7

LEMMA NodeInlineKeeps ==
  ASSUME EInv, DoNodeInline
  PROVE  EInv'
<1> DEFINE whole == Op("Node", Now.id, 0, Now.indent)
<1>1. /\ Doing("NodeInline")
      /\ "NodeInline" \in MappingOps \cup SequenceOps \cup {"Node", "NodeInline", "FinishLine"}
  BY DEF DoNodeInline
<1>2. InArena(Now.id) /\ Now.indent \in Nat /\ 0 \in Nat
  BY <1>1, Working
<1>3. LInv /\ Text(out)
  BY InvParts
<1>4. whole \in GoodOps /\ Strip \in GoodOps
  BY <1>2, <1>3, NodeOps, TextOps
<1>5. Then(out, <<whole, Strip>>) \/ Then(out, <<whole>>)
  BY DEF DoNodeInline
<1> HIDE DEF whole
<1>6. <<whole, Strip>> \in Seq(GoodOps) /\ <<whole>> \in Seq(GoodOps)
  BY <1>4
<1>7. QED
  BY <1>1, <1>3, <1>5, <1>6, OpKeeps

\* A whole collection.
LEMMA CollectionKeeps ==
  ASSUME EInv, NEW kind, NEW empty, NEW flow, NEW first, Collection(kind, empty, flow, first),
         \/ /\ kind \in MappingOps /\ {flow, first} \subseteq MappingOps \ {"MappingValue"}
         \/ kind \in SequenceOps /\ {flow, first} \subseteq SequenceOps
  PROVE  EInv'
<1> DEFINE id == Now.id
           node == At(Now.id)
           anchored == IF Now.indent = 0 /\ node.anchor # None THEN NewLine(Anchor(out, node.anchor))
                       ELSE out
           bare == NewLine(Put(anchored, Piece(empty, 2, node.from)))
<1>1. Doing(kind)
  BY DEF Collection
<1>2. InArena(id) /\ id \in Nat /\ Now.indent \in Nat /\ 0 \in Nat /\ 1 \in Nat /\ 2 \in Nat
  BY <1>1, Working
<1>3. LInv /\ Text(out) /\ <<>> \in Seq(GoodOps)
  BY InvParts
<1>4. Text(anchored)
  <2>1. Text(NewLine(Anchor(out, node.anchor)))
    BY <1>3, TextAnchor, TextNewLine
  <2>2. QED
    BY <1>3, <2>1
<1>5. \/ Then(out, <<Op(flow, id, 1, 0)>>) \/ Then(bare, <<>>)
      \/ Then(anchored, <<Op(first, id, 1, Now.indent)>>)
  BY DEF Collection
<1>6. Op(flow, id, 1, 0) \in GoodOps /\ Op(first, id, 1, Now.indent) \in GoodOps
  <2>1. CASE kind \in MappingOps /\ {flow, first} \subseteq MappingOps \ {"MappingValue"}
    <3>1. At(id).kind = "mapping"
      BY <1>1, <2>1, Working
    <3>2. flow \in MappingOps /\ first \in MappingOps /\ flow # "MappingValue" /\ first # "MappingValue"
      BY <2>1
    <3>3. QED
      BY <1>2, <1>3, <3>1, <3>2, MappingOpsFind
  <2>2. CASE kind \in SequenceOps /\ {flow, first} \subseteq SequenceOps
    <3>1. At(id).kind = "sequence"
      BY <1>1, <2>2, Working
    <3>2. flow \in SequenceOps /\ first \in SequenceOps
      BY <2>2
    <3>3. QED
      BY <1>2, <1>3, <3>1, <3>2, SequenceOpsFind
  <2>3. QED
    BY <2>1, <2>2
<1> HIDE DEF anchored
<1>7. Text(bare)
  BY <1>2, <1>4, TextPiece, TextNewLine
<1> HIDE DEF bare
<1>8. <<Op(flow, id, 1, 0)>> \in Seq(GoodOps) /\ <<Op(first, id, 1, Now.indent)>> \in Seq(GoodOps)
  BY <1>6
<1>9. QED
  BY <1>1, <1>3, <1>4, <1>5, <1>7, <1>8, OpKeeps

\* Mapping and Sequence.
LEMMA WholeCollectionsKeep ==
  ASSUME EInv, DoMapping \/ DoSequence
  PROVE  EInv'
<1>1. CASE DoMapping
  <2>1. Collection("Mapping", "{}", "MappingFlow", "MappingEntry")
    BY <1>1 DEF DoMapping
  <2>2. "Mapping" \in MappingOps /\ {"MappingFlow", "MappingEntry"} \subseteq MappingOps \ {"MappingValue"}
    BY DEF MappingOps
  <2>3. QED
    BY <2>1, <2>2, CollectionKeeps
<1>2. CASE DoSequence
  <2>1. Collection("Sequence", "[]", "SequenceFlow", "SequenceItem")
    BY <1>2 DEF DoSequence
  <2>2. "Sequence" \in SequenceOps /\ {"SequenceFlow", "SequenceItem"} \subseteq SequenceOps
    BY DEF SequenceOps
  <2>3. QED
    BY <2>1, <2>2, CollectionKeeps
<1>3. QED
  BY <1>1, <1>2

\* MappingFlow and SequenceFlow.
LEMMA FlowStartKeeps ==
  ASSUME EInv, NEW kind, NEW open, NEW bracket, NEW first, FlowStart(kind, open, bracket, first),
         Close(bracket) \in GoodOps,
         \/ kind \in MappingOps /\ first \in MappingOps \ {"MappingValue"}
         \/ kind \in SequenceOps /\ first \in SequenceOps
  PROVE  EInv'
<1> DEFINE id == Now.id
           node == At(Now.id)
           text == Put(Anchor(out, node.anchor), Piece(open, 1, node.from))
           next == Op(first, id, 1, 0)
<1>1. Doing(kind) /\ Then(text, <<next, Close(bracket)>>)
  BY DEF FlowStart
<1>2. InArena(id) /\ id \in Nat /\ 0 \in Nat /\ 1 \in Nat
  BY <1>1, Working
<1>3. LInv /\ Text(out)
  BY InvParts
<1>4. Text(text)
  BY <1>2, <1>3, TextAnchor, TextPiece
<1>5. next \in GoodOps
  <2>1. CASE kind \in MappingOps /\ first \in MappingOps \ {"MappingValue"}
    <3>1. At(id).kind = "mapping" /\ first \in MappingOps /\ first # "MappingValue"
      BY <1>1, <2>1, Working
    <3>2. QED
      BY <1>2, <1>3, <3>1, MappingOpsFind
  <2>2. CASE kind \in SequenceOps /\ first \in SequenceOps
    <3>1. At(id).kind = "sequence"
      BY <1>1, <2>2, Working
    <3>2. QED
      BY <1>2, <1>3, <2>2, <3>1, SequenceOpsFind
  <2>3. QED
    BY <2>1, <2>2
<1> HIDE DEF text, next
<1>6. <<next, Close(bracket)>> \in Seq(GoodOps)
  BY <1>5
<1>7. QED
  BY <1>1, <1>4, <1>6, OpKeeps

LEMMA FlowStartsKeep ==
  ASSUME EInv, DoMappingFlow \/ DoSequenceFlow
  PROVE  EInv'
<1>1. 0 \in Nat
  OBVIOUS
<1>2. Close("]") \in GoodOps /\ Close("}") \in GoodOps
  BY <1>1, TextOps
<1>3. CASE DoMappingFlow
  <2>1. FlowStart("MappingFlow", "{", "}", "MappingFlowEntry")
    BY <1>3 DEF DoMappingFlow
  <2>2. "MappingFlow" \in MappingOps /\ "MappingFlowEntry" \in MappingOps \ {"MappingValue"}
    BY DEF MappingOps
  <2>3. QED
    BY <1>2, <2>1, <2>2, FlowStartKeeps
<1>4. CASE DoSequenceFlow
  <2>1. FlowStart("SequenceFlow", "[", "]", "SequenceFlowItem")
    BY <1>4 DEF DoSequenceFlow
  <2>2. "SequenceFlow" \in SequenceOps /\ "SequenceFlowItem" \in SequenceOps
    BY DEF SequenceOps
  <2>3. QED
    BY <1>2, <2>1, <2>2, FlowStartKeeps
<1>5. QED
  BY <1>3, <1>4

\* A key that is a node leads to five operations.
LEMMA FiveOf ==
  ASSUME NEW S, NEW a \in S, NEW b \in S, NEW c \in S, NEW d \in S, NEW e \in S
  PROVE  <<a, b, c, d, e>> \in Seq(S)
OBVIOUS

\* The operation at hand as the code pushes it again.
LEMMA NowAgain ==
  ASSUME OInv, NEW op, Doing(op)
  PROVE  /\ Again = Op(op, Now.id, Now.index + 1, Now.indent)
         /\ ValueOp = Op("MappingValue", Now.id, Now.index, Now.indent)
<1>1. Now \in AllOps /\ Now.op = op
  BY NowIs
<1>2. PICK x \in AllOps : x = Now
  BY <1>1
<1>3. x = [op |-> op, id |-> x.id, index |-> x.index, indent |-> x.indent]
  BY <1>1, <1>2 DEF AllOps
<1>4. [x EXCEPT !.index = x.index + 1] = [op |-> op, id |-> x.id, index |-> x.index + 1, indent |-> x.indent]
  BY <1>3
<1>5. [x EXCEPT !.op = "MappingValue"] = [op |-> "MappingValue", id |-> x.id, index |-> x.index, indent |-> x.indent]
  BY <1>3
<1>6. QED
  BY <1>2, <1>4, <1>5 DEF Again, ValueOp, Op

\* Pushed again, it finds its node.
LEMMA AgainFinds ==
  ASSUME EInv, NEW op \in (MappingOps \ {"MappingValue"}) \cup SequenceOps, Doing(op)
  PROVE  Again \in GoodOps
<1>1. LInv /\ OInv
  BY InvParts
<1>2. /\ InArena(Now.id) /\ Now.id \in Nat /\ Now.indent \in Nat /\ Now.index + 1 \in Nat
      /\ op \in MappingOps => At(Now.id).kind = "mapping"
      /\ op \in SequenceOps => At(Now.id).kind = "sequence"
  BY Working
<1>3. Again = Op(op, Now.id, Now.index + 1, Now.indent)
  BY <1>1, NowAgain
<1>4. CASE op \in MappingOps /\ op # "MappingValue"
  BY <1>1, <1>2, <1>3, <1>4, MappingOpsFind
<1>5. CASE op \in SequenceOps
  BY <1>1, <1>2, <1>3, <1>5, SequenceOpsFind
<1>6. QED
  BY <1>4, <1>5

\* An entry of a mapping, and what of it is in the arena.
LEMMA EntryIs ==
  ASSUME LInv, NEW id, InArena(id), At(id).kind = "mapping", NEW i \in DOMAIN At(id).parts
  PROVE  /\ At(id).parts[i] \in EntryParts /\ InArena(At(id).parts[i].value)
         /\ At(id).parts[i].form = "node" => InArena(At(id).parts[i].node)
<1>1. At(id) \in AllNodes
  BY NodeAt
<1>2. PICK node \in AllNodes : node = At(id)
  BY <1>1
<1>3. /\ node.parts[i] \in EntryParts /\ node.parts[i].value \in ToSet(Children(node))
      /\ node.parts[i].form = "node" => node.parts[i].node \in ToSet(Children(node))
  BY <1>2, ChildrenAre
<1>4. QED
  BY <1>2, <1>3, ChildAt

\* An item of a sequence.
LEMMA ItemIs ==
  ASSUME LInv, NEW id, InArena(id), At(id).kind = "sequence", NEW i \in DOMAIN At(id).parts
  PROVE  InArena(At(id).parts[i])
<1>1. At(id) \in AllNodes
  BY NodeAt
<1>2. PICK node \in AllNodes : node = At(id)
  BY <1>1
<1>3. node.kind # "mapping"
  BY <1>2
<1>4. node.parts[i] \in ToSet(Children(node))
  BY <1>2, <1>3, ChildrenAre
<1>5. QED
  BY <1>2, <1>4, ChildAt

\* A collection whose entries are done.
LEMMA DoneWithKeeps ==
  ASSUME EInv, NEW op, DoneWith(op)
  PROVE  EInv'
<1>1. Doing(op) /\ Then(out, <<>>)
  BY DEF DoneWith
<1>2. QED
  BY <1>1, InvParts, OpKeeps

\* The entry of a mapping that is to be written.
LEMMA EntryAtHand ==
  ASSUME EInv, NEW op \in MappingOps \ {"MappingValue"}, Doing(op), MoreEntries
  PROVE  /\ At(Now.id).parts[Now.index] \in EntryParts
         /\ InArena(At(Now.id).parts[Now.index].value)
         /\ At(Now.id).parts[Now.index].form = "node" => InArena(At(Now.id).parts[Now.index].node)
         /\ ValueOp \in GoodOps /\ Again \in GoodOps
         /\ At(Now.id).parts[Now.index].value \in Nat
<1>1. LInv /\ OInv
  BY InvParts
<1>2. /\ InArena(Now.id) /\ Now.id \in Nat /\ Now.indent \in Nat /\ Now.index \in Nat
      /\ At(Now.id).kind = "mapping" /\ Now.index \in DOMAIN At(Now.id).parts
  BY Working DEF MoreEntries
<1>3. /\ At(Now.id).parts[Now.index] \in EntryParts
      /\ InArena(At(Now.id).parts[Now.index].value)
      /\ At(Now.id).parts[Now.index].form = "node" => InArena(At(Now.id).parts[Now.index].node)
  BY <1>1, <1>2, EntryIs
<1>4. ValueOp = Op("MappingValue", Now.id, Now.index, Now.indent)
  BY <1>1, NowAgain
<1>5. Op("MappingValue", Now.id, Now.index, Now.indent) \in GoodOps
  BY <1>1, <1>2, OpKinds, MappingOpsFind
<1>6. Again \in GoodOps
  BY AgainFinds
<1>7. QED
  BY <1>1, <1>3, <1>4, <1>5, <1>6, InArenaNat

\* MappingEntry and MappingFlowEntry.
LEMMA MappingEntryKeeps ==
  ASSUME EInv, DoMappingEntry
  PROVE  EInv'
<1>1. CASE DoneWith("MappingEntry")
  BY <1>1, DoneWithKeeps
<1>2. CASE ~DoneWith("MappingEntry")
  <2> DEFINE key == At(Now.id).parts[Now.index]
             start == Indent(CommentBefore(out, At(key.value), Now.indent), Now.indent)
             from == At(Now.id).from
             asked == Put(start, Piece("?", 2, from))
             text == IF IsBlock(At(key.node)) THEN NewLine(asked) ELSE asked
             inner == Op("Node", key.node, 0, Now.indent + setting.step)
  <2>1. Doing("MappingEntry") /\ MoreEntries
    BY <1>2 DEF DoMappingEntry
  <2>2. "MappingEntry" \in MappingOps \ {"MappingValue"} /\ 2 \in Nat
    BY DEF MappingOps
  <2>3. LInv /\ OInv /\ Text(out) /\ setting \in Settings /\ setting.step \in Nat
    BY InvParts
  <2>4. Now.indent \in Nat
    BY <2>1, <2>2, Working
  <2>5. Text(start)
    BY <2>3, <2>4, TextBefore
  <2>6. key \in EntryParts /\ ValueOp \in GoodOps /\ Again \in GoodOps
        /\ (key.form = "node" => InArena(key.node))
    BY <2>1, <2>2, EntryAtHand
  <2>7. Colon(Now.indent) \in GoodOps /\ Strip \in GoodOps
    BY <2>4, TextOps
  <2>8. \/ key.form = "node" /\ Then(text, <<inner, Strip, Colon(Now.indent), ValueOp, Again>>)
        \/ Then(Key(start, key, from, Now.indent), <<ValueOp, Again>>)
    BY <1>2 DEF DoMappingEntry
  <2> HIDE DEF start, from
  <2>9. Text(text)
    <3>1. Text(asked)
      BY <2>2, <2>5, TextPiece
    <3> HIDE DEF asked
    <3>2. QED
      BY <3>1, TextNewLine
  <2>10. Text(Key(start, key, from, Now.indent))
    BY <2>3, <2>4, <2>5, <2>6, TextKey
  <2>11. key.form = "node" => inner \in GoodOps
    <3>1. Now.indent + setting.step \in Nat
      BY <2>3, <2>4
    <3>2. QED
      BY <2>3, <2>6, <3>1, NodeOps
  <2> HIDE DEF text, inner, key
  <2>12. <<ValueOp, Again>> \in Seq(GoodOps)
    BY <2>6
  <2>13. key.form = "node" => <<inner, Strip, Colon(Now.indent), ValueOp, Again>> \in Seq(GoodOps)
    BY <2>6, <2>7, <2>11, FiveOf
  <2>14. QED
    BY <2>1, <2>8, <2>9, <2>10, <2>12, <2>13, OpKeeps
<1>3. QED
  BY <1>1, <1>2

LEMMA MappingFlowEntryKeeps ==
  ASSUME EInv, DoMappingFlowEntry
  PROVE  EInv'
<1>1. CASE DoneWith("MappingFlowEntry")
  BY <1>1, DoneWithKeeps
<1>2. CASE ~DoneWith("MappingFlowEntry")
  <2> DEFINE key == At(Now.id).parts[Now.index]
             value == Op("NodeInline", key.value, 0, 0)
             inner == Op("Node", key.node, 0, 0)
             text == Write(FlowKey(Comma, key), ":", 2)
  <2>1. Doing("MappingFlowEntry") /\ MoreEntries
    BY <1>2 DEF DoMappingFlowEntry
  <2>2. "MappingFlowEntry" \in MappingOps \ {"MappingValue"} /\ 2 \in Nat /\ 0 \in Nat
    BY DEF MappingOps
  <2>3. LInv /\ OInv /\ Text(out) /\ setting \in Settings
    BY InvParts
  <2>4. Text(Comma)
    BY <2>2, <2>3, TextPiece DEF Comma
  <2>5. key \in EntryParts /\ Again \in GoodOps /\ InArena(key.value)
        /\ (key.form = "node" => InArena(key.node))
    BY <2>1, <2>2, EntryAtHand
  <2>6. Close("flow colon") \in GoodOps /\ Strip \in GoodOps
    BY <2>2, TextOps
  <2>7. value \in GoodOps /\ (key.form = "node" => inner \in GoodOps)
    BY <2>2, <2>3, <2>5, NodeOps
  <2>8. Text(text)
    <3>1. Text(FlowKey(Comma, key))
      BY <2>2, <2>3, <2>4, <2>5, TextKey
    <3>2. QED
      BY <2>2, <3>1, TextPiece
  <2>9. \/ key.form = "node" /\ Then(Comma, <<inner, Strip, Close("flow colon"), value, Again>>)
        \/ Then(text, <<value, Again>>)
    BY <1>2 DEF DoMappingFlowEntry
  <2> HIDE DEF key, value, inner, text
  <2>10. <<value, Again>> \in Seq(GoodOps)
    BY <2>5, <2>7
  <2>11. key.form = "node" => <<inner, Strip, Close("flow colon"), value, Again>> \in Seq(GoodOps)
    <3>1. key.form = "node" => inner \in GoodOps
      BY <2>7
    <3>2. value \in GoodOps /\ Again \in GoodOps
      BY <2>5, <2>7
    <3>3. QED
      BY <2>6, <3>1, <3>2, FiveOf
  <2>12. QED
    BY <2>1, <2>4, <2>8, <2>9, <2>10, <2>11, OpKeeps
<1>3. QED
  BY <1>1, <1>2

\* The first entry behind a dash, and those below it.
LEMMA TextInlineStart ==
  ASSUME Text(out), Now.indent \in Nat, NEW node
  PROVE  Text(InlineStart(node))
<1> DEFINE line == IF Now.index = 1 THEN NewLine(out) ELSE out
<1>1. Text(line)
  BY TextNewLine
<1> HIDE DEF line
<1>2. Text(Indent(CommentBefore(line, node, Now.indent), Now.indent))
  BY <1>1, TextBefore
<1>3. Text(Indent(out, Now.indent))
  BY TextIndent
<1>4. InlineStart(node) =
        IF node.before THEN Indent(CommentBefore(line, node, Now.indent), Now.indent)
        ELSE IF Now.index > 1 THEN Indent(out, Now.indent) ELSE out
  BY DEF InlineStart, line
<1>5. QED
  BY <1>2, <1>3, <1>4

LEMMA MappingInlineFirstKeeps ==
  ASSUME EInv, DoMappingInlineFirst
  PROVE  EInv'
<1>1. CASE DoneWith("MappingInlineFirst")
  BY <1>1, DoneWithKeeps
<1>2. CASE ~DoneWith("MappingInlineFirst")
  <2> DEFINE key == At(Now.id).parts[Now.index]
             start == InlineStart(At(key.value))
             from == At(Now.id).from
             text == Key(start, key, from, Now.indent)
  <2>1. Doing("MappingInlineFirst") /\ MoreEntries /\ Then(text, <<ValueOp, Again>>)
    BY <1>2 DEF DoMappingInlineFirst
  <2>2. "MappingInlineFirst" \in MappingOps \ {"MappingValue"}
    BY DEF MappingOps
  <2>3. Text(out) /\ setting \in Settings /\ Now.indent \in Nat
    BY <2>1, <2>2, InvParts, Working
  <2>4. Text(start)
    BY <2>3, TextInlineStart, SMTT(30)
  <2>5. key \in EntryParts /\ ValueOp \in GoodOps /\ Again \in GoodOps
    BY <2>1, <2>2, EntryAtHand
  <2> HIDE DEF start, from, key
  <2>6. Text(text)
    BY <2>3, <2>4, <2>5, TextKey
  <2> HIDE DEF text
  <2>7. <<ValueOp, Again>> \in Seq(GoodOps)
    BY <2>5
  <2>8. QED
    BY <2>1, <2>6, <2>7, OpKeeps
<1>3. QED
  BY <1>1, <1>2

\* What a value or an item can be: the arms of the code leave none out.
LEMMA EveryKind ==
  ASSUME NEW node \in AllNodes
  PROVE  \/ IsCollection(node) /\ node.parts = <<>>
         \/ IsCollection(node) /\ node.flow /\ node.parts # <<>>
         \/ IsBlock(node) /\ node.parts # <<>>
         \/ node.kind = "block"
         \/ node.kind \in {"scalar", "null"}
         \/ node.kind = "alias"
BY NodeKinds DEF IsCollection, IsBlock

\* The texts of values and items.
LEMMA TextValues ==
  ASSUME NEW s, Text(s), NEW node, NEW n \in Nat, setting \in Settings
  PROVE  /\ Text(FinishLine(Empty(s, node), node))
         /\ Text(FinishLine(Anchor(s, node.anchor), node))
         /\ Text(Scalar(s, node, n, node.inline))
         /\ Text(FinishLine(Scalar(s, node, n, FALSE), node))
<1>1. Text(Empty(s, node)) /\ Text(Anchor(s, node.anchor))
  BY TextEmpty, TextAnchor
<1>2. \A b : Text(Scalar(s, node, n, b))
  BY TextScalar
<1>3. Text(Scalar(s, node, n, FALSE)) /\ Text(Scalar(s, node, n, node.inline))
  BY <1>2
<1>4. QED
  BY <1>1, <1>3, TextInline

\* MappingValue.
LEMMA MappingValueKeeps ==
  ASSUME EInv, DoMappingValue
  PROVE  EInv'
<1> DEFINE id == At(Now.id).parts[Now.index].value
           node == At(id)
           deeper == Now.indent + setting.step
           spaced == Write(out, " ", 1)
           inline == Op("NodeInline", id, 0, deeper)
           finish == Op("FinishLine", id, 0, 0)
<1>1. Doing("MappingValue") /\ "MappingValue" \in MappingOps /\ 0 \in Nat /\ 1 \in Nat
  BY OpKinds DEF DoMappingValue
<1>2. LInv /\ OInv /\ Text(out) /\ setting \in Settings /\ setting.step \in Nat /\ <<>> \in Seq(GoodOps)
  BY InvParts
<1>3. /\ InArena(Now.id) /\ Now.indent \in Nat /\ At(Now.id).kind = "mapping"
      /\ Now.index \in DOMAIN At(Now.id).parts
  BY <1>1, Working
<1>4. InArena(id)
  BY <1>2, <1>3, EntryIs
<1>5. node \in AllNodes /\ deeper \in Nat
  <2>1. deeper \in Nat
    BY <1>2, <1>3
  <2>2. node \in AllNodes
    BY <1>2, <1>4, NodeAt
  <2>3. QED
    BY <2>1, <2>2
<1>6. Text(spaced)
  BY <1>1, <1>2, TextPiece
<1>7. inline \in GoodOps /\ finish \in GoodOps
      /\ (IsCollection(node) => InFlow(node, id) \in GoodOps /\ Whole(node, id, deeper) \in GoodOps)
  BY <1>1, <1>2, <1>4, <1>5, NodeOps, CollectionOps, SMTT(30)
<1>8. /\ IsCollection(node) /\ node.parts = <<>> => Then(FinishLine(Empty(spaced, node), node), <<>>)
      /\ IsCollection(node) /\ node.flow /\ node.parts # <<>> => Then(spaced, <<InFlow(node, id), finish>>)
      /\ IsBlock(node) /\ node.parts # <<>> =>
           Then(FinishLine(Anchor(out, node.anchor), node), <<Whole(node, id, deeper)>>)
      /\ node.kind = "block" => Then(Scalar(spaced, node, deeper, node.inline), <<>>)
      /\ node.kind \in {"scalar", "null"} =>
           Then(FinishLine(Scalar(spaced, node, deeper, FALSE), node), <<>>)
      /\ node.kind = "alias" => Then(spaced, <<inline, finish>>)
  BY ZenonT(30) DEF DoMappingValue, IsCollection, IsBlock
<1> HIDE DEF id, node, deeper, spaced, inline, finish
<1>9. CASE IsCollection(node) /\ node.parts = <<>>
  BY <1>1, <1>2, <1>5, <1>6, <1>8, <1>9, TextValues, OpKeeps
<1>10. CASE IsCollection(node) /\ node.flow /\ node.parts # <<>>
  <2>1. <<InFlow(node, id), finish>> \in Seq(GoodOps)
    BY <1>7, <1>10
  <2>2. QED
    BY <1>1, <1>6, <1>8, <1>10, <2>1, OpKeeps
<1>11. CASE IsBlock(node) /\ node.parts # <<>>
  <2>1. <<Whole(node, id, deeper)>> \in Seq(GoodOps)
    BY <1>7, <1>11 DEF IsBlock
  <2>2. Text(FinishLine(Anchor(out, node.anchor), node))
    BY <1>2, <1>5, TextValues
  <2>3. QED
    BY <1>1, <1>8, <1>11, <2>1, <2>2, OpKeeps
<1>12. CASE node.kind = "block"
  BY <1>1, <1>2, <1>5, <1>6, <1>8, <1>12, TextValues, OpKeeps
<1>13. CASE node.kind \in {"scalar", "null"}
  BY <1>1, <1>2, <1>5, <1>6, <1>8, <1>13, TextValues, OpKeeps
<1>14. CASE node.kind = "alias"
  <2>1. <<inline, finish>> \in Seq(GoodOps)
    BY <1>7
  <2>2. QED
    BY <1>1, <1>6, <1>8, <1>14, <2>1, OpKeeps
<1>15. QED
  BY <1>5, <1>9, <1>10, <1>11, <1>12, <1>13, <1>14, EveryKind

\* What stands behind a dash.
LEMMA ItemBodyKeeps ==
  ASSUME EInv, NEW op \in SequenceOps, Doing(op), NEW id, InArena(id), NEW text, Text(text),
         NEW n \in Nat, ItemBody(text, id, n)
  PROVE  EInv'
<1> DEFINE node == At(id)
           deeper == n + setting.step
           said == node.anchor # None \/ node.inline \/ HasNodeKey(node)
           first == IF node.kind = "mapping" THEN "MappingInlineFirst" ELSE "SequenceInlineFirst"
           begin == Op(first, id, 1, deeper)
           inline == Op("NodeInline", id, 0, deeper)
           finish == Op("FinishLine", id, 0, 0)
<1>1. 0 \in Nat /\ 1 \in Nat
  OBVIOUS
<1>2. LInv /\ setting \in Settings /\ setting.step \in Nat /\ Again \in GoodOps
  BY InvParts, AgainFinds
<1>3. node \in AllNodes /\ deeper \in Nat
  BY <1>2, NodeAt
<1>4. inline \in GoodOps /\ finish \in GoodOps
      /\ (IsCollection(node) => InFlow(node, id) \in GoodOps /\ Whole(node, id, deeper) \in GoodOps)
  BY <1>1, <1>2, <1>3, NodeOps, CollectionOps
<1>5. IsCollection(node) => begin \in GoodOps
  <2>1. CASE node.kind = "mapping"
    <3>1. begin = Op("MappingInlineFirst", id, 1, deeper) /\ "MappingInlineFirst" # "MappingValue"
      BY <2>1
    <3>2. QED
      BY <1>1, <1>2, <1>3, <2>1, <3>1, OpKinds, MappingOpsFind
  <2>2. CASE node.kind = "sequence"
    <3>1. begin = Op("SequenceInlineFirst", id, 1, deeper)
      BY <2>2
    <3>2. QED
      BY <1>1, <1>2, <1>3, <2>2, <3>1, OpKinds, SequenceOpsFind
  <2>3. QED
    BY <2>1, <2>2 DEF IsCollection
<1>6. /\ IsCollection(node) /\ node.parts = <<>> => Then(FinishLine(Empty(text, node), node), <<Again>>)
      /\ IsCollection(node) /\ node.flow /\ node.parts # <<>> =>
           Then(text, <<InFlow(node, id), finish, Again>>)
      /\ IsBlock(node) /\ node.parts # <<>> /\ said =>
           Then(FinishLine(Anchor(text, node.anchor), node), <<Whole(node, id, deeper), Again>>)
      /\ IsBlock(node) /\ node.parts # <<>> /\ ~said => Then(text, <<begin, Again>>)
      /\ node.kind = "block" => Then(Scalar(text, node, deeper, node.inline), <<Again>>)
      /\ node.kind \in {"scalar", "null"} =>
           Then(FinishLine(Scalar(text, node, deeper, FALSE), node), <<Again>>)
      /\ node.kind = "alias" => Then(text, <<inline, finish, Again>>)
  BY DEF ItemBody, IsCollection, IsBlock
<1> HIDE DEF node, deeper, said, first, begin, inline, finish
<1>7. <<Again>> \in Seq(GoodOps)
  BY <1>2
<1>8. CASE IsCollection(node) /\ node.parts = <<>>
  BY <1>2, <1>3, <1>6, <1>7, <1>8, TextValues, OpKeeps
<1>9. CASE IsCollection(node) /\ node.flow /\ node.parts # <<>>
  <2>1. <<InFlow(node, id), finish, Again>> \in Seq(GoodOps)
    BY <1>2, <1>4, <1>9
  <2>2. QED
    BY <1>6, <1>9, <2>1, OpKeeps
<1>10. CASE IsBlock(node) /\ node.parts # <<>>
  <2>1. <<Whole(node, id, deeper), Again>> \in Seq(GoodOps) /\ <<begin, Again>> \in Seq(GoodOps)
    BY <1>2, <1>4, <1>5, <1>10 DEF IsBlock
  <2>2. Text(FinishLine(Anchor(text, node.anchor), node))
    BY <1>2, <1>3, TextValues
  <2>3. QED
    BY <1>6, <1>10, <2>1, <2>2, OpKeeps
<1>11. CASE node.kind = "block"
  BY <1>2, <1>3, <1>6, <1>7, <1>11, TextValues, OpKeeps
<1>12. CASE node.kind \in {"scalar", "null"}
  BY <1>2, <1>3, <1>6, <1>7, <1>12, TextValues, OpKeeps
<1>13. CASE node.kind = "alias"
  <2>1. <<inline, finish, Again>> \in Seq(GoodOps)
    BY <1>2, <1>4
  <2>2. QED
    BY <1>6, <1>13, <2>1, OpKeeps
<1>14. QED
  BY <1>3, <1>8, <1>9, <1>10, <1>11, <1>12, <1>13, EveryKind

\* The item of a sequence that is to be written.
LEMMA ItemAtHand ==
  ASSUME EInv, NEW op \in SequenceOps, Doing(op), MoreEntries
  PROVE  InArena(At(Now.id).parts[Now.index]) /\ Now.indent \in Nat
<1>1. LInv
  BY InvParts
<1>2. /\ InArena(Now.id) /\ Now.indent \in Nat /\ At(Now.id).kind = "sequence"
      /\ Now.index \in DOMAIN At(Now.id).parts
  BY Working DEF MoreEntries
<1>3. QED
  BY <1>1, <1>2, ItemIs

LEMMA TextDash ==
  ASSUME NEW s, Text(s)
  PROVE  Text(Dash(s))
<1>1. 2 \in Nat
  OBVIOUS
<1>2. QED
  BY <1>1, TextPiece DEF Dash

\* SequenceItem and SequenceInlineFirst.
LEMMA SequenceItemsKeep ==
  ASSUME EInv, DoSequenceItem \/ DoSequenceInlineFirst
  PROVE  EInv'
<1> DEFINE id == At(Now.id).parts[Now.index]
           start == Indent(CommentBefore(out, At(id), Now.indent), Now.indent)
<1>1. Text(out)
  BY InvParts
<1>2. CASE DoneWith("SequenceItem") \/ DoneWith("SequenceInlineFirst")
  BY <1>2, DoneWithKeeps
<1>3. CASE DoSequenceItem /\ ~DoneWith("SequenceItem")
  <2>1. Doing("SequenceItem") /\ MoreEntries /\ ItemBody(Dash(start), id, Now.indent)
    BY <1>3 DEF DoSequenceItem
  <2>2. InArena(id) /\ Now.indent \in Nat
    BY <2>1, OpKinds, ItemAtHand
  <2>3. Text(start)
    BY <1>1, <2>2, TextBefore
  <2> HIDE DEF id, start
  <2>4. Text(Dash(start))
    BY <2>3, TextDash
  <2>5. QED
    BY <2>1, <2>2, <2>4, OpKinds, ItemBodyKeeps
<1>4. CASE DoSequenceInlineFirst /\ ~DoneWith("SequenceInlineFirst")
  <2>1. /\ Doing("SequenceInlineFirst") /\ MoreEntries
        /\ ItemBody(Dash(InlineStart(At(id))), id, Now.indent)
    BY <1>4 DEF DoSequenceInlineFirst
  <2>2. InArena(id) /\ Now.indent \in Nat
    BY <2>1, OpKinds, ItemAtHand
  <2>3. Text(InlineStart(At(id)))
    BY <1>1, <2>2, TextInlineStart
  <2> HIDE DEF id
  <2>4. Text(Dash(InlineStart(At(id))))
    BY <2>3, TextDash
  <2>5. QED
    BY <2>1, <2>2, <2>4, OpKinds, ItemBodyKeeps
<1>5. QED
  BY <1>2, <1>3, <1>4

\* SequenceFlowItem.
LEMMA SequenceFlowItemKeeps ==
  ASSUME EInv, DoSequenceFlowItem
  PROVE  EInv'
<1>1. CASE DoneWith("SequenceFlowItem")
  BY <1>1, DoneWithKeeps
<1>2. CASE ~DoneWith("SequenceFlowItem")
  <2> DEFINE id == At(Now.id).parts[Now.index]
             item == IF IsBlock(At(id)) THEN InFlow(At(id), id) ELSE Op("NodeInline", id, 0, 0)
  <2>1. Doing("SequenceFlowItem") /\ MoreEntries /\ Then(Comma, <<item, Again>>)
    BY <1>2 DEF DoSequenceFlowItem
  <2>2. InArena(id) /\ LInv /\ Text(out) /\ 0 \in Nat /\ 2 \in Nat
    BY <2>1, OpKinds, ItemAtHand, InvParts
  <2>3. "SequenceFlowItem" \in (MappingOps \ {"MappingValue"}) \cup SequenceOps
    BY OpKinds
  <2>4. Again \in GoodOps
    BY <2>1, <2>3, AgainFinds
  <2>5. item \in GoodOps
    <3>1. Op("NodeInline", id, 0, 0) \in GoodOps
      BY <2>2, NodeOps
    <3>2. IsBlock(At(id)) => InFlow(At(id), id) \in GoodOps
      BY <2>2, CollectionOps DEF IsBlock
    <3>3. QED
      BY <3>1, <3>2
  <2>6. Text(Comma)
    BY <2>2, TextPiece DEF Comma
  <2> HIDE DEF id, item
  <2>7. <<item, Again>> \in Seq(GoodOps)
    BY <2>4, <2>5
  <2>8. QED
    BY <2>1, <2>6, <2>7, OpKeeps
<1>3. QED
  BY <1>1, <1>2

(***************************************************************************)
(* Lowering, and what happens between documents.                           *)
(***************************************************************************)
\* Documents are only added.
LEMMA ArenasStay ==
  ASSUME LInv, Lower
  PROVE  /\ Len(arenas) \in Nat /\ Len(arenas') \in Nat /\ Len(arenas) <= Len(arenas')
         /\ \A i \in DOMAIN arenas : i \in DOMAIN arenas' /\ arenas'[i] = arenas[i]
<1>1. arenas \in Seq(Documents)
  BY DEF LInv
<1>2. CASE arenas' = arenas
  BY <1>1, <1>2
<1>3. CASE Lowered
  <2>1. PICK doc : arenas' = Append(arenas, doc)
    BY <1>3 DEF Lowered
  <2>2. LInv'
    BY LoweringKept
  <2>3. arenas' \in Seq(Documents)
    BY <2>2 DEF LInv
  <2>4. Len(arenas') = Len(arenas) + 1 /\ \A i \in 1 .. Len(arenas) : arenas'[i] = arenas[i]
    BY <1>1, <2>1, PlainAppend
  <2>5. QED
    BY <1>1, <2>3, <2>4
<1>4. arenas' = arenas \/ Lowered
  BY DEF Lower, VisitScalar, VisitAlias, VisitSequence, VisitMapping, VisitKey, RestoreAnchor,
         FinishSequence, FinishMapping, Counted
<1>5. QED
  BY <1>2, <1>3, <1>4

\* Lowering disturbs no operation.
LEMMA LowerKeeps ==
  ASSUME EInv, Lower, UNCHANGED <<writing, ops, out>>
  PROVE  EInv'
<1>1. LInv /\ OInv /\ RootGood(lower) /\ RootsGood(arenas)
  BY DEF EInv
<1>2. LInv' /\ RootGood(lower') /\ RootsGood(arenas')
  BY <1>1, LoweringKept, RootGoodKept
<1>3. \A i \in DOMAIN arenas : i \in DOMAIN arenas' /\ arenas'[i] = arenas[i]
  BY <1>1, ArenasStay
<1>4. GoodOps \subseteq GoodOps'
  <2>1. ASSUME NEW x \in GoodOps
        PROVE  x \in GoodOps'
    <3>1. CASE writing \in DOMAIN arenas
      <4>1. writing' = writing /\ writing' \in DOMAIN arenas' /\ arenas'[writing'] = arenas[writing]
        BY <1>3, <3>1
      <4>2. QED
        BY <4>1, <3>1 DEF GoodOps, FindsItsNode, At, Arena
    <3>2. CASE writing \notin DOMAIN arenas
      <4>1. x \in AllOps /\ x.op \notin MappingOps \cup SequenceOps \cup {"Node", "NodeInline", "FinishLine"}
        BY <3>2 DEF GoodOps, FindsItsNode
      <4>2. x.op # "MappingValue"
        BY <4>1, OpKinds
      <4>3. QED
        BY <4>1, <4>2 DEF GoodOps, FindsItsNode
    <3>3. QED
      BY <3>1, <3>2
  <2>2. QED
    BY <2>1
<1>5. ops' \in Seq(GoodOps')
  <2>1. Seq(GoodOps) \subseteq Seq(GoodOps')
    BY <1>4, SeqMonotonic
  <2>2. QED
    BY <1>1, <2>1 DEF OInv
<1>6. writing' \in 0 .. Len(arenas') + 1
  BY <1>1, ArenasStay DEF OInv
<1>7. Text(out)'
  BY <1>1 DEF OInv, Text
<1>8. OInv'
  BY <1>5, <1>6, <1>7 DEF OInv
<1>9. QED
  BY <1>2, <1>8 DEF EInv

\* The text between documents.
LEMMA TextEnded ==
  ASSUME Text(out), NEW doc
  PROVE  Text(Ended(doc))
<1> DEFINE line == IF Last(out) = <<>> THEN out ELSE NewLine(out)
<1>1. 3 \in Nat
  OBVIOUS
<1>2. Text(line)
  BY TextNewLine
<1> HIDE DEF line
<1>3. Text(Marker(line, "..."))
  <2>1. Text(Write(line, "...", 3))
    BY <1>1, <1>2, TextPiece
  <2>2. QED
    BY <2>1, TextNewLine DEF Marker
<1>4. Ended(doc) = IF doc.end THEN Marker(line, "...") ELSE line
  BY DEF Ended, line
<1>5. QED
  BY <1>2, <1>3, <1>4

\* A document begins with its root, which is in its arena and no alias: one of the arms applies.
LEMMA DocumentKeeps ==
  ASSUME EInv, DoDocument
  PROVE  EInv'
<1> DEFINE doc == arenas[writing + 1]
           root == doc.nodes[doc.root]
           ended == IF writing = 0 THEN out ELSE Ended(arenas[writing])
           begun == IF StartMarker(doc) THEN Marker(ended, "---") ELSE ended
           start == CommentBefore(begun, root, 0)
           bare == root.kind = "null" /\ root.anchor = None
           null == Put(start, Piece("null", 0, root.from))
           begin == Op("Node", doc.root, 0, 0)
<1>1. LInv /\ OInv /\ Text(out) /\ setting \in Settings /\ RootsGood(arenas) /\ RootGood(lower)
  BY InvParts, SMTT(30) DEF EInv
<1>2. /\ writing' = writing + 1 /\ UNCHANGED avars /\ writing < Len(arenas)
      /\ UNCHANGED <<setting, left, count, lower, arenas>>
  BY DEF DoDocument, avars
<1>3. LInv' /\ RootGood(lower)' /\ RootsGood(arenas)'
  BY <1>1, <1>2 DEF LInv
<1>4. /\ arenas \in Seq(Documents) /\ Len(arenas) \in Nat /\ writing \in Nat
      /\ writing + 1 \in 1 .. Len(arenas) /\ DOMAIN arenas = 1 .. Len(arenas)
  BY <1>1, <1>2 DEF LInv, OInv
<1>5. doc \in Documents /\ doc.root \in DOMAIN doc.nodes /\ root.kind # "alias" /\ doc.root \in Nat
  <2>1. doc \in Documents
    BY <1>4, ElementOfSeq
  <2>2. doc.root \in DOMAIN doc.nodes /\ root.kind # "alias"
    BY <1>1, <1>4 DEF RootsGood
  <2>3. QED
    BY <2>1, <2>2 DEF Documents
<1>6. root \in AllNodes
  BY <1>5, ElementOfSeq DEF Documents
<1>7. Text(start) /\ 0 \in Nat /\ 3 \in Nat
  <2>1. Text(ended)
    BY <1>1, TextEnded
  <2> HIDE DEF ended
  <2>2. Text(begun)
    <3>1. Text(Write(ended, "---", 3))
      BY <2>1, TextPiece
    <3>2. Text(NewLine(Write(ended, "---", 3)))
      BY <3>1, TextNewLine
    <3>3. Text(Marker(ended, "---"))
      BY <3>2, ZenonT(30) DEF Marker
    <3>4. QED
      BY <2>1, <3>3
  <2> HIDE DEF begun
  <2>3. QED
    BY <2>2, TextBefore
<1>8. /\ IsCollection(root) => out' = start /\ ops' = <<begin>>
      /\ root.kind = "block" => out' = Scalar(start, root, 0, root.inline) /\ ops' = <<>>
      /\ root.kind \in {"scalar", "null"} /\ ~bare =>
           out' = InlineComment(Scalar(start, root, 0, FALSE), root) /\ ops' = <<>>
      /\ bare => out' = (IF root.inline THEN FinishLine(null, root) ELSE null) /\ ops' = <<>>
  BY DEF DoDocument, IsCollection
<1>9. \/ IsCollection(root) \/ root.kind = "block"
      \/ root.kind \in {"scalar", "null"} /\ ~bare
      \/ bare
  BY <1>5, <1>6, NodeKinds DEF IsCollection
<1>10. begin \in GoodOps'
  <2>1. writing' \in DOMAIN arenas' /\ Arena' = doc
    BY <1>2, <1>4 DEF Arena
  <2>2. "Node" \in OpNames /\ "Node" \notin MappingOps \cup SequenceOps /\ "Node" # "MappingValue"
    BY DEF OpNames, MappingOps, SequenceOps
  <2>3. begin \in AllOps
    BY <1>5, <1>7, <2>2, OpType
  <2>4. begin.op = "Node" /\ begin.id = doc.root
    BY DEF Op
  <2>5. PICK x : x = begin
    OBVIOUS
  <2>6. PICK ns : ns = doc.nodes
    OBVIOUS
  <2>7. x.op = "Node" /\ x.id \in DOMAIN ns
    BY <1>5, <2>4, <2>5, <2>6
  <2>8. Arena'.nodes = ns
    BY <2>1, <2>6
  <2> HIDE DEF doc, begin
  <2>9. FindsItsNode(x)'
    BY <2>1, <2>2, <2>7, <2>8 DEF FindsItsNode
  <2>10. x \in GoodOps'
    BY <2>3, <2>5, <2>9 DEF GoodOps
  <2>11. QED
    BY <2>5, <2>10
<1> HIDE DEF doc, root, start
<1>11. Text(out')
  <2>1. \A b : Text(Scalar(start, root, 0, b))
    BY <1>1, <1>7, TextScalar
  <2>2. Text(Scalar(start, root, 0, root.inline)) /\ Text(Scalar(start, root, 0, FALSE))
    BY <2>1
  <2>3. Text(InlineComment(Scalar(start, root, 0, FALSE), root))
    BY <2>2, TextInline
  <2>4. Text(null)
    BY <1>7, TextPiece
  <2> HIDE DEF null
  <2>5. Text(IF root.inline THEN FinishLine(null, root) ELSE null)
    BY <2>4, TextInline
  <2>6. QED
    BY <1>7, <1>8, <1>9, <2>2, <2>3, <2>5
<1> HIDE DEF begin, null, bare
<1>12. ops' \in Seq(GoodOps')
  <2>1. <<begin>> \in Seq(GoodOps') /\ <<>> \in Seq(GoodOps')
    BY <1>10
  <2>2. QED
    BY <1>8, <1>9, <2>1
<1>13. writing' \in 0 .. Len(arenas') + 1
  BY <1>2, <1>4
<1>14. OInv'
  <2>1. Text(out)'
    BY <1>11 DEF Text
  <2>2. QED
    BY <1>12, <1>13, <2>1 DEF OInv
<1>15. QED
  BY <1>3, <1>14 DEF EInv

\* After the last document.
LEMMA EndKeeps ==
  ASSUME EInv, DoEnd
  PROVE  EInv'
<1>1. LInv /\ OInv /\ Text(out) /\ RootsGood(arenas) /\ RootGood(lower)
  BY InvParts DEF EInv
<1>2. /\ writing = Len(arenas) /\ writing' = writing + 1 /\ out' = Ended(arenas[writing])
      /\ ops = <<>> /\ ops' = ops /\ UNCHANGED <<setting, left, count, lower, arenas>>
  BY DEF DoEnd, avars, Lowest
<1>3. LInv' /\ RootGood(lower)' /\ RootsGood(arenas)'
  BY <1>1, <1>2 DEF LInv
<1>4. Text(out')
  BY <1>1, <1>2, TextEnded
<1>5. ops' \in Seq(GoodOps')
  BY <1>2
<1>6. writing' \in 0 .. Len(arenas') + 1
  <2>1. Len(arenas) \in Nat
    BY <1>1 DEF LInv
  <2>2. QED
    BY <1>2, <2>1
<1>7. OInv'
  <2>1. Text(out)'
    BY <1>4 DEF Text
  <2>2. QED
    BY <1>5, <1>6, <2>1 DEF OInv
<1>8. QED
  BY <1>3, <1>7 DEF EInv

(***************************************************************************)
(* The theorems.                                                           *)
(***************************************************************************)
\* The first state and every step.
LEMMA FirstStep ==
  ASSUME Init
  PROVE  EInv
<1>1. /\ setting \in Settings /\ left = setting.nodes - 1 /\ count = 0 /\ lower = Fresh
      /\ arenas = <<>> /\ writing = 0 /\ ops = <<>> /\ out = <<<<>>>>
  BY DEF Init, ArenaInit
<1>2. LInv
  <2>1. left \in Nat /\ count \in Nat
    BY <1>1, NamesType
  <2>2. Fits(lower)
    BY <1>1, FreshFits
  <2>3. arenas \in Seq(Documents) /\ Len(arenas) = 0
    BY <1>1
  <2>4. QED
    BY <1>1, <2>1, <2>2, <2>3 DEF LInv
<1>3. RootGood(lower) /\ RootsGood(arenas)
  <2>1. RootGood(lower)
    BY <1>1, FreshRoot
  <2>2. Len(arenas) = 0
    BY <1>1
  <2>3. QED
    BY <2>1, <2>2 DEF RootsGood
<1>4. Text(out)
  <2>1. out \in Seq(Seq({})) /\ \A x \in {} : x.width \in Nat
    <3>1. PICK line : line = <<>>
      OBVIOUS
    <3>2. line \in Seq({})
      BY <3>1
    <3>3. <<line>> \in Seq(Seq({}))
      BY <3>2
    <3>4. out = <<line>>
      BY <1>1, <3>1
    <3>5. QED
      BY <3>3, <3>4
  <2>2. QED
    BY <2>1 DEF Text
<1>5. OInv
  <2>1. ops \in Seq(GoodOps) /\ writing \in 0 .. Len(arenas) + 1
    BY <1>1
  <2>2. QED
    BY <1>4, <2>1 DEF OInv
<1>6. QED
  BY <1>2, <1>3, <1>5 DEF EInv

LEMMA NextStep ==
  ASSUME EInv, [Next]_vars
  PROVE  EInv'
<1>1. CASE Next
  <2>1. CASE Lower /\ UNCHANGED <<writing, ops, out>>
    BY <2>1, LowerKeeps
  <2>2. CASE DoDocument
    BY <2>2, DocumentKeeps
  <2>3. CASE DoEnd
    BY <2>3, EndKeeps
  <2>4. CASE DoWrite \/ DoFinishLine \/ DoStrip \/ DoColon \/ DoFlowColon
    BY <2>4, TextOpsKeep
  <2>5. CASE DoNode
    BY <2>5, NodeKeeps
  <2>6. CASE DoNodeInline
    BY <2>6, NodeInlineKeeps
  <2>7. CASE DoMapping \/ DoSequence
    BY <2>7, WholeCollectionsKeep
  <2>8. CASE DoMappingFlow \/ DoSequenceFlow
    BY <2>8, FlowStartsKeep
  <2>9. CASE DoMappingEntry
    BY <2>9, MappingEntryKeeps
  <2>10. CASE DoMappingValue
    BY <2>10, MappingValueKeeps
  <2>11. CASE DoMappingInlineFirst
    BY <2>11, MappingInlineFirstKeeps
  <2>12. CASE DoMappingFlowEntry
    BY <2>12, MappingFlowEntryKeeps
  <2>13. CASE DoSequenceItem \/ DoSequenceInlineFirst
    BY <2>13, SequenceItemsKeep
  <2>14. CASE DoSequenceFlowItem
    BY <2>14, SequenceFlowItemKeeps
  <2>15. QED
    BY <1>1, <2>1, <2>2, <2>3, <2>4, <2>5, <2>6, <2>7, <2>8, <2>9, <2>10, <2>11, <2>12, <2>13,
       <2>14 DEF Next
<1>2. CASE UNCHANGED vars
  <2>1. UNCHANGED <<avars, writing>> /\ UNCHANGED <<setting, left, count, lower, arenas, writing, ops, out>>
    BY <1>2 DEF vars, avars
  <2>2. LInv' /\ RootGood(lower)' /\ RootsGood(arenas)'
    BY <2>1 DEF EInv, LInv
  <2>3. Text(out)' /\ ops' \in Seq(GoodOps') /\ writing' \in 0 .. Len(arenas') + 1
    BY <2>1, SameOps DEF EInv, OInv, Text
  <2>4. QED
    BY <2>2, <2>3 DEF EInv, OInv
<1>3. QED
  BY <1>1, <1>2

\* What the invariant says of the properties.
LEMMA WholeTrees ==
  ASSUME EInv
  PROVE  LoweredWhole
<1>1. /\ Fits(lower) /\ arenas \in Seq(Documents)
      /\ \A i \in 1 .. Len(arenas) : IsTree(arenas[i].nodes, arenas[i].root)
  BY DEF EInv, LInv
<1>2. \A i \in DOMAIN arenas : IsTree(arenas[i].nodes, arenas[i].root)
  BY <1>1
<1>3. ASSUME lower.tasks = <<>>, lower.completed # <<>>
      PROVE  Len(lower.completed) = 1 /\ lower.keys = <<>>
  <2>1. Len(lower.completed) \in 0 .. 1 /\ Len(lower.keys) = 0
    BY <1>1, <1>3, NothingLeft
  <2>2. lower.completed \in Seq(Nat) /\ lower.keys \in Seq(KeyNames)
    BY <1>1 DEF Fits, Lowerings
  <2>3. Len(lower.completed) # 0 /\ lower.keys = <<>>
    BY <1>3, <2>1, <2>2
  <2>4. QED
    BY <2>1, <2>3
<1>4. QED
  BY <1>2, <1>3 DEF LoweredWhole

\* The widths of pieces.
LEMMA WidthsType ==
  ASSUME NEW s, Text(s)
  PROVE  \A i \in DOMAIN s : \A j \in DOMAIN s[i] : s[i][j].width \in Nat
<1>1. PICK S : s \in Seq(Seq(S)) /\ \A x \in S : x.width \in Nat
  BY DEF Text
<1>2. ASSUME NEW i \in DOMAIN s, NEW j \in DOMAIN s[i]
      PROVE  s[i][j].width \in Nat
  <2>1. s[i] \in Seq(S)
    BY <1>1, ElementOfSeq
  <2>2. s[i][j] \in S
    BY <2>1, ElementOfSeq
  <2>3. QED
    BY <1>1, <2>2
<1>3. QED
  BY <1>2

LEMMA Types ==
  ASSUME EInv
  PROVE  TypeOK
<1>1. /\ setting \in Settings /\ left \in Nat /\ count \in Nat /\ Fits(lower) /\ Text(out)
      /\ ops \in Seq(GoodOps) /\ writing \in 0 .. Len(arenas) + 1
  BY DEF EInv, LInv, OInv
<1>2. ASSUME NEW x \in ToSet(ops)
      PROVE  x.indent \in Nat /\ x.index \in Nat /\ FindsItsNode(x)
  <2>1. PICK i \in DOMAIN ops : x = ops[i]
    BY DEF ToSet
  <2>2. x \in GoodOps
    BY <1>1, <2>1, ElementOfSeq
  <2>3. QED
    BY <2>2 DEF GoodOps, AllOps
<1>3. lower.completed \in Seq(DOMAIN lower.nodes)
  <2>1. lower.nodes \in Seq(AllNodes) /\ lower.completed \in Seq(1 .. Len(lower.nodes))
    BY <1>1 DEF Fits, Forest
  <2>2. DOMAIN lower.nodes = 1 .. Len(lower.nodes)
    BY <2>1
  <2>3. QED
    BY <2>1, <2>2
<1>4. \A i \in DOMAIN out : \A j \in DOMAIN out[i] : out[i][j].width \in Nat
  BY <1>1, WidthsType
<1>5. QED
  BY <1>1, <1>2, <1>3, <1>4 DEF TypeOK

\* The stacks of from_yaml fit the tasks that are left, the documents are trees, and every
\* operation of run finds its node, at every step.
THEOREM Invariance == Spec => []EInv
BY FirstStep, NextStep, PTL DEF Spec

\* from_yaml returns one tree for each document, whatever the document: a Finish task finds on
\* `completed' exactly its own children and on `keys' its own keys, as many as its drain takes,
\* nothing is left on either when the tasks are done, every node has one parent and the last
\* is the root.
THEOREM LoweringIsWhole == Spec => []LoweredWhole
BY Invariance, WholeTrees, PTL

\* The arms of ArenaEmitter::run that are marked as unreachable are not reached: an operation finds
\* a node of its kind in the arena of its document, and a value its entry; and what from_yaml
\* has completed is in the arena.
THEOREM TypeCorrect == Spec => []TypeOK
BY Invariance, Types, PTL

(***************************************************************************)
(* What stands in flow collections.                                        *)
(***************************************************************************)
\* Nodes that can be written between brackets, with all below them.
Inside(ns) == UNION {W \in SUBSET DOMAIN ns : Enclosed(ns, W)}

\* What a flow collection holds can be written between brackets.
FlowsInside(ns) == \A i \in DOMAIN ns : ns[i].flow => i \in Inside(ns)

\* All of these nodes together can be.
LEMMA InsideIs ==
  ASSUME NEW ns
  PROVE  Inside(ns) \subseteq DOMAIN ns /\ Enclosed(ns, Inside(ns))
<1>1. ASSUME NEW i \in Inside(ns)
      PROVE  /\ i \in DOMAIN ns /\ ns[i].kind # "block"
             /\ IsCollection(ns[i]) =>
                  \A c \in ToSet(Children(ns[i])) :
                    c \in Inside(ns) /\ (ns[i].kind = "mapping" => ~IsBlock(ns[c]))
  <2>1. PICK W \in SUBSET DOMAIN ns : Enclosed(ns, W) /\ i \in W
    BY DEF Inside
  <2>2. W \subseteq Inside(ns)
    BY <2>1 DEF Inside
  <2>3. QED
    BY <2>1, <2>2 DEF Enclosed
<1>2. QED
  BY <1>1 DEF Enclosed

LEMMA InsideHolds ==
  ASSUME NEW ns, NEW W \in SUBSET DOMAIN ns, Enclosed(ns, W)
  PROVE  W \subseteq Inside(ns)
BY DEF Inside

\* The documents lowered so far hold nothing else in flow collections.
FInv == \A d \in DOMAIN arenas : FlowsInside(arenas[d].nodes)

LEMMA FitsInside ==
  ASSUME FlowFits
  PROVE  FInv
<1>1. ASSUME NEW d \in DOMAIN arenas PROVE FlowsInside(arenas[d].nodes)
  <2> DEFINE ns == arenas[d].nodes
  <2>1. PICK W \in SUBSET DOMAIN ns : Enclosed(ns, W) /\ \A i \in DOMAIN ns : ns[i].flow => i \in W
    BY DEF FlowFits
  <2> HIDE DEF ns
  <2>2. W \subseteq Inside(ns)
    BY <2>1, InsideHolds
  <2>3. FlowsInside(ns)
    BY <2>1, <2>2 DEF FlowsInside
  <2>4. QED
    BY <2>3 DEF ns
<1>2. QED
  BY <1>1 DEF FInv

\* With another document they fit only if they did before.
LEMMA FitsBefore ==
  ASSUME \A i \in DOMAIN arenas : i \in DOMAIN arenas' /\ arenas'[i] = arenas[i], FlowFits'
  PROVE  FlowFits
BY DEF FlowFits

LEMMA OneIs ==
  ASSUME NEW S, NEW a \in S
  PROVE  <<a>> \in Seq(S)
OBVIOUS

(***************************************************************************)
(* The brackets in the text.                                               *)
(***************************************************************************)
Opening == {"{", "["}

Closing == {"}", "]"}

\* What stands in the column of an entry, or begins a block scalar, cannot be between brackets.
Bare(p) == IsEntry(p) \/ p.t = "header"

\* A line leaves d brackets open, and is bare only where none is.
Even(line, d) ==
  /\ \A j \in 1 .. Len(line) :
       Bare(line[j]) => Count(line, Opening, j) = Count(line, Closing, j)
  /\ Count(line, Opening, Len(line)) = Count(line, Closing, Len(line)) + d

\* The text leaves d brackets open on its last line, and none on the others.
Brackets(s, d) ==
  /\ Text(s) /\ d \in Nat
  /\ \A l \in 1 .. Len(s) : Even(s[l], IF l = Len(s) THEN d ELSE 0)

\* One piece more on a line.
Adds(p, K) == IF p.t \in K THEN 1 ELSE 0

CountGrowsBy(s, p, K) ==
  /\ \A n \in 0 .. Len(s) : Count(Append(s, p), K, n) = Count(s, K, n)
  /\ Count(Append(s, p), K, Len(s) + 1) = Count(s, K, Len(s)) + Adds(p, K)
  /\ Count(s, K, Len(s)) \in Nat

LEMMA CountGrows ==
  ASSUME NEW S, NEW s \in Seq(S), NEW p, NEW K
  PROVE  CountGrowsBy(s, p, K)
<1> DEFINE u == Append(s, p)
           m == Len(s)
           C(l, n) == {k \in 1 .. n : l[k].t \in K}
<1>1. /\ m \in Nat /\ Len(u) = m + 1 /\ u[m + 1] = p /\ \A i \in 1 .. m : u[i] = s[i]
  BY PlainAppend
<1> HIDE DEF u, m
<1>2. \A n \in 0 .. m : C(u, n) = C(s, n)
  BY <1>1
<1>3. IsFiniteSet(C(s, m)) /\ Cardinality(C(s, m)) \in Nat
  <2>1. IsFiniteSet(1 .. m)
    BY <1>1, FS_Interval
  <2>2. IsFiniteSet(C(s, m))
    BY <2>1, FS_Subset
  <2>3. QED
    BY <2>2, FS_CardinalityType
<1>4. C(u, m + 1) = C(s, m) \cup (IF p.t \in K THEN {m + 1} ELSE {}) /\ m + 1 \notin C(s, m)
  <2>1. \A k : k \in 1 .. m + 1 <=> k \in 1 .. m \/ k = m + 1
    BY <1>1
  <2>2. \A k : k \in C(u, m + 1) <=> k \in C(s, m) \/ (k = m + 1 /\ p.t \in K)
    BY <1>1, <2>1
  <2>3. m + 1 \notin 1 .. m
    BY <1>1
  <2>4. QED
    BY <2>2, <2>3
<1>5. Count(u, K, m + 1) = Count(s, K, m) + (IF p.t \in K THEN 1 ELSE 0)
  <2> DEFINE A == C(s, m)
             B == C(u, m + 1)
  <2>1. Count(u, K, m + 1) = Cardinality(B) /\ Count(s, K, m) = Cardinality(A)
    BY DEF Count
  <2>2. B = A \cup (IF p.t \in K THEN {m + 1} ELSE {}) /\ m + 1 \notin A /\ IsFiniteSet(A)
        /\ Cardinality(A) \in Nat
    BY <1>3, <1>4
  <2> HIDE DEF A, B
  <2>3. CASE p.t \in K
    <3>1. Cardinality(A \cup {m + 1}) = Cardinality(A) + 1
      BY <2>2, FS_AddElement
    <3>2. QED
      BY <2>1, <2>2, <2>3, <3>1
  <2>4. CASE p.t \notin K
    <3>1. B = A
      BY <2>2, <2>4
    <3>2. QED
      BY <2>1, <2>2, <2>4, <3>1
  <2>5. QED
    BY <2>3, <2>4
<1>6. \A n \in 0 .. m : Count(u, K, n) = Count(s, K, n)
  BY <1>2 DEF Count
<1>7. Count(s, K, m) \in Nat
  BY <1>3 DEF Count
<1>8. Count(u, K, m + 1) = Count(s, K, m) + Adds(p, K)
  BY <1>5 DEF Adds
<1>9. QED
  BY <1>6, <1>7, <1>8 DEF u, m, CountGrowsBy

\* What a piece does to the brackets.
Turn(p) == IF p.t \in Opening THEN 1 ELSE IF p.t \in Closing THEN -1 ELSE 0

LEMMA EvenGrows ==
  ASSUME NEW S, NEW s \in Seq(S), NEW d \in Nat, Even(s, d), NEW p, NEW e \in Nat, e = d + Turn(p),
         Bare(p) => d = 0 /\ e = 0
  PROVE  Even(Append(s, p), e)
<1>1. CountGrowsBy(s, p, Opening) /\ CountGrowsBy(s, p, Closing)
  BY CountGrows
<1> DEFINE u == Append(s, p)
           m == Len(s)
           x == Adds(p, Opening)
           y == Adds(p, Closing)
           a == Count(s, Opening, m)
           b == Count(s, Closing, m)
<1>2. /\ m \in Nat /\ Len(u) = m + 1 /\ u[m + 1] = p /\ \A i \in 1 .. m : u[i] = s[i]
  BY PlainAppend
<1>3. /\ \A n \in 0 .. m : Count(u, Opening, n) = Count(s, Opening, n)
      /\ Count(u, Opening, m + 1) = a + x /\ a \in Nat
  BY <1>1 DEF CountGrowsBy
<1>4. /\ \A n \in 0 .. m : Count(u, Closing, n) = Count(s, Closing, n)
      /\ Count(u, Closing, m + 1) = b + y /\ b \in Nat
  BY <1>1 DEF CountGrowsBy
<1>5. a = b + d
  BY DEF Even
<1>6. x \in Nat /\ y \in Nat /\ e + y = d + x
  <2>1. p.t \in Opening => p.t \notin Closing
    BY DEF Opening, Closing
  <2>2. CASE p.t \in Opening
    BY <2>1, <2>2 DEF Turn, Adds
  <2>3. CASE p.t \in Closing
    BY <2>1, <2>3 DEF Turn, Adds
  <2>4. CASE p.t \notin Opening \cup Closing
    BY <2>4 DEF Turn, Adds
  <2>5. QED
    BY <2>2, <2>3, <2>4
<1> HIDE DEF u, m, x, y, a, b
<1>7. Count(u, Opening, m + 1) = Count(u, Closing, m + 1) + e
  BY <1>3, <1>4, <1>5, <1>6
<1>8. ASSUME NEW j \in 1 .. m + 1, Bare(u[j]) PROVE Count(u, Opening, j) = Count(u, Closing, j)
  <2>1. CASE j \in 1 .. m
    <3>1. Bare(s[j])
      BY <1>2, <1>8, <2>1
    <3>2. Count(s, Opening, j) = Count(s, Closing, j)
      BY <3>1, <2>1 DEF Even, m
    <3>3. j \in 0 .. m
      BY <2>1
    <3>4. QED
      BY <1>3, <1>4, <3>2, <3>3
  <2>2. CASE j = m + 1
    <3>1. e = 0
      BY <1>2, <1>8, <2>2
    <3>2. Count(u, Closing, m + 1) \in Nat
      BY <1>4, <1>6
    <3>3. QED
      BY <1>7, <2>2, <3>1, <3>2
  <2>3. QED
    BY <1>2, <2>1, <2>2
<1>9. QED
  BY <1>2, <1>7, <1>8 DEF Even, u

\* A line on which nothing has been written.
LEMMA EvenEmpty ==
  /\ Even(<<>>, 0)
  /\ \A d \in Nat : Even(<<>>, d) => d = 0
<1>1. Len(<<>>) = 0 /\ 1 .. 0 = {}
  OBVIOUS
<1>2. \A K : Count(<<>>, K, 0) = 0
  <2>1. \A K : {k \in 1 .. 0 : <<>>[k].t \in K} = {}
    BY <1>1
  <2>2. QED
    BY <2>1, FS_EmptySet DEF Count
<1>3. QED
  BY <1>1, <1>2 DEF Even
\* A piece more on the last line, a line more, and an empty line less.
LEMMA BracketsPut ==
  ASSUME NEW s, NEW d, Brackets(s, d), NEW p, p.width \in Nat, NEW e \in Nat, e = d + Turn(p),
         Bare(p) => d = 0 /\ e = 0
  PROVE  Brackets(Put(s, p), e)
<1>1. Text(s) /\ d \in Nat /\ \A l \in 1 .. Len(s) : Even(s[l], IF l = Len(s) THEN d ELSE 0)
  BY DEF Brackets
<1>2. PICK S : s \in Seq(Seq(S))
  BY <1>1 DEF Text
<1>3. Text(Put(s, p))
  BY <1>1, TextPut
<1> DEFINE u == Put(s, p)
           m == Len(s)
           r == Append(s[m], p)
<1>4. u = [s EXCEPT ![m] = r]
  BY DEF Put
<1>5. m \in Nat /\ DOMAIN s = 1 .. m /\ s \in [1 .. m -> Seq(S)]
  BY <1>2
<1>6. m # 0 => Even(r, e)
  <2>1. SUFFICES ASSUME m # 0 PROVE Even(r, e)
    OBVIOUS
  <2>2. m \in 1 .. m
    BY <1>5, <2>1
  <2>3. s[m] \in Seq(S) /\ Even(s[m], d)
    BY <1>1, <1>5, <2>2
  <2>4. QED
    BY <1>1, <2>3, EvenGrows
<1> HIDE DEF u, m, r
<1>7. DOMAIN u = 1 .. m /\ Len(u) = m
  BY <1>4, <1>5
<1>8. ASSUME NEW l \in 1 .. m PROVE Even(u[l], IF l = m THEN e ELSE 0)
  <2>1. CASE l = m
    <3>1. u[l] = r /\ m # 0
      BY <1>4, <1>5, <2>1
    <3>2. QED
      BY <1>6, <2>1, <3>1
  <2>2. CASE l # m
    <3>1. u[l] = s[l]
      BY <1>4, <1>5, <2>2
    <3>2. Even(s[l], 0)
      BY <1>1, <2>2 DEF m
    <3>3. QED
      BY <2>2, <3>1, <3>2
  <2>3. QED
    BY <2>1, <2>2
<1>9. QED
  BY <1>3, <1>7, <1>8 DEF Brackets, u

LEMMA BracketsLine ==
  ASSUME NEW s, Brackets(s, 0)
  PROVE  Brackets(NewLine(s), 0)
<1>1. Text(s) /\ \A l \in 1 .. Len(s) : Even(s[l], 0)
  <2>1. Text(s) /\ \A l \in 1 .. Len(s) : Even(s[l], IF l = Len(s) THEN 0 ELSE 0)
    BY DEF Brackets
  <2>2. QED
    BY <2>1
<1>2. PICK S : s \in Seq(Seq(S))
  BY <1>1 DEF Text
<1>3. Text(NewLine(s)) /\ NewLine(s) = Append(s, <<>>)
  BY <1>1, TextNewLine DEF NewLine
<1> DEFINE u == Append(s, <<>>)
<1>4. Len(s) \in Nat /\ Len(u) = Len(s) + 1 /\ u[Len(s) + 1] = <<>> /\ \A i \in 1 .. Len(s) : u[i] = s[i]
  BY <1>2, PlainAppend
<1> HIDE DEF u
<1>5. \A l \in 1 .. Len(u) : Even(u[l], 0)
  BY <1>1, <1>4, EvenEmpty
<1>6. \A l \in 1 .. Len(u) : Even(u[l], IF l = Len(u) THEN 0 ELSE 0)
  BY <1>5
<1>7. QED
  BY <1>3, <1>6 DEF Brackets, u

LEMMA BracketsFront ==
  ASSUME NEW s, NEW d, Brackets(s, d), Last(s) = <<>>
  PROVE  Brackets(Front(s), d)
<1>1. Text(s) /\ d \in Nat /\ \A l \in 1 .. Len(s) : Even(s[l], IF l = Len(s) THEN d ELSE 0)
  BY DEF Brackets
<1>2. PICK S : s \in Seq(Seq(S))
  BY <1>1 DEF Text
<1>3. Text(Front(s))
  BY <1>1, TextFront
<1>4. CASE s = <<>>
  <2>1. Front(s) = SubSeq(s, 1, 0 - 1)
    BY <1>4 DEF Front
  <2>2. SubSeq(s, 1, 0 - 1) = <<>>
    BY <1>4
  <2>3. QED
    BY <1>4, <2>1, <2>2
<1>5. CASE s # <<>>
  <2>1. /\ Len(Front(s)) = Len(s) - 1 /\ \A i \in 1 .. Len(s) - 1 : Front(s)[i] = s[i]
        /\ Last(s) = s[Len(s)] /\ Len(s) \in Nat \ {0}
    BY <1>2, <1>5, FrontIs
  <2>2. d = 0
    <3>1. Len(s) \in 1 .. Len(s)
      BY <2>1
    <3>2. Even(<<>>, d)
      BY <1>1, <2>1, <3>1
    <3>3. QED
      BY <1>1, <3>2, EvenEmpty
  <2> DEFINE u == Front(s)
  <2>3. \A l \in 1 .. Len(u) : Even(u[l], 0)
    <3>1. \A l \in 1 .. Len(s) : Even(s[l], 0)
      BY <1>1, <2>2
    <3> HIDE DEF u
    <3>2. /\ Len(u) = Len(s) - 1 /\ \A i \in 1 .. Len(s) - 1 : u[i] = s[i]
      BY <2>1 DEF u
    <3>3. QED
      BY <2>1, <3>1, <3>2
  <2> HIDE DEF u
  <2>4. \A l \in 1 .. Len(u) : Even(u[l], IF l = Len(u) THEN d ELSE 0)
    BY <2>2, <2>3
  <2>5. QED
    BY <1>1, <1>3, <2>4 DEF Brackets, u
<1>6. QED
  BY <1>4, <1>5

\* A piece that can stand in a flow collection, one that can not, and the brackets.
LEMMA BracketsPlain ==
  ASSUME NEW s, NEW d, Brackets(s, d), NEW t, NEW w \in Nat, NEW of,
         t \notin Opening \cup Closing, ~Bare(Piece(t, w, of)) \/ d = 0
  PROVE  Brackets(Put(s, Piece(t, w, of)), d)
<1> DEFINE p == Piece(t, w, of)
<1>1. p.t = t /\ p.width = w /\ d \in Nat
  BY DEF Piece, Brackets
<1>2. Bare(p) => d = 0
  OBVIOUS
<1> HIDE DEF p
<1>3. Turn(p) = 0
  BY <1>1 DEF Turn
<1>4. d = d + Turn(p)
  BY <1>1, <1>3
<1>5. Brackets(Put(s, p), d)
  BY <1>1, <1>2, <1>4, BracketsPut
<1>6. QED
  BY <1>5 DEF p

LEMMA BracketsOpen ==
  ASSUME NEW s, NEW d, Brackets(s, d), NEW t \in Opening, NEW w \in Nat, NEW of
  PROVE  Brackets(Put(s, Piece(t, w, of)), d + 1)
<1> DEFINE p == Piece(t, w, of)
<1>1. p.t = t /\ p.width = w /\ d \in Nat /\ d + 1 \in Nat
  BY DEF Piece, Brackets
<1> HIDE DEF p
<1>2. Turn(p) = 1 /\ ~Bare(p)
  BY <1>1 DEF Turn, Bare, IsEntry, Opening
<1>3. d + 1 = d + Turn(p)
  BY <1>2
<1> DEFINE e == d + 1
<1> HIDE DEF e
<1>4. e \in Nat /\ e = d + Turn(p)
  BY <1>1, <1>3 DEF e
<1>5. Brackets(Put(s, p), e)
  BY <1>1, <1>2, <1>4, BracketsPut
<1>6. QED
  BY <1>5 DEF p, e

LEMMA BracketsClose ==
  ASSUME NEW s, NEW d \in Nat, Brackets(s, d + 1), NEW t \in Closing, NEW w \in Nat, NEW of
  PROVE  Brackets(Put(s, Piece(t, w, of)), d)
<1> DEFINE p == Piece(t, w, of)
           e == d + 1
<1>1. p.t = t /\ p.width = w /\ e \in Nat
  BY DEF Piece
<1> HIDE DEF p
<1>2. Turn(p) = -1 /\ ~Bare(p)
  BY <1>1 DEF Turn, Bare, IsEntry, Opening, Closing
<1>3. d = e + Turn(p)
  BY <1>2
<1>4. Brackets(s, e)
  OBVIOUS
<1> HIDE DEF e
<1>5. Brackets(Put(s, p), d)
  BY <1>1, <1>2, <1>3, <1>4, BracketsPut
<1>6. QED
  BY <1>5 DEF p

\* The pieces that cannot stand between brackets, and the brackets.
Loud == Opening \cup Closing \cup {"header", "-", "?", "entry"}

LEMMA BracketsPiece ==
  ASSUME NEW s, NEW d, Brackets(s, d), NEW t, t \notin Loud, NEW w \in Nat, NEW of
  PROVE  Brackets(Put(s, Piece(t, w, of)), d) /\ Brackets(Write(s, t, w), d)
<1>1. t \notin Opening \cup Closing /\ t \notin {"header", "-", "?", "entry"}
  BY DEF Loud
<1>2. \A f : Piece(t, w, f).t = t
  BY DEF Piece
<1>3. \A f : ~Bare(Piece(t, w, f))
  BY <1>1, <1>2 DEF Bare, IsEntry
<1>4. \A f : Brackets(Put(s, Piece(t, w, f)), d)
  BY <1>1, <1>3, BracketsPlain
<1>5. QED
  BY <1>4 DEF Write

\* Where no bracket is open, any piece but brackets can be written.
LEMMA BracketsAny ==
  ASSUME NEW s, Brackets(s, 0), NEW t, t \notin Opening \cup Closing, NEW w \in Nat, NEW of
  PROVE  Brackets(Put(s, Piece(t, w, of)), 0) /\ Brackets(Write(s, t, w), 0)
<1>1. \A f : Brackets(Put(s, Piece(t, w, f)), 0)
  BY BracketsPlain
<1>2. QED
  BY <1>1 DEF Write

\* What is written in flow collections and elsewhere.
LEMMA QuietPieces ==
  {"indent", "inline", "before", "&", "*", "alias", "text", "key", ":", " ", ",", "{}", "[]", "---",
   "...", "scalar", "null"} \cap Loud = {}
BY DEF Loud, Opening, Closing

LEMMA MarginPieces ==
  {"header", "-", "?", "entry"} \cap (Opening \cup Closing) = {}
BY DEF Opening, Closing

\* What the emitter's methods write.
LEMMA BracketsIndent ==
  ASSUME NEW s, NEW d, Brackets(s, d), NEW n \in Nat
  PROVE  Brackets(Indent(s, n), d)
<1>1. "indent" \notin Loud
  BY QuietPieces
<1>2. QED
  BY <1>1, BracketsPiece DEF Indent

LEMMA BracketsInline ==
  ASSUME NEW s, NEW d, Brackets(s, d), NEW node
  PROVE  Brackets(InlineComment(s, node), d) /\ (d = 0 => Brackets(FinishLine(s, node), 0))
<1>1. 1 \in Nat /\ "inline" \notin Loud
  BY QuietPieces
<1>2. Brackets(InlineComment(s, node), d)
  BY <1>1, BracketsPiece DEF InlineComment
<1>3. QED
  BY <1>2, BracketsLine DEF FinishLine

LEMMA BracketsBefore ==
  ASSUME NEW s, Brackets(s, 0), NEW node, NEW n \in Nat
  PROVE  Brackets(CommentBefore(s, node, n), 0) /\ Brackets(Indent(CommentBefore(s, node, n), n), 0)
<1>1. 1 \in Nat /\ "before" \notin Loud
  BY QuietPieces
<1>2. Brackets(NewLine(Put(Indent(s, n), Piece("before", 1, node.from))), 0)
  <2>1. Brackets(Indent(s, n), 0)
    BY BracketsIndent
  <2>2. Brackets(Put(Indent(s, n), Piece("before", 1, node.from)), 0)
    BY <1>1, <2>1, BracketsPiece
  <2>3. QED
    BY <2>2, BracketsLine
<1>3. Brackets(CommentBefore(s, node, n), 0)
  BY <1>2 DEF CommentBefore
<1>4. QED
  BY <1>3, BracketsIndent

LEMMA BracketsAnchor ==
  ASSUME NEW s, NEW d, Brackets(s, d), NEW name
  PROVE  Brackets(Anchor(s, name), d)
<1>1. 3 \in Nat /\ "&" \notin Loud
  BY QuietPieces
<1>2. QED
  BY <1>1, BracketsPiece DEF Anchor

LEMMA BracketsAlias ==
  ASSUME NEW s, NEW d, Brackets(s, d), NEW name, NEW from
  PROVE  Brackets(Alias(s, name, from), d)
<1>1. 2 \in Nat /\ 0 \in Nat /\ "*" \notin Loud /\ "alias" \notin Loud
  BY QuietPieces
<1>2. Brackets(Put(s, Piece("*", 2, name)), d)
  BY <1>1, BracketsPiece
<1>3. QED
  BY <1>1, <1>2, BracketsPiece DEF Alias

LEMMA BracketsBlock ==
  ASSUME NEW s, Brackets(s, 0), NEW a, NEW from, NEW inline, NEW n \in Nat
  PROVE  Brackets(BlockText(s, a, from, inline, n), 0)
<1> DEFINE header == Put(Anchor(s, a), Piece("header", 1, from))
           more == Put(header, Piece("inline", 1, from))
           line == NewLine(IF inline THEN more ELSE header)
           whole == Put(Indent(line, n), Piece("text", 1, from))
<1>1. 1 \in Nat /\ "inline" \notin Loud /\ "text" \notin Loud /\ "header" \notin Opening \cup Closing
  BY QuietPieces, MarginPieces
<1>2. Brackets(header, 0)
  <2>1. Brackets(Anchor(s, a), 0)
    BY BracketsAnchor
  <2>2. QED
    BY <1>1, <2>1, BracketsAny
<1> HIDE DEF header
<1>3. Brackets(more, 0)
  BY <1>1, <1>2, BracketsPiece
<1> HIDE DEF more
<1>4. Brackets(line, 0)
  BY <1>2, <1>3, BracketsLine
<1>5. BlockText(s, a, from, inline, n) = NewLine(whole)
  BY DEF BlockText, header, more
<1> HIDE DEF line
<1>6. Brackets(whole, 0)
  <2>1. Brackets(Indent(line, n), 0)
    BY <1>4, BracketsIndent
  <2>2. QED
    BY <1>1, <2>1, BracketsPiece
<1> HIDE DEF whole
<1>7. QED
  BY <1>5, <1>6, BracketsLine

\* A scalar, in block style only where no bracket is open.
LEMMA BracketsScalar ==
  ASSUME NEW s, NEW d, Brackets(s, d), NEW node, NEW n \in Nat, NEW inline, setting \in Settings,
         node.kind \in {"scalar", "null", "alias", "block"}, node.kind = "block" => d = 0
  PROVE  Brackets(Scalar(s, node, n, inline), d)
<1>1. setting.step \in Nat
  BY NamesType
<1>2. CASE node.kind = "block"
  <2>1. PICK m \in Nat : m = IF n = 0 THEN setting.step ELSE n
    BY <1>1
  <2>2. Scalar(s, node, n, inline) = BlockText(s, node.anchor, node.from, inline, m)
    BY <1>2, <2>1 DEF Scalar
  <2>3. d = 0
    BY <1>2
  <2>4. Brackets(BlockText(s, node.anchor, node.from, inline, m), 0)
    BY <2>3, BracketsBlock
  <2>5. QED
    BY <2>2, <2>3, <2>4
<1>3. CASE node.kind # "block"
  <2>1. PICK w \in Nat : w = IF node.kind = "null" THEN 0 ELSE 1
    OBVIOUS
  <2>2. Scalar(s, node, n, inline) = Put(Anchor(s, node.anchor), Piece(node.kind, w, node.from))
    BY <1>3, <2>1 DEF Scalar
  <2>3. node.kind \notin Loud
    BY <1>3, QuietPieces
  <2>4. Brackets(Anchor(s, node.anchor), d)
    BY BracketsAnchor
  <2>5. Brackets(Put(Anchor(s, node.anchor), Piece(node.kind, w, node.from)), d)
    BY <2>3, <2>4, BracketsPiece
  <2>6. QED
    BY <2>2, <2>5
<1>4. QED
  BY <1>2, <1>3

LEMMA BracketsEmpty ==
  ASSUME NEW s, NEW d, Brackets(s, d), NEW node
  PROVE  Brackets(Empty(s, node), d)
<1> DEFINE t == IF node.kind = "mapping" THEN "{}" ELSE "[]"
<1>1. 2 \in Nat /\ t \notin Loud
  BY QuietPieces
<1>2. Brackets(Anchor(s, node.anchor), d)
  BY BracketsAnchor
<1>3. Empty(s, node) = Put(Anchor(s, node.anchor), Piece(t, 2, node.from))
  BY DEF Empty
<1> HIDE DEF t
<1>4. QED
  BY <1>1, <1>2, <1>3, BracketsPiece

\* The key of an entry in block style.
LEMMA BracketsKey ==
  ASSUME NEW s, Brackets(s, 0), NEW key \in EntryParts, NEW of, NEW n \in Nat, setting \in Settings
  PROVE  Brackets(Key(s, key, of, n), 0)
<1> DEFINE Entry(t) == Put(s, Piece(t, 2, of))
           Name(u) == Put(Anchor(u, key.anchor), Piece("key", 1, key.from))
           OnNextLine(u) == Write(Indent(u, n), ":", 1)
<1>1. 0 \in Nat /\ 1 \in Nat /\ 2 \in Nat /\ n + setting.step \in Nat
  BY NamesType
<1>2. /\ "?" \notin Opening \cup Closing /\ "entry" \notin Opening \cup Closing
      /\ "key" \notin Loud /\ ":" \notin Loud
  BY QuietPieces, MarginPieces
<1>3. Brackets(Entry("?"), 0)
  BY <1>1, <1>2, BracketsAny
<1>4. ASSUME NEW u, Brackets(u, 0) PROVE Brackets(Name(u), 0)
  <2>1. Brackets(Anchor(u, key.anchor), 0)
    BY <1>4, BracketsAnchor
  <2>2. QED
    BY <1>1, <1>2, <2>1, BracketsPiece
<1>5. ASSUME NEW u, Brackets(u, 0) PROVE Brackets(OnNextLine(u), 0)
  <2>1. Brackets(Indent(u, n), 0)
    BY <1>5, BracketsIndent
  <2>2. QED
    BY <1>1, <1>2, <2>1, BracketsPiece
<1>6. Brackets(Write(Name(Put(s, Piece("entry", 0, of))), ":", 1), 0)
  <2>1. Brackets(Put(s, Piece("entry", 0, of)), 0)
    BY <1>1, <1>2, BracketsAny
  <2>2. Brackets(Name(Put(s, Piece("entry", 0, of))), 0)
    BY <2>1, <1>4
  <2> HIDE DEF Name
  <2>3. QED
    BY <1>1, <1>2, <2>2, BracketsPiece
<1>7. Brackets(OnNextLine(NewLine(Alias(Entry("?"), key.alias, key.from))), 0)
  <2> HIDE DEF Entry
  <2>1. Brackets(Alias(Entry("?"), key.alias, key.from), 0)
    BY <1>3, BracketsAlias
  <2>2. Brackets(NewLine(Alias(Entry("?"), key.alias, key.from)), 0)
    BY <2>1, BracketsLine
  <2> HIDE DEF OnNextLine
  <2>3. QED
    BY <2>2, <1>5
<1>8. Brackets(OnNextLine(BlockText(Entry("?"), key.anchor, key.from, FALSE, n + setting.step)), 0)
  <2>1. \A inline : Brackets(BlockText(Entry("?"), key.anchor, key.from, inline, n + setting.step), 0)
    BY <1>1, <1>2, <1>3, BracketsBlock
  <2>2. Brackets(BlockText(Entry("?"), key.anchor, key.from, FALSE, n + setting.step), 0)
    BY <2>1
  <2> HIDE DEF OnNextLine, Entry
  <2>3. QED
    BY <2>2, <1>5
<1>9. Brackets(OnNextLine(NewLine(Name(Entry("?")))), 0)
  <2> HIDE DEF Entry, Name, OnNextLine
  <2>1. Brackets(NewLine(Name(Entry("?"))), 0)
    BY <1>3, <1>4, BracketsLine
  <2>2. QED
    BY <2>1, <1>5
<1>10. key.form \in {"plain", "node", "long", "block"}
  BY DEF EntryParts, KeyForms
<1>11. CASE key.alias # None
  <2>1. Key(s, key, of, n) = OnNextLine(NewLine(Alias(Entry("?"), key.alias, key.from)))
    BY <1>11 DEF Key
  <2> HIDE DEF Entry, OnNextLine
  <2>2. QED
    BY <1>7, <2>1
<1>12. CASE key.alias = None /\ key.form = "node"
  <2>1. Key(s, key, of, n) = Entry("?")
    BY <1>12 DEF Key
  <2> HIDE DEF Entry
  <2>2. QED
    BY <1>3, <2>1
<1>13. CASE key.alias = None /\ key.form = "block"
  <2>1. Key(s, key, of, n) = OnNextLine(BlockText(Entry("?"), key.anchor, key.from, FALSE, n + setting.step))
    BY <1>13 DEF Key
  <2> HIDE DEF Entry, OnNextLine
  <2>2. QED
    BY <1>8, <2>1
<1>14. CASE key.alias = None /\ key.form = "long"
  <2>1. Key(s, key, of, n) = OnNextLine(NewLine(Name(Entry("?"))))
    BY <1>14 DEF Key
  <2> HIDE DEF Entry, OnNextLine, Name
  <2>2. QED
    BY <1>9, <2>1
<1>15. CASE key.alias = None /\ key.form = "plain"
  <2>1. Key(s, key, of, n) = Write(Name(Put(s, Piece("entry", 0, of))), ":", 1)
    BY <1>15 DEF Key
  <2> HIDE DEF Name
  <2>2. QED
    BY <1>6, <2>1
<1>16. QED
  BY <1>10, <1>11, <1>12, <1>13, <1>14, <1>15

\* The key of an entry in flow style; its question mark begins no entry of a block.
LEMMA BracketsFlowKey ==
  ASSUME NEW s, NEW d, Brackets(s, d), NEW key
  PROVE  Brackets(FlowKey(s, key), d)
<1> DEFINE t == IF key.form = "long" THEN Write(s, "?", 2) ELSE s
           name == Put(Anchor(t, key.anchor), Piece("key", 1, key.from))
<1>1. 1 \in Nat /\ 2 \in Nat /\ "key" \notin Loud /\ "?" \notin Opening \cup Closing
  BY QuietPieces, MarginPieces
<1>2. Brackets(t, d)
  <2>1. ~Bare(Piece("?", 2, 0))
    BY DEF Bare, IsEntry, Piece
  <2>2. Brackets(Put(s, Piece("?", 2, 0)), d)
    BY <1>1, <2>1, BracketsPlain
  <2>3. Brackets(Write(s, "?", 2), d)
    BY <2>2 DEF Write
  <2>4. QED
    BY <2>3
<1>3. FlowKey(s, key) = IF key.alias # None THEN Alias(s, key.alias, key.from) ELSE name
  BY DEF FlowKey
<1> HIDE DEF t
<1>4. Brackets(name, d)
  <2>1. Brackets(Anchor(t, key.anchor), d)
    BY <1>2, BracketsAnchor
  <2>2. QED
    BY <1>1, <2>1, BracketsPiece
<1>5. Brackets(Alias(s, key.alias, key.from), d)
  BY BracketsAlias
<1> HIDE DEF name
<1>6. QED
  BY <1>3, <1>4, <1>5

\* Where an entry begins behind a dash.
LEMMA BracketsInlineStart ==
  ASSUME Brackets(out, 0), Now.indent \in Nat, NEW node
  PROVE  Brackets(InlineStart(node), 0)
<1> DEFINE line == IF Now.index = 1 THEN NewLine(out) ELSE out
<1>1. Brackets(line, 0)
  BY BracketsLine
<1> HIDE DEF line
<1>2. Brackets(Indent(CommentBefore(line, node, Now.indent), Now.indent), 0)
  BY <1>1, BracketsBefore
<1>3. Brackets(Indent(out, Now.indent), 0)
  BY BracketsIndent
<1>4. InlineStart(node) =
        IF node.before THEN Indent(CommentBefore(line, node, Now.indent), Now.indent)
        ELSE IF Now.index > 1 THEN Indent(out, Now.indent) ELSE out
  BY DEF InlineStart, line
<1>5. QED
  BY <1>2, <1>3, <1>4

\* The texts of values and items.
LEMMA BracketsValues ==
  ASSUME NEW s, Brackets(s, 0), NEW node, NEW n \in Nat, setting \in Settings
  PROVE  /\ Brackets(FinishLine(Empty(s, node), node), 0)
         /\ Brackets(FinishLine(Anchor(s, node.anchor), node), 0)
         /\ node.kind \in {"scalar", "null", "alias", "block"} =>
              /\ Brackets(Scalar(s, node, n, node.inline), 0)
              /\ Brackets(FinishLine(Scalar(s, node, n, FALSE), node), 0)
<1>1. Brackets(Empty(s, node), 0) /\ Brackets(Anchor(s, node.anchor), 0)
  BY BracketsEmpty, BracketsAnchor
<1>2. ASSUME node.kind \in {"scalar", "null", "alias", "block"}
      PROVE  \A b : Brackets(Scalar(s, node, n, b), 0)
  BY <1>2, BracketsScalar
<1>3. ASSUME node.kind \in {"scalar", "null", "alias", "block"}
      PROVE  Brackets(Scalar(s, node, n, FALSE), 0) /\ Brackets(Scalar(s, node, n, node.inline), 0)
  BY <1>2, <1>3
<1>4. ASSUME NEW u, Brackets(u, 0) PROVE Brackets(FinishLine(u, node), 0)
  BY <1>4, BracketsInline
<1>5. QED
  BY <1>1, <1>3, <1>4

LEMMA BracketsDash ==
  ASSUME NEW s, Brackets(s, 0)
  PROVE  Brackets(Dash(s), 0)
<1>1. 2 \in Nat /\ "-" \notin Opening \cup Closing
  BY MarginPieces
<1>2. QED
  BY <1>1, BracketsAny DEF Dash

\* The text between documents.
LEMMA BracketsEnded ==
  ASSUME Brackets(out, 0), NEW doc
  PROVE  Brackets(Ended(doc), 0)
<1> DEFINE line == IF Last(out) = <<>> THEN out ELSE NewLine(out)
<1>1. 3 \in Nat /\ "..." \notin Loud
  BY QuietPieces
<1>2. Brackets(line, 0)
  BY BracketsLine
<1> HIDE DEF line
<1>3. Brackets(Marker(line, "..."), 0)
  <2>1. Brackets(Write(line, "...", 3), 0)
    BY <1>1, <1>2, BracketsPiece
  <2>2. QED
    BY <2>1, BracketsLine DEF Marker
<1>4. Ended(doc) = IF doc.end THEN Marker(line, "...") ELSE line
  BY DEF Ended, line
<1>5. QED
  BY <1>2, <1>3, <1>4

(***************************************************************************)
(* What the operations on the stack write.                                 *)
(***************************************************************************)
FlowOps == {"MappingFlow", "SequenceFlow", "MappingFlowEntry", "SequenceFlowItem"}

IsClose(x) == x.op \in {"]", "}"}

Shuts(x) == IF IsClose(x) THEN 1 ELSE 0

\* Operations on the nodes ns that write nothing but what can stand between brackets.
Flat(x, ns) ==
  \/ x.op \in {"]", "}", "flow colon", "strip"} \cup FlowOps
  \/ /\ x.op \in {"Node", "NodeInline", "Mapping", "Sequence"}
     /\ x.id \in Inside(ns) /\ ~IsBlock(ns[x.id])

\* What the operations on flow collections and inline nodes work on.
Apt(x, ns) ==
  /\ x.op \in FlowOps => x.id \in Inside(ns)
  /\ x.op = "NodeInline" => ns[x.id].kind # "block" /\ ~IsBlock(ns[x.id])

\* The stack closes d brackets, and what it does before a bracket is closed can stand between
\* brackets.
Nested(s, d, ns) ==
  \E h \in [0 .. Len(s) -> Nat] :
    /\ h[0] = 0 /\ h[Len(s)] = d
    /\ \A k \in 1 .. Len(s) :
         /\ Apt(s[k], ns) /\ h[k] = h[k - 1] + Shuts(s[k])
         /\ h[k - 1] > 0 => Flat(s[k], ns)

\* An operation that can be pushed while d brackets are open.
Bears(x, d, ns) == ~IsClose(x) /\ Apt(x, ns) /\ (d > 0 => Flat(x, ns))

LEMMA NestedEmpty ==
  ASSUME NEW ns
  PROVE  Nested(<<>>, 0, ns) /\ \A d : Nested(<<>>, d, ns) => d = 0
<1>1. Len(<<>>) = 0 /\ 1 .. 0 = {}
  OBVIOUS
<1>2. [k \in 0 .. 0 |-> 0] \in [0 .. 0 -> Nat] /\ [k \in 0 .. 0 |-> 0][0] = 0
  OBVIOUS
<1>3. Nested(<<>>, 0, ns)
  BY <1>1, <1>2 DEF Nested
<1>4. ASSUME NEW d, Nested(<<>>, d, ns) PROVE d = 0
  BY <1>1, <1>4 DEF Nested
<1>5. QED
  BY <1>3, <1>4

\* The operation at hand, and the rest.
LEMMA NestedPop ==
  ASSUME NEW S, NEW s \in Seq(S), s # <<>>, NEW d, NEW ns, Nested(s, d, ns)
  PROVE  \E e \in Nat : /\ Nested(Front(s), e, ns) /\ d = e + Shuts(Last(s)) /\ Apt(Last(s), ns)
                        /\ e > 0 => Flat(Last(s), ns)
<1> DEFINE f == Front(s)
           m == Len(s)
<1>1. /\ Len(f) = m - 1 /\ \A i \in 1 .. m - 1 : f[i] = s[i]
      /\ Last(s) = s[m] /\ m \in Nat \ {0}
  BY FrontIs
<1>2. PICK h \in [0 .. m -> Nat] :
        /\ h[0] = 0 /\ h[m] = d
        /\ \A k \in 1 .. m : /\ Apt(s[k], ns) /\ h[k] = h[k - 1] + Shuts(s[k])
                             /\ h[k - 1] > 0 => Flat(s[k], ns)
  BY DEF Nested
<1> HIDE DEF f, m
<1> DEFINE g == [k \in 0 .. m - 1 |-> h[k]]
<1>3. g \in [0 .. m - 1 -> Nat] /\ \A k \in 0 .. m - 1 : g[k] = h[k]
  BY <1>1
<1> HIDE DEF g
<1>4. Nested(f, g[m - 1], ns)
  <2>1. g[0] = 0
    BY <1>1, <1>2, <1>3
  <2>2. ASSUME NEW k \in 1 .. m - 1
        PROVE  /\ Apt(f[k], ns) /\ g[k] = g[k - 1] + Shuts(f[k])
               /\ g[k - 1] > 0 => Flat(f[k], ns)
    <3>1. k \in 1 .. m /\ k \in 0 .. m - 1 /\ k - 1 \in 0 .. m - 1
      BY <1>1
    <3>2. f[k] = s[k] /\ g[k] = h[k] /\ g[k - 1] = h[k - 1]
      BY <1>1, <1>3, <3>1
    <3>3. QED
      BY <1>2, <3>1, <3>2
  <2>3. QED
    BY <1>1, <1>3, <2>1, <2>2 DEF Nested
<1>5. /\ g[m - 1] \in Nat /\ d = g[m - 1] + Shuts(s[m]) /\ Apt(s[m], ns)
      /\ g[m - 1] > 0 => Flat(s[m], ns)
  <2>1. m \in 1 .. m /\ m - 1 \in 0 .. m - 1
    BY <1>1
  <2>2. QED
    BY <1>2, <1>3, <2>1
<1>6. Last(s) = s[m]
  BY <1>1
<1>7. QED
  BY <1>4, <1>5, <1>6 DEF f

\* More operations, none of which closes a bracket.
LEMMA NestedJoin ==
  ASSUME NEW S, NEW s \in Seq(S), NEW t \in Seq(S), NEW d, NEW ns, Nested(s, d, ns),
         \A k \in 1 .. Len(t) : Bears(t[k], d, ns)
  PROVE  Nested(s \o t, d, ns)
<1> DEFINE m == Len(s)
           n == Len(t)
           u == s \o t
<1>1. /\ m \in Nat /\ n \in Nat /\ Len(u) = m + n
      /\ \A k \in 1 .. m : u[k] = s[k]
      /\ \A k \in m + 1 .. m + n : u[k] = t[k - m]
  BY ConcatProperties
<1>2. PICK h \in [0 .. m -> Nat] :
        /\ h[0] = 0 /\ h[m] = d
        /\ \A k \in 1 .. m : /\ Apt(s[k], ns) /\ h[k] = h[k - 1] + Shuts(s[k])
                             /\ h[k - 1] > 0 => Flat(s[k], ns)
  BY DEF Nested
<1>3. \A k \in 1 .. n : Bears(t[k], d, ns)
  OBVIOUS
<1> HIDE DEF m, n, u
<1>4. d \in Nat
  BY <1>1, <1>2
<1> DEFINE g == [k \in 0 .. m + n |-> IF k <= m THEN h[k] ELSE d]
<1>5. g \in [0 .. m + n -> Nat] /\ \A k \in 0 .. m : g[k] = h[k]
  BY <1>1, <1>4
<1>6. \A k \in m .. m + n : g[k] = d
  BY <1>1, <1>2
<1> HIDE DEF g
<1>7. g[0] = 0 /\ g[m + n] = d
  BY <1>1, <1>2, <1>5, <1>6
<1>8. ASSUME NEW k \in 1 .. m + n
      PROVE  /\ Apt(u[k], ns) /\ g[k] = g[k - 1] + Shuts(u[k])
             /\ g[k - 1] > 0 => Flat(u[k], ns)
  <2>1. CASE k \in 1 .. m
    <3>1. k \in 0 .. m /\ k - 1 \in 0 .. m /\ u[k] = s[k]
      BY <1>1, <2>1
    <3>2. QED
      BY <1>2, <1>5, <2>1, <3>1
  <2>2. CASE k \notin 1 .. m
    <3>1. k \in m + 1 .. m + n /\ k - m \in 1 .. n /\ k \in m .. m + n /\ k - 1 \in m .. m + n
      BY <1>1, <2>2
    <3>2. u[k] = t[k - m] /\ g[k] = d /\ g[k - 1] = d
      BY <1>1, <1>6, <3>1
    <3>3. Bears(u[k], d, ns)
      BY <1>3, <3>1, <3>2
    <3>4. Shuts(u[k]) = 0 /\ Apt(u[k], ns) /\ (d > 0 => Flat(u[k], ns))
      BY <3>3 DEF Bears, Shuts
    <3>5. QED
      BY <1>4, <3>2, <3>4
  <2>3. QED
    BY <2>1, <2>2
<1>9. QED
  BY <1>1, <1>5, <1>7, <1>8 DEF Nested, u

\* A bracket more to be closed.
LEMMA NestedShut ==
  ASSUME NEW S, NEW s \in Seq(S), NEW d, NEW ns, Nested(s, d, ns), NEW x, IsClose(x), NEW e, e = d + 1
  PROVE  Nested(Append(s, x), e, ns)
<1> DEFINE m == Len(s)
           u == Append(s, x)
<1>1. m \in Nat /\ Len(u) = m + 1 /\ u[m + 1] = x /\ \A k \in 1 .. m : u[k] = s[k]
  BY PlainAppend
<1>2. PICK h \in [0 .. m -> Nat] :
        /\ h[0] = 0 /\ h[m] = d
        /\ \A k \in 1 .. m : /\ Apt(s[k], ns) /\ h[k] = h[k - 1] + Shuts(s[k])
                             /\ h[k - 1] > 0 => Flat(s[k], ns)
  BY DEF Nested
<1> HIDE DEF m, u
<1>3. d \in Nat /\ e \in Nat
  BY <1>1, <1>2
<1> DEFINE g == [k \in 0 .. m + 1 |-> IF k = m + 1 THEN e ELSE h[k]]
<1>4. g \in [0 .. m + 1 -> Nat] /\ g[m + 1] = e /\ \A k \in 0 .. m : g[k] = h[k]
  BY <1>1, <1>3
<1> HIDE DEF g
<1>5. g[0] = 0 /\ g[m] = d
  BY <1>1, <1>2, <1>4
<1>6. Apt(x, ns) /\ Shuts(x) = 1 /\ Flat(x, ns)
  BY DEF Apt, Shuts, Flat, IsClose, FlowOps
<1>7. ASSUME NEW k \in 1 .. m + 1
      PROVE  /\ Apt(u[k], ns) /\ g[k] = g[k - 1] + Shuts(u[k])
             /\ g[k - 1] > 0 => Flat(u[k], ns)
  <2>1. CASE k \in 1 .. m
    <3>1. k \in 0 .. m /\ k - 1 \in 0 .. m /\ u[k] = s[k]
      BY <1>1, <2>1
    <3>2. QED
      BY <1>2, <1>4, <2>1, <3>1
  <2>2. CASE k = m + 1
    <3>1. u[k] = x /\ g[k] = e /\ g[k - 1] = d
      BY <1>1, <1>4, <1>5, <2>2
    <3>2. QED
      BY <1>6, <3>1
  <2>3. QED
    BY <1>1, <2>1, <2>2
<1>8. QED
  BY <1>1, <1>4, <1>5, <1>7 DEF Nested, u

\* The text and the stack agree on the brackets that are open.
GInv == \E d \in Nat : Brackets(out, d) /\ Nested(ops, d, Arena.nodes)

\* The operation at hand, and the e brackets that are open without it.
Holding(e) ==
  /\ e \in Nat /\ Nested(Front(ops), e, Arena.nodes) /\ Brackets(out, e + Shuts(Now))
  /\ Apt(Now, Arena.nodes) /\ (e > 0 => Flat(Now, Arena.nodes))

\* The operations that it may push.
BearOps(e) == {x \in GoodOps : Bears(x, e, Arena.nodes)}

LEMMA HoldingIs ==
  ASSUME EInv, GInv, NEW op, Doing(op)
  PROVE  \E e \in Nat : Holding(e)
<1>1. ops \in Seq(GoodOps) /\ ops # <<>>
  BY DEF EInv, OInv, Doing
<1>2. PICK d \in Nat : Brackets(out, d) /\ Nested(ops, d, Arena.nodes)
  BY DEF GInv
<1> DEFINE ns == Arena.nodes
<1>3. Nested(ops, d, ns)
  BY <1>2
<1> HIDE DEF ns
<1>4. PICK e \in Nat : /\ Nested(Front(ops), e, ns) /\ d = e + Shuts(Last(ops)) /\ Apt(Last(ops), ns)
                       /\ e > 0 => Flat(Last(ops), ns)
  BY <1>1, <1>3, NestedPop
<1>5. Holding(e)
  BY <1>2, <1>4 DEF Holding, Now, ns
<1>6. QED
  BY <1>5

\* An operation that closes no bracket leaves as many open, and one that writes what cannot
\* stand between brackets is at hand only where none is open.
LEMMA HoldingText ==
  ASSUME NEW e, Holding(e), NEW op, Doing(op)
  PROVE  /\ op \notin {"]", "}"} => Brackets(out, e)
         /\ op \in {"FinishLine", "colon", "MappingEntry", "MappingValue", "MappingInlineFirst",
                    "SequenceItem", "SequenceInlineFirst"} => e = 0 /\ Brackets(out, 0)
<1>1. Now.op = op /\ e \in Nat /\ Brackets(out, e + Shuts(Now)) /\ (e > 0 => Flat(Now, Arena.nodes))
  BY DEF Doing, Holding
<1>2. ASSUME op \notin {"]", "}"} PROVE Brackets(out, e)
  <2>1. Shuts(Now) = 0
    BY <1>1, <1>2 DEF Shuts, IsClose
  <2>2. e + Shuts(Now) = e
    BY <1>1, <2>1
  <2>3. QED
    BY <1>1, <2>2
<1>3. ASSUME op \in {"FinishLine", "colon", "MappingEntry", "MappingValue", "MappingInlineFirst",
                     "SequenceItem", "SequenceInlineFirst"}
      PROVE  e = 0 /\ Brackets(out, 0)
  <2>1. ~Flat(Now, Arena.nodes)
    BY <1>1, <1>3 DEF Flat, FlowOps
  <2>2. e = 0
    BY <1>1, <2>1
  <2>3. Brackets(out, e)
    BY <1>2, <1>3
  <2>4. QED
    BY <2>2, <2>3
<1>4. QED
  BY <1>2, <1>3

\* An operation is replaced by others, and no bracket is written that stays open.
LEMMA OpNests ==
  ASSUME EInv, NEW e, Holding(e), NEW op, Doing(op), NEW text, Brackets(text, e),
         NEW next \in Seq(BearOps(e)), Then(text, next)
  PROVE  GInv'
<1>1. UNCHANGED <<avars, writing>> /\ out' = text /\ ops' = Front(ops) \o Reverse(next)
  BY DEF Then
<1>2. Front(ops) \in Seq(GoodOps)
  <2>1. ops \in Seq(GoodOps) /\ ops # <<>>
    BY DEF EInv, OInv, Doing
  <2>2. QED
    BY <2>1, FrontIs
<1> DEFINE B == BearOps(e)
           r == Reverse(next)
<1>3. r \in Seq(B)
  <2> HIDE DEF B
  <2>1. next \in Seq(B)
    BY DEF B
  <2>2. QED
    BY <2>1, ReverseIs
<1>4. r \in Seq(GoodOps) /\ \A k \in 1 .. Len(r) : Bears(r[k], e, Arena.nodes)
  <2> HIDE DEF r
  <2>1. \A k \in 1 .. Len(r) : r[k] \in B
    BY <1>3, ElementOfSeq
  <2>2. Seq(B) \subseteq Seq(GoodOps)
    BY SeqMonotonic DEF BearOps
  <2>3. QED
    BY <1>3, <2>1, <2>2 DEF BearOps
<1> HIDE DEF r
<1>5. Nested(Front(ops), e, Arena.nodes) /\ e \in Nat
  BY DEF Holding
<1> DEFINE f == Front(ops)
           ns == Arena.nodes
<1>6. f \in Seq(GoodOps) /\ Nested(f, e, ns) /\ \A k \in 1 .. Len(r) : Bears(r[k], e, ns)
  BY <1>2, <1>4, <1>5
<1> HIDE DEF f, ns
<1>7. Nested(f \o r, e, ns)
  BY <1>4, <1>6, NestedJoin
<1>8. ops' = f \o r /\ out' = text /\ Arena.nodes' = ns
  BY <1>1 DEF f, r, ns, Arena, avars
<1>9. Brackets(out', e) /\ Nested(ops', e, Arena.nodes')
  BY <1>7, <1>8
<1>10. QED
  BY <1>5, <1>9 DEF GInv

\* No operation more.
LEMMA NoneBear ==
  ASSUME NEW e
  PROVE  <<>> \in Seq(BearOps(e))
BY EmptySeq

LEMMA NoneIsOpen == ~(0 > 0)
OBVIOUS

\* Operations that can be pushed anywhere, and those that can where no bracket is open.
LEMMA BearsHere ==
  ASSUME NEW x \in GoodOps, x.op \notin {"]", "}", "NodeInline"} \cup FlowOps
  PROVE  x \in BearOps(0)
<1>1. ~IsClose(x) /\ Apt(x, Arena.nodes)
  BY DEF IsClose, Apt
<1>2. ~(0 > 0)
  BY NoneIsOpen
<1>3. Bears(x, 0, Arena.nodes)
  BY <1>1, <1>2, Zenon DEF Bears
<1>4. QED
  BY <1>3 DEF BearOps

\* The colon and the strip behind a key in a flow collection.
LEMMA BearsText ==
  ASSUME NEW e, NEW x \in GoodOps, x.op \in {"strip", "flow colon"}
  PROVE  x \in BearOps(e)
<1>1. ~IsClose(x) /\ Apt(x, Arena.nodes) /\ Flat(x, Arena.nodes)
  BY DEF IsClose, Apt, Flat, FlowOps
<1>2. QED
  BY <1>1 DEF BearOps, Bears

\* Operations on flow collections, on collections and on nodes.
LEMMA BearsFlow ==
  ASSUME NEW e, NEW x \in GoodOps, x.op \in FlowOps, x.id \in Inside(Arena.nodes)
  PROVE  x \in BearOps(e)
<1>1. ~IsClose(x) /\ Apt(x, Arena.nodes) /\ Flat(x, Arena.nodes)
  BY DEF IsClose, Apt, Flat, FlowOps
<1>2. QED
  BY <1>1 DEF BearOps, Bears

LEMMA BearsNode ==
  ASSUME NEW e, NEW x \in GoodOps, x.op \in {"Node", "NodeInline", "Mapping", "Sequence"},
         e > 0 => x.id \in Inside(Arena.nodes) /\ ~IsBlock(At(x.id)),
         x.op = "NodeInline" => At(x.id).kind # "block" /\ ~IsBlock(At(x.id))
  PROVE  x \in BearOps(e)
<1>1. ~IsClose(x) /\ Apt(x, Arena.nodes)
  BY DEF IsClose, Apt, FlowOps, At
<1>2. e > 0 => Flat(x, Arena.nodes)
  BY DEF Flat, At
<1>3. QED
  BY <1>1, <1>2 DEF BearOps, Bears

(***************************************************************************)
(* What the emitter's operations do to the brackets: on nodes, collections, *)
(* on entries and items in block style, and on those in flow style.        *)
(***************************************************************************)
\* A flow collection can be written between brackets, and so can its children.
LEMMA FlowInside ==
  ASSUME FInv, NEW id, InArena(id), At(id).flow
  PROVE  id \in Inside(Arena.nodes)
<1>1. writing \in DOMAIN arenas /\ id \in DOMAIN Arena.nodes /\ Arena.nodes[id].flow
  BY DEF InArena, At
<1>2. FlowsInside(Arena.nodes)
  BY <1>1 DEF FInv, Arena
<1>3. QED
  BY <1>1, <1>2 DEF FlowsInside

LEMMA ChildInside ==
  ASSUME NEW id \in Inside(Arena.nodes)
  PROVE  /\ At(id).kind # "block"
         /\ IsCollection(At(id)) =>
              \A c \in ToSet(Children(At(id))) :
                /\ c \in Inside(Arena.nodes) /\ At(c).kind # "block"
                /\ At(id).kind = "mapping" => ~IsBlock(At(c))
<1>1. Enclosed(Arena.nodes, Inside(Arena.nodes))
  BY InsideIs
<1>2. \A i \in Inside(Arena.nodes) : Arena.nodes[i].kind # "block"
  BY <1>1 DEF Enclosed
<1>3. IsCollection(Arena.nodes[id]) =>
        \A c \in ToSet(Children(Arena.nodes[id])) :
          c \in Inside(Arena.nodes) /\ (Arena.nodes[id].kind = "mapping" => ~IsBlock(Arena.nodes[c]))
  BY <1>1 DEF Enclosed
<1>4. QED
  BY <1>2, <1>3 DEF At

LEMMA HeldText ==
  ASSUME NEW e, Holding(e), NEW op, Doing(op), op \notin {"]", "}"}
  PROVE  Brackets(out, e)
BY HoldingText

\* The operations on the text alone.
LEMMA TextOpsNest ==
  ASSUME EInv, FInv, GInv, DoWrite \/ DoFinishLine \/ DoStrip \/ DoColon \/ DoFlowColon
  PROVE  GInv'
<1>1. OInv /\ 1 \in Nat /\ 2 \in Nat /\ ":" \notin Loud
  BY InvParts, QuietPieces
<1>2. CASE DoWrite
  <2>1. PICK b \in {"]", "}"} : Doing(b) /\ Then(Write(out, b, 1), <<>>)
    BY <1>2 DEF DoWrite
  <2>2. PICK e \in Nat : Holding(e)
    BY <2>1, HoldingIs
  <2>3. Brackets(out, e + 1)
    <3>1. Shuts(Now) = 1
      BY <2>1 DEF Shuts, IsClose, Doing
    <3>2. QED
      BY <2>2, <3>1 DEF Holding
  <2>4. b \in Closing
    BY DEF Closing
  <2>5. Brackets(Write(out, b, 1), e)
    BY <1>1, <2>3, <2>4, BracketsClose DEF Write
  <2>6. <<>> \in Seq(BearOps(e))
    BY NoneBear
  <2>7. QED
    BY <2>1, <2>2, <2>5, <2>6, OpNests
<1>3. CASE DoFinishLine
  <2>1. Doing("FinishLine") /\ Then(FinishLine(out, At(Now.id)), <<>>)
    BY <1>3 DEF DoFinishLine
  <2>2. PICK e \in Nat : Holding(e)
    BY <2>1, HoldingIs
  <2>3. e = 0 /\ Brackets(out, 0)
    BY <2>1, <2>2, HoldingText
  <2>4. Brackets(FinishLine(out, At(Now.id)), e)
    BY <2>3, BracketsInline
  <2>5. <<>> \in Seq(BearOps(e))
    BY NoneBear
  <2>6. QED
    BY <2>1, <2>2, <2>4, <2>5, OpNests
<1>4. CASE DoStrip
  <2>1. PICK text : text = (IF Last(out) = <<>> THEN Front(out) ELSE out)
                    /\ Doing("strip") /\ Then(text, <<>>)
    BY <1>4 DEF DoStrip
  <2>2. PICK e \in Nat : Holding(e)
    BY <2>1, HoldingIs
  <2>3. Brackets(out, e)
    BY <2>1, <2>2, HeldText
  <2>4. Brackets(text, e)
    BY <2>1, <2>3, BracketsFront
  <2>5. <<>> \in Seq(BearOps(e))
    BY NoneBear
  <2>6. QED
    BY <2>1, <2>2, <2>4, <2>5, OpNests
<1>5. CASE DoColon
  <2>1. Doing("colon") /\ Then(Write(Indent(NewLine(out), Now.indent), ":", 1), <<>>)
    BY <1>5 DEF DoColon
  <2>2. PICK e \in Nat : Holding(e)
    BY <2>1, HoldingIs
  <2>3. e = 0 /\ Brackets(out, 0) /\ Now.indent \in Nat
    BY <1>1, <2>1, <2>2, HoldingText, NowIs DEF AllOps
  <2>4. Brackets(Indent(NewLine(out), Now.indent), 0)
    BY <2>3, BracketsLine, BracketsIndent
  <2>5. Brackets(Write(Indent(NewLine(out), Now.indent), ":", 1), e)
    BY <1>1, <2>3, <2>4, BracketsPiece
  <2>6. <<>> \in Seq(BearOps(e))
    BY NoneBear
  <2>7. QED
    BY <2>1, <2>2, <2>5, <2>6, OpNests
<1>6. CASE DoFlowColon
  <2>1. Doing("flow colon") /\ Then(Write(out, ":", 2), <<>>)
    BY <1>6 DEF DoFlowColon
  <2>2. PICK e \in Nat : Holding(e)
    BY <2>1, HoldingIs
  <2>3. Brackets(out, e)
    BY <2>1, <2>2, HeldText
  <2>4. Brackets(Write(out, ":", 2), e)
    BY <1>1, <2>3, BracketsPiece
  <2>5. <<>> \in Seq(BearOps(e))
    BY NoneBear
  <2>6. QED
    BY <2>1, <2>2, <2>4, <2>5, OpNests
<1>7. QED
  BY <1>2, <1>3, <1>4, <1>5, <1>6

\* Where brackets are open, the node at hand and all below it can be written between them.
LEMMA HeldInside ==
  ASSUME NEW e, Holding(e), NEW op \in {"Node", "NodeInline", "Mapping", "Sequence"}, Doing(op), e > 0
  PROVE  Now.id \in Inside(Arena.nodes) /\ ~IsBlock(At(Now.id)) /\ At(Now.id).kind # "block"
<1>1. Now.op = op /\ Flat(Now, Arena.nodes)
  BY DEF Doing, Holding
<1>2. Now.id \in Inside(Arena.nodes) /\ ~IsBlock(At(Now.id))
  BY <1>1 DEF Flat, FlowOps, At
<1>3. QED
  BY <1>2, ChildInside

\* Node and NodeInline.
LEMMA NodeNests ==
  ASSUME EInv, FInv, GInv, DoNode
  PROVE  GInv'
<1> DEFINE id == Now.id
           node == At(Now.id)
<1>1. Doing("Node") /\ "Node" \in MappingOps \cup SequenceOps \cup {"Node", "NodeInline", "FinishLine"}
  BY DEF DoNode
<1>2. InArena(id) /\ id \in Nat /\ Now.indent \in Nat /\ node \in AllNodes /\ 0 \in Nat
  BY <1>1, Working
<1>3. LInv /\ setting \in Settings
  BY InvParts
<1>4. PICK e \in Nat : Holding(e)
  BY <1>1, HoldingIs
<1>5. Brackets(out, e) /\ <<>> \in Seq(BearOps(e))
  BY <1>1, <1>4, HeldText, NoneBear
<1>6. e > 0 => id \in Inside(Arena.nodes) /\ ~IsBlock(node) /\ node.kind # "block"
  BY <1>1, <1>4, HeldInside
<1>7. ASSUME NEW o \in {"Mapping", "Sequence"}, Op(o, id, 0, Now.indent) \in GoodOps,
             Then(out, <<Op(o, id, 0, Now.indent)>>)
      PROVE  GInv'
  <2> DEFINE x == Op(o, id, 0, Now.indent)
  <2>1. x.op = o /\ x.id = id
    BY OpIs
  <2> HIDE DEF x
  <2>2. x \in BearOps(e)
    <3>1. x \in GoodOps /\ x.op \in {"Node", "NodeInline", "Mapping", "Sequence"} /\ x.op # "NodeInline"
      BY <1>7, <2>1 DEF x
    <3>2. e > 0 => x.id \in Inside(Arena.nodes) /\ ~IsBlock(At(x.id))
      BY <1>6, <2>1
    <3>3. QED
      BY <3>1, <3>2, BearsNode
  <2>3. <<x>> \in Seq(BearOps(e))
    BY <2>2, OneIs
  <2>4. Then(out, <<x>>)
    BY <1>7 DEF x
  <2>5. QED
    BY <1>1, <1>4, <1>5, <2>3, <2>4, OpNests
<1>8. CASE node.kind = "mapping"
  <2>1. Then(out, <<Op("Mapping", id, 0, Now.indent)>>)
    BY <1>8 DEF DoNode
  <2>2. Op("Mapping", id, 0, Now.indent) \in GoodOps
    BY <1>2, <1>3, <1>8, OpKinds, MappingOpsFind
  <2>3. QED
    BY <1>7, <2>1, <2>2
<1>9. CASE node.kind = "sequence"
  <2>1. Then(out, <<Op("Sequence", id, 0, Now.indent)>>)
    BY <1>9 DEF DoNode
  <2>2. Op("Sequence", id, 0, Now.indent) \in GoodOps
    BY <1>2, <1>3, <1>9, OpKinds, SequenceOpsFind
  <2>3. QED
    BY <1>7, <2>1, <2>2
<1>10. CASE node.kind = "alias"
  <2>1. Then(Alias(out, node.name, node.from), <<>>)
    BY <1>10 DEF DoNode
  <2>2. Brackets(Alias(out, node.name, node.from), e)
    BY <1>5, BracketsAlias
  <2>3. QED
    BY <1>1, <1>4, <1>5, <2>1, <2>2, OpNests
<1>11. CASE node.kind \notin {"mapping", "sequence", "alias"}
  <2>1. Then(Scalar(out, node, Now.indent, FALSE), <<>>)
    BY <1>11 DEF DoNode
  <2>2. node.kind \in {"scalar", "null", "alias", "block"}
    BY <1>2, <1>11, NodeKinds
  <2>3. node.kind = "block" => e = 0
    BY <1>4, <1>6
  <2> HIDE DEF node
  <2>4. \A b : Brackets(Scalar(out, node, Now.indent, b), e)
    BY <1>2, <1>3, <1>5, <2>2, <2>3, BracketsScalar
  <2>5. Brackets(Scalar(out, node, Now.indent, FALSE), e)
    BY <2>4
  <2>6. QED
    BY <1>1, <1>4, <1>5, <2>1, <2>5, OpNests
<1>12. QED
  BY <1>8, <1>9, <1>10, <1>11

\* An inline node is never a block.
LEMMA NodeInlineNests ==
  ASSUME EInv, FInv, GInv, DoNodeInline
  PROVE  GInv'
<1> DEFINE whole == Op("Node", Now.id, 0, Now.indent)
<1>1. /\ Doing("NodeInline")
      /\ "NodeInline" \in MappingOps \cup SequenceOps \cup {"Node", "NodeInline", "FinishLine"}
  BY DEF DoNodeInline
<1>2. InArena(Now.id) /\ Now.indent \in Nat /\ 0 \in Nat /\ LInv
  BY <1>1, Working, InvParts
<1>3. whole \in GoodOps
  BY <1>2, NodeOps
<1>4. PICK e \in Nat : Holding(e)
  BY <1>1, HoldingIs
<1>5. Brackets(out, e)
  BY <1>1, <1>4, HeldText
<1>6. Then(out, <<whole>>)
  <2>1. At(Now.id).kind # "block" /\ ~IsBlock(At(Now.id))
    BY <1>1, <1>4 DEF Holding, Apt, Doing, At
  <2>2. QED
    BY <2>1 DEF DoNodeInline
<1>7. whole.op = "Node" /\ whole.id = Now.id
  BY OpIs
<1> HIDE DEF whole
<1>8. e > 0 => whole.id \in Inside(Arena.nodes) /\ ~IsBlock(At(whole.id))
  BY <1>1, <1>4, <1>7, HeldInside
<1>9. whole \in BearOps(e)
  BY <1>3, <1>7, <1>8, BearsNode
<1>10. <<whole>> \in Seq(BearOps(e))
  BY <1>9, OneIs
<1>11. QED
  BY <1>1, <1>4, <1>5, <1>6, <1>10, OpNests

\* A whole collection: in block style it is at hand only where no bracket is open.
LEMMA CollectionNests ==
  ASSUME EInv, FInv, GInv, NEW kind, NEW empty, NEW flow \in FlowOps, NEW first,
         Collection(kind, empty, flow, first), empty \notin Loud,
         \/ /\ kind = "Mapping" /\ flow \in MappingOps /\ first = "MappingEntry"
         \/ /\ kind = "Sequence" /\ flow \in SequenceOps /\ first = "SequenceItem"
  PROVE  GInv'
<1> DEFINE id == Now.id
           node == At(Now.id)
           anchored == IF Now.indent = 0 /\ node.anchor # None THEN NewLine(Anchor(out, node.anchor))
                       ELSE out
           bare == NewLine(Put(anchored, Piece(empty, 2, node.from)))
           x == Op(flow, id, 1, 0)
           y == Op(first, id, 1, Now.indent)
<1>1. Doing(kind) /\ kind \in MappingOps \cup SequenceOps
      /\ kind \in {"Node", "NodeInline", "Mapping", "Sequence"} /\ kind \notin {"]", "}"}
  BY OpKinds DEF Collection
<1>2. InArena(id) /\ id \in Nat /\ Now.indent \in Nat /\ 0 \in Nat /\ 1 \in Nat /\ 2 \in Nat
  BY <1>1, Working
<1>3. LInv
  BY InvParts
<1>4. PICK e \in Nat : Holding(e)
  BY <1>1, HoldingIs
<1>5. Brackets(out, e) /\ <<>> \in Seq(BearOps(e))
  BY <1>1, <1>4, HeldText, NoneBear
<1>6. IsCollection(node) /\ x \in GoodOps /\ y \in GoodOps
  <2>1. CASE kind = "Mapping" /\ flow \in MappingOps /\ first = "MappingEntry"
    <3>1. node.kind = "mapping" /\ "Mapping" \in MappingOps
      BY <1>1, <2>1, Working, OpKinds
    <3>2. flow # "MappingValue" /\ first # "MappingValue" /\ first \in MappingOps
      BY <2>1, OpKinds DEF FlowOps
    <3>3. QED
      BY <1>2, <1>3, <2>1, <3>1, <3>2, MappingOpsFind DEF IsCollection
  <2>2. CASE kind = "Sequence" /\ flow \in SequenceOps /\ first = "SequenceItem"
    <3>1. node.kind = "sequence" /\ first \in SequenceOps
      BY <1>1, <2>2, Working, OpKinds
    <3>2. QED
      BY <1>2, <1>3, <2>2, <3>1, SequenceOpsFind DEF IsCollection
  <2>3. QED
    BY <2>1, <2>2
<1>7. x.op = flow /\ x.id = id /\ y.op = first
  BY OpIs
<1>8. CASE node.flow
  <2>1. Then(out, <<x>>)
    BY <1>8 DEF Collection
  <2> HIDE DEF x
  <2>2. x \in BearOps(e)
    BY <1>2, <1>6, <1>7, <1>8, FlowInside, BearsFlow
  <2>3. <<x>> \in Seq(BearOps(e))
    BY <2>2, OneIs
  <2>4. QED
    BY <1>1, <1>4, <1>5, <2>1, <2>3, OpNests
<1>9. CASE ~node.flow
  <2>1. e = 0
    <3>1. IsBlock(node)
      BY <1>6, <1>9 DEF IsBlock
    <3>2. e > 0 => ~IsBlock(node)
      BY <1>1, <1>4, HeldInside
    <3>3. QED
      BY <1>4, <3>1, <3>2
  <2>2. Brackets(out, 0)
    BY <1>5, <2>1
  <2>3. Brackets(anchored, 0)
    <3>1. Brackets(NewLine(Anchor(out, node.anchor)), 0)
      BY <2>2, BracketsAnchor, BracketsLine
    <3>2. QED
      BY <2>2, <3>1
  <2>4. Then(bare, <<>>) \/ Then(anchored, <<y>>)
    BY <1>9 DEF Collection
  <2> HIDE DEF anchored, y
  <2>5. Brackets(bare, e)
    <3>1. Brackets(Put(anchored, Piece(empty, 2, node.from)), 0)
      BY <1>2, <2>3, BracketsPiece
    <3>2. Brackets(bare, 0)
      BY <3>1, BracketsLine
    <3> HIDE DEF bare
    <3>3. QED
      BY <2>1, <3>2
  <2> HIDE DEF bare
  <2>6. y \in BearOps(e)
    <3>1. y.op \notin {"]", "}", "NodeInline"} \cup FlowOps
      BY <1>7 DEF FlowOps
    <3>2. y \in BearOps(0)
      BY <1>6, <3>1, BearsHere
    <3>3. QED
      BY <2>1, <3>2
  <2>7. <<y>> \in Seq(BearOps(e)) /\ Brackets(anchored, e)
    BY <2>1, <2>3, <2>6, OneIs
  <2>8. QED
    BY <1>1, <1>4, <1>5, <2>4, <2>5, <2>7, OpNests
<1>10. QED
  BY <1>8, <1>9

\* Mapping and Sequence.
LEMMA WholeCollectionsNest ==
  ASSUME EInv, FInv, GInv, DoMapping \/ DoSequence
  PROVE  GInv'
<1>1. CASE DoMapping
  <2>1. Collection("Mapping", "{}", "MappingFlow", "MappingEntry")
    BY <1>1 DEF DoMapping
  <2>2. "MappingFlow" \in MappingOps /\ "MappingFlow" \in FlowOps /\ "{}" \notin Loud
    BY OpKinds, QuietPieces DEF FlowOps
  <2>3. QED
    BY <2>1, <2>2, CollectionNests
<1>2. CASE DoSequence
  <2>1. Collection("Sequence", "[]", "SequenceFlow", "SequenceItem")
    BY <1>2 DEF DoSequence
  <2>2. "SequenceFlow" \in SequenceOps /\ "SequenceFlow" \in FlowOps /\ "[]" \notin Loud
    BY OpKinds, QuietPieces DEF FlowOps
  <2>3. QED
    BY <2>1, <2>2, CollectionNests
<1>3. QED
  BY <1>1, <1>2

\* Two sequences, one after the other.
LEMMA ConcatIs ==
  ASSUME NEW S, NEW s \in Seq(S), NEW t \in Seq(S)
  PROVE  /\ s \o t \in Seq(S) /\ Len(s \o t) = Len(s) + Len(t)
         /\ \A i \in 1 .. Len(s) : (s \o t)[i] = s[i]
         /\ \A i \in 1 .. Len(t) : (s \o t)[Len(s) + i] = t[i]
<1> DEFINE m == Len(s)
           n == Len(t)
           x == s \o t
<1>1. /\ x \in Seq(S) /\ Len(x) = m + n /\ m \in Nat /\ n \in Nat
      /\ \A i \in 1 .. m + n : x[i] = IF i <= m THEN s[i] ELSE t[i - m]
  BY ConcatProperties
<1> HIDE DEF x, m, n
<1>2. \A i \in 1 .. m : x[i] = s[i]
  BY <1>1
<1>3. ASSUME NEW i \in 1 .. n PROVE x[m + i] = t[i]
  <2>1. m + i \in 1 .. m + n /\ ~(m + i <= m) /\ (m + i) - m = i
    BY <1>1
  <2>2. QED
    BY <1>1, <2>1
<1>4. QED
  BY <1>1, <1>2, <1>3 DEF x, m, n

\* Two operations are pushed in their order.
LEMMA TwoPushed ==
  ASSUME NEW S, NEW s \in Seq(S), NEW a \in S, NEW b \in S
  PROVE  s \o Reverse(<<a, b>>) = Append(s, b) \o <<a>>
<1> DEFINE t == <<a, b>>
           r == Reverse(t)
           u == Append(s, b)
           o == <<a>>
<1>1. t \in Seq(S) /\ Len(t) = 2 /\ t[1] = a /\ t[2] = b
  OBVIOUS
<1> HIDE DEF t
<1>2. r \in Seq(S) /\ Len(r) = 2 /\ \A i \in 1 .. 2 : r[i] = t[(2 - i) + 1]
  BY <1>1, ReverseIs
<1> HIDE DEF r
<1>3. r[1] = b /\ r[2] = a
  <2>1. 1 \in 1 .. 2 /\ 2 \in 1 .. 2 /\ (2 - 1) + 1 = 2 /\ (2 - 2) + 1 = 1
    OBVIOUS
  <2>2. QED
    BY <1>1, <1>2, <2>1
<1> DEFINE m == Len(s)
<1>4. u \in Seq(S) /\ Len(u) = m + 1 /\ u[m + 1] = b /\ (\A i \in 1 .. m : u[i] = s[i]) /\ m \in Nat
  BY PlainAppend, AppendProperties
<1>5. o \in Seq(S) /\ Len(o) = 1 /\ o[1] = a
  OBVIOUS
<1> HIDE DEF u, o
<1> DEFINE x == s \o r
           y == u \o o
<1>6. r \in Seq(S) /\ u \in Seq(S) /\ o \in Seq(S)
  BY <1>2, <1>4, <1>5
<1>7. /\ x \in Seq(S) /\ Len(x) = Len(s) + Len(r)
      /\ \A i \in 1 .. Len(s) : x[i] = s[i]
      /\ \A i \in 1 .. Len(r) : x[Len(s) + i] = r[i]
  BY <1>6, ConcatIs
<1>8. /\ y \in Seq(S) /\ Len(y) = Len(u) + Len(o)
      /\ \A i \in 1 .. Len(u) : y[i] = u[i]
      /\ \A i \in 1 .. Len(o) : y[Len(u) + i] = o[i]
  BY <1>6, ConcatIs
<1> HIDE DEF x, y, m
<1>9. Len(s) = m
  BY DEF m
<1>10. Len(x) = m + 2 /\ x[m + 1] = b /\ x[m + 2] = a
  BY <1>2, <1>3, <1>7, <1>9
<1>11. Len(y) = m + 2 /\ y[m + 1] = b /\ y[m + 2] = a
  <2>1. m + 1 \in 1 .. m + 1 /\ 1 \in 1 .. 1 /\ (m + 1) + 1 = m + 2
    BY <1>4
  <2>2. QED
    BY <1>4, <1>5, <1>8, <2>1
<1>12. \A i \in 1 .. m : y[i] = s[i]
  BY <1>4, <1>8
<1>13. \A i \in 1 .. m + 2 : i \in 1 .. m \/ i = m + 1 \/ i = m + 2
  BY <1>4
<1>14. \A i \in 1 .. Len(x) : x[i] = y[i]
  BY <1>7, <1>10, <1>11, <1>12, <1>13, <1>9
<1>15. x = y
  BY <1>7, <1>8, <1>10, <1>11, <1>14, SeqEqual
<1>16. QED
  BY <1>15 DEF x, y, r, t, u, o

LEMMA OneAlone ==
  ASSUME NEW a
  PROVE  \A k \in 1 .. Len(<<a>>) : <<a>>[k] = a
OBVIOUS

LEMMA OneMore ==
  ASSUME NEW n \in Nat
  PROVE  n + 1 \in Nat
OBVIOUS

\* MappingFlow and SequenceFlow: a bracket, which an operation closes.
LEMMA FlowStartNests ==
  ASSUME EInv, FInv, GInv, NEW kind \in FlowOps, NEW open \in Opening, NEW bracket \in {"]", "}"},
         NEW first \in FlowOps, FlowStart(kind, open, bracket, first),
         \/ kind \in MappingOps /\ first \in MappingOps \ {"MappingValue"}
         \/ kind \in SequenceOps /\ first \in SequenceOps
  PROVE  GInv'
<1> DEFINE id == Now.id
           node == At(Now.id)
           text == Put(Anchor(out, node.anchor), Piece(open, 1, node.from))
           a == Op(first, id, 1, 0)
           c == Close(bracket)
           ns == Arena.nodes
           f == Front(ops)
<1>1. Doing(kind) /\ Then(text, <<a, c>>) /\ kind \notin {"]", "}"}
  BY DEF FlowStart, FlowOps
<1>2. InArena(id) /\ id \in Nat /\ 0 \in Nat /\ 1 \in Nat
  BY <1>1, Working
<1>3. LInv /\ ops \in Seq(GoodOps) /\ ops # <<>>
  BY <1>1, InvParts DEF OInv, Doing
<1>4. PICK e \in Nat : Holding(e)
  BY <1>1, HoldingIs
<1>5. Brackets(out, e) /\ Nested(f, e, ns) /\ id \in Inside(ns)
  <2>1. Brackets(out, e)
    BY <1>1, <1>4, HeldText
  <2>2. QED
    BY <1>1, <1>4, <2>1 DEF Holding, Apt, Doing
<1>6. Brackets(text, e + 1)
  <2>1. Brackets(Anchor(out, node.anchor), e)
    BY <1>5, BracketsAnchor
  <2>2. QED
    BY <1>2, <2>1, BracketsOpen
<1>7. a \in GoodOps
  <2>1. CASE kind \in MappingOps /\ first \in MappingOps \ {"MappingValue"}
    <3>1. At(id).kind = "mapping" /\ first \in MappingOps /\ first # "MappingValue"
      BY <1>1, <2>1, Working
    <3>2. QED
      BY <1>2, <1>3, <3>1, MappingOpsFind
  <2>2. CASE kind \in SequenceOps /\ first \in SequenceOps
    <3>1. At(id).kind = "sequence"
      BY <1>1, <2>2, Working
    <3>2. QED
      BY <1>2, <1>3, <2>2, <3>1, SequenceOpsFind
  <2>3. QED
    BY <2>1, <2>2
<1>8. c \in GoodOps /\ c.op = bracket
  <2>1. Close("]") \in GoodOps /\ Close("}") \in GoodOps
    BY <1>2, TextOps
  <2>2. c \in GoodOps
    BY <2>1
  <2>3. c.op = bracket
    BY DEF Close, Op
  <2>4. QED
    BY <2>2, <2>3
<1>9. a.op = first /\ a.id = id
  BY DEF Op
<1>10. UNCHANGED <<avars, writing>> /\ out' = text /\ ops' = f \o Reverse(<<a, c>>)
  BY <1>1 DEF Then
<1>11. Arena.nodes' = ns
  BY <1>10 DEF Arena, avars
<1>12. f \in Seq(GoodOps)
  BY <1>3, FrontIs
<1> HIDE DEF id, node, text, a, c, ns, f
<1>13. ops' = Append(f, c) \o <<a>>
  BY <1>7, <1>8, <1>10, <1>12, TwoPushed
<1> DEFINE d == e + 1
           u == Append(f, c)
           o == <<a>>
<1>14. d \in Nat
  BY OneMore
<1>15. Nested(u, d, ns)
  <2>1. IsClose(c)
    BY <1>8 DEF IsClose
  <2>2. QED
    BY <1>5, <1>12, <2>1, NestedShut
<1>16. u \in Seq(GoodOps) /\ o \in Seq(GoodOps) /\ \A k \in 1 .. Len(o) : o[k] = a
  <2>1. u \in Seq(GoodOps)
    BY <1>8, <1>12, AppendProperties
  <2>2. o \in Seq(GoodOps)
    BY <1>7, OneIs
  <2>3. \A k \in 1 .. Len(o) : o[k] = a
    BY OneAlone
  <2>4. QED
    BY <2>1, <2>2, <2>3
<1>17. Bears(a, d, ns)
  BY <1>5, <1>9 DEF Bears, IsClose, Apt, Flat, FlowOps
<1> HIDE DEF d, u, o
<1>18. Nested(u \o o, d, ns)
  <2>1. \A k \in 1 .. Len(o) : Bears(o[k], d, ns)
    BY <1>16, <1>17
  <2>2. QED
    BY <1>15, <1>16, <2>1, NestedJoin
<1>19. Brackets(out', d) /\ Nested(ops', d, Arena.nodes')
  BY <1>6, <1>10, <1>11, <1>13, <1>18 DEF d, u, o
<1>20. QED
  BY <1>14, <1>19 DEF GInv

LEMMA FlowStartsNest ==
  ASSUME EInv, FInv, GInv, DoMappingFlow \/ DoSequenceFlow
  PROVE  GInv'
<1>1. /\ "MappingFlow" \in FlowOps /\ "MappingFlowEntry" \in FlowOps
      /\ "SequenceFlow" \in FlowOps /\ "SequenceFlowItem" \in FlowOps
      /\ "{" \in Opening /\ "[" \in Opening
  BY DEF FlowOps, Opening
<1>2. CASE DoMappingFlow
  <2>1. FlowStart("MappingFlow", "{", "}", "MappingFlowEntry")
    BY <1>2 DEF DoMappingFlow
  <2>2. "MappingFlow" \in MappingOps /\ "MappingFlowEntry" \in MappingOps \ {"MappingValue"}
    BY DEF MappingOps
  <2>3. QED
    BY <1>1, <2>1, <2>2, FlowStartNests
<1>3. CASE DoSequenceFlow
  <2>1. FlowStart("SequenceFlow", "[", "]", "SequenceFlowItem")
    BY <1>3 DEF DoSequenceFlow
  <2>2. "SequenceFlow" \in SequenceOps /\ "SequenceFlowItem" \in SequenceOps
    BY DEF SequenceOps
  <2>3. QED
    BY <1>1, <2>1, <2>2, FlowStartNests
<1>4. QED
  BY <1>2, <1>3

\* A collection whose entries are done.
LEMMA DoneWithNests ==
  ASSUME EInv, FInv, GInv, NEW op, DoneWith(op), op \notin {"]", "}"}
  PROVE  GInv'
<1>1. Doing(op) /\ Then(out, <<>>)
  BY DEF DoneWith
<1>2. PICK e \in Nat : Holding(e)
  BY <1>1, HoldingIs
<1>3. Brackets(out, e) /\ <<>> \in Seq(BearOps(e))
  BY <1>1, <1>2, HeldText, NoneBear
<1>4. QED
  BY <1>1, <1>2, <1>3, OpNests

\* The operations on block collections.
BlockOps ==
  {"MappingEntry", "MappingValue", "MappingInlineFirst", "SequenceItem", "SequenceInlineFirst"}

\* They are at hand where no bracket is open, and may push what is no close, flow collection
\* or inline node.
LEMMA AtMargin ==
  ASSUME EInv, FInv, GInv, NEW op \in BlockOps, Doing(op)
  PROVE  Holding(0) /\ Brackets(out, 0)
<1>1. PICK e \in Nat : Holding(e)
  BY HoldingIs
<1>2. e = 0 /\ Brackets(out, 0)
  BY <1>1, HoldingText DEF BlockOps
<1>3. QED
  BY <1>1, <1>2

LEMMA MarginOps ==
  ASSUME OInv, NEW op \in BlockOps, Doing(op), NEW n, NEW id
  PROVE  /\ Strip \in GoodOps => Strip \in BearOps(0)
         /\ Colon(n) \in GoodOps => Colon(n) \in BearOps(0)
         /\ ValueOp \in GoodOps => ValueOp \in BearOps(0)
         /\ Again \in GoodOps => Again \in BearOps(0)
         /\ Op("Node", id, 0, n) \in GoodOps => Op("Node", id, 0, n) \in BearOps(0)
         /\ Op("FinishLine", id, 0, 0) \in GoodOps => Op("FinishLine", id, 0, 0) \in BearOps(0)
<1>1. ASSUME NEW o \in BlockOps \cup {"strip", "colon", "Node", "FinishLine"}, NEW x \in GoodOps, x.op = o
      PROVE  x \in BearOps(0)
  <2>1. x.op \notin {"]", "}", "NodeInline"} \cup FlowOps
    BY <1>1 DEF BlockOps, FlowOps
  <2>2. QED
    BY <2>1, BearsHere
<1>2. Strip.op = "strip" /\ Colon(n).op = "colon"
  BY DEF Strip, Colon, Op
<1>3. ValueOp.op = "MappingValue" /\ Again.op = op
  <2>1. /\ Again = Op(op, Now.id, Now.index + 1, Now.indent)
        /\ ValueOp = Op("MappingValue", Now.id, Now.index, Now.indent)
    BY NowAgain
  <2>2. QED
    BY <2>1 DEF Op
<1>4. Op("Node", id, 0, n).op = "Node" /\ Op("FinishLine", id, 0, 0).op = "FinishLine"
  BY DEF Op
<1>5. "MappingValue" \in BlockOps
  BY DEF BlockOps
<1>6. QED
  BY <1>1, <1>2, <1>3, <1>4, <1>5

\* MappingEntry.
LEMMA MappingEntryNests ==
  ASSUME EInv, FInv, GInv, DoMappingEntry
  PROVE  GInv'
<1>1. CASE DoneWith("MappingEntry")
  BY <1>1, DoneWithNests
<1>2. CASE ~DoneWith("MappingEntry")
  <2> DEFINE key == At(Now.id).parts[Now.index]
             start == Indent(CommentBefore(out, At(key.value), Now.indent), Now.indent)
             from == At(Now.id).from
             asked == Put(start, Piece("?", 2, from))
             text == IF IsBlock(At(key.node)) THEN NewLine(asked) ELSE asked
             inner == Op("Node", key.node, 0, Now.indent + setting.step)
  <2>1. Doing("MappingEntry") /\ MoreEntries
    BY <1>2 DEF DoMappingEntry
  <2>2. "MappingEntry" \in MappingOps \ {"MappingValue"} /\ "MappingEntry" \in BlockOps /\ 2 \in Nat
        /\ "?" \notin Opening \cup Closing
    BY MarginPieces DEF MappingOps, BlockOps
  <2>3. LInv /\ OInv /\ setting \in Settings /\ setting.step \in Nat
    BY InvParts
  <2>4. Now.indent \in Nat
    BY <2>1, <2>2, Working
  <2>5. Holding(0) /\ Brackets(out, 0)
    BY <2>1, <2>2, AtMargin
  <2>6. Brackets(start, 0)
    BY <2>4, <2>5, BracketsBefore
  <2>7. key \in EntryParts /\ ValueOp \in GoodOps /\ Again \in GoodOps
        /\ (key.form = "node" => InArena(key.node))
    BY <2>1, <2>2, EntryAtHand
  <2>8. Colon(Now.indent) \in GoodOps /\ Strip \in GoodOps
    BY <2>4, TextOps
  <2>9. \/ key.form = "node" /\ Then(text, <<inner, Strip, Colon(Now.indent), ValueOp, Again>>)
        \/ Then(Key(start, key, from, Now.indent), <<ValueOp, Again>>)
    BY <1>2 DEF DoMappingEntry
  <2>10. key.form = "node" => inner \in GoodOps
    <3>1. Now.indent + setting.step \in Nat
      BY <2>3, <2>4
    <3>2. QED
      BY <2>3, <2>7, <3>1, NodeOps
  <2>11. /\ ValueOp \in BearOps(0) /\ Again \in BearOps(0) /\ Strip \in BearOps(0)
         /\ Colon(Now.indent) \in BearOps(0)
    BY <2>1, <2>2, <2>3, <2>7, <2>8, MarginOps
  <2>12. key.form = "node" => inner \in BearOps(0)
    BY <2>1, <2>2, <2>3, <2>10, MarginOps
  <2> HIDE DEF start, from
  <2>13. Brackets(text, 0)
    <3>1. Brackets(asked, 0)
      BY <2>2, <2>6, BracketsAny
    <3> HIDE DEF asked
    <3>2. QED
      BY <3>1, BracketsLine
  <2>14. Brackets(Key(start, key, from, Now.indent), 0)
    BY <2>3, <2>4, <2>6, <2>7, BracketsKey
  <2> HIDE DEF text, inner, key
  <2>15. <<ValueOp, Again>> \in Seq(BearOps(0))
    BY <2>11
  <2>16. key.form = "node" => <<inner, Strip, Colon(Now.indent), ValueOp, Again>> \in Seq(BearOps(0))
    BY <2>11, <2>12, FiveOf
  <2>17. QED
    BY <2>1, <2>5, <2>9, <2>13, <2>14, <2>15, <2>16, OpNests
<1>3. QED
  BY <1>1, <1>2

\* The first entry of a mapping behind a dash, and those below it.
LEMMA MappingInlineFirstNests ==
  ASSUME EInv, FInv, GInv, DoMappingInlineFirst
  PROVE  GInv'
<1>1. CASE DoneWith("MappingInlineFirst")
  BY <1>1, DoneWithNests
<1>2. CASE ~DoneWith("MappingInlineFirst")
  <2> DEFINE key == At(Now.id).parts[Now.index]
             start == InlineStart(At(key.value))
             from == At(Now.id).from
             text == Key(start, key, from, Now.indent)
  <2>1. Doing("MappingInlineFirst") /\ MoreEntries /\ Then(text, <<ValueOp, Again>>)
    BY <1>2 DEF DoMappingInlineFirst
  <2>2. "MappingInlineFirst" \in MappingOps \ {"MappingValue"} /\ "MappingInlineFirst" \in BlockOps
    BY DEF MappingOps, BlockOps
  <2>3. OInv /\ setting \in Settings /\ Now.indent \in Nat
    BY <2>1, <2>2, InvParts, Working
  <2>4. Holding(0) /\ Brackets(out, 0)
    BY <2>1, <2>2, AtMargin
  <2>5. Brackets(start, 0)
    BY <2>3, <2>4, BracketsInlineStart, SMTT(30)
  <2>6. key \in EntryParts /\ ValueOp \in GoodOps /\ Again \in GoodOps
    BY <2>1, <2>2, EntryAtHand
  <2>7. ValueOp \in BearOps(0) /\ Again \in BearOps(0)
    BY <2>1, <2>2, <2>3, <2>6, MarginOps
  <2> HIDE DEF start, from, key
  <2>8. Brackets(text, 0)
    BY <2>3, <2>5, <2>6, BracketsKey
  <2> HIDE DEF text
  <2>9. <<ValueOp, Again>> \in Seq(BearOps(0))
    BY <2>7
  <2>10. QED
    BY <2>1, <2>4, <2>8, <2>9, OpNests
<1>3. QED
  BY <1>1, <1>2

LEMMA TwoOf ==
  ASSUME NEW S, NEW a \in S, NEW b \in S
  PROVE  <<a, b>> \in Seq(S)
OBVIOUS

LEMMA ThreeOf ==
  ASSUME NEW S, NEW a \in S, NEW b \in S, NEW c \in S
  PROVE  <<a, b, c>> \in Seq(S)
OBVIOUS

\* What is pushed for a node where no bracket is open.
LEMMA MarginNode ==
  ASSUME EInv, FInv, NEW id, InArena(id), NEW n \in Nat
  PROVE  /\ Op("FinishLine", id, 0, 0) \in BearOps(0)
         /\ At(id).kind = "alias" => Op("NodeInline", id, 0, n) \in BearOps(0)
         /\ IsCollection(At(id)) => Whole(At(id), id, n) \in BearOps(0)
         /\ IsCollection(At(id)) /\ At(id).flow => InFlow(At(id), id) \in BearOps(0)
<1> DEFINE node == At(id)
           x == InFlow(node, id)
           y == Whole(node, id, n)
           z == Op("NodeInline", id, 0, n)
           f == Op("FinishLine", id, 0, 0)
<1>1. LInv /\ 0 \in Nat
  BY InvParts
<1>2. z \in GoodOps /\ f \in GoodOps
      /\ (IsCollection(node) => x \in GoodOps /\ y \in GoodOps)
  BY <1>1, NodeOps, CollectionOps, SMTT(30)
<1>3. /\ x.op \in FlowOps /\ x.id = id
      /\ y.op \in {"Mapping", "Sequence"}
      /\ z.op = "NodeInline" /\ z.id = id
      /\ f.op = "FinishLine"
  BY DEF InFlow, Whole, Op, FlowOps
<1>4. f \in BearOps(0)
  <2>1. f.op \notin {"]", "}", "NodeInline"} \cup FlowOps
    BY <1>3 DEF FlowOps
  <2>2. QED
    BY <1>2, <2>1, BearsHere
<1>5. node.kind = "alias" => z \in BearOps(0)
  <2>1. SUFFICES ASSUME node.kind = "alias" PROVE z \in BearOps(0)
    OBVIOUS
  <2> HIDE DEF z
  <2>2. At(z.id).kind # "block" /\ ~IsBlock(At(z.id))
    BY <1>3, <2>1 DEF IsBlock, IsCollection
  <2>3. QED
    BY <1>2, <1>3, <2>2, NoneIsOpen, BearsNode
<1>6. IsCollection(node) => y \in BearOps(0)
  <2>1. y.op \notin {"]", "}", "NodeInline"} \cup FlowOps
    BY <1>3 DEF FlowOps
  <2>2. QED
    BY <1>2, <2>1, BearsHere
<1>7. IsCollection(node) /\ node.flow => x \in BearOps(0)
  <2>1. SUFFICES ASSUME IsCollection(node), node.flow PROVE x \in BearOps(0)
    OBVIOUS
  <2>2. id \in Inside(Arena.nodes)
    BY <2>1, FlowInside
  <2> HIDE DEF x
  <2>3. x \in GoodOps
    BY <1>2, <2>1
  <2>4. QED
    BY <1>3, <2>2, <2>3, BearsFlow
<1>8. QED
  BY <1>4, <1>5, <1>6, <1>7

\* MappingValue.
LEMMA MappingValueNests ==
  ASSUME EInv, FInv, GInv, DoMappingValue
  PROVE  GInv'
<1> DEFINE id == At(Now.id).parts[Now.index].value
           node == At(id)
           deeper == Now.indent + setting.step
           spaced == Write(out, " ", 1)
           inline == Op("NodeInline", id, 0, deeper)
           finish == Op("FinishLine", id, 0, 0)
<1>1. Doing("MappingValue") /\ "MappingValue" \in MappingOps /\ 0 \in Nat /\ 1 \in Nat
      /\ "MappingValue" \in BlockOps
  BY OpKinds DEF DoMappingValue, BlockOps
<1>2. LInv /\ OInv /\ setting \in Settings /\ setting.step \in Nat
  BY InvParts
<1>3. /\ InArena(Now.id) /\ Now.indent \in Nat /\ At(Now.id).kind = "mapping"
      /\ Now.index \in DOMAIN At(Now.id).parts
  BY <1>1, Working
<1>4. InArena(id)
  BY <1>2, <1>3, EntryIs
<1>5. node \in AllNodes /\ deeper \in Nat
  <2>1. deeper \in Nat
    BY <1>2, <1>3
  <2>2. node \in AllNodes
    BY <1>2, <1>4, NodeAt
  <2>3. QED
    BY <2>1, <2>2
<1>6. Holding(0) /\ Brackets(out, 0) /\ <<>> \in Seq(BearOps(0))
  BY <1>1, AtMargin, NoneBear
<1>7. Brackets(spaced, 0)
  BY <1>1, <1>6, QuietPieces, BracketsPiece
<1>8. /\ finish \in BearOps(0) /\ (node.kind = "alias" => inline \in BearOps(0))
      /\ IsCollection(node) => Whole(node, id, deeper) \in BearOps(0)
      /\ IsCollection(node) /\ node.flow => InFlow(node, id) \in BearOps(0)
  BY <1>4, <1>5, MarginNode
<1>9. /\ IsCollection(node) /\ node.parts = <<>> => Then(FinishLine(Empty(spaced, node), node), <<>>)
      /\ IsCollection(node) /\ node.flow /\ node.parts # <<>> => Then(spaced, <<InFlow(node, id), finish>>)
      /\ IsBlock(node) /\ node.parts # <<>> =>
           Then(FinishLine(Anchor(out, node.anchor), node), <<Whole(node, id, deeper)>>)
      /\ node.kind = "block" => Then(Scalar(spaced, node, deeper, node.inline), <<>>)
      /\ node.kind \in {"scalar", "null"} =>
           Then(FinishLine(Scalar(spaced, node, deeper, FALSE), node), <<>>)
      /\ node.kind = "alias" => Then(spaced, <<inline, finish>>)
  BY ZenonT(30) DEF DoMappingValue, IsCollection, IsBlock
<1> HIDE DEF id, node, deeper, spaced, inline, finish
<1>10. CASE IsCollection(node) /\ node.parts = <<>>
  BY <1>1, <1>2, <1>5, <1>6, <1>7, <1>9, <1>10, BracketsValues, OpNests
<1>11. CASE IsCollection(node) /\ node.flow /\ node.parts # <<>>
  <2>1. <<InFlow(node, id), finish>> \in Seq(BearOps(0))
    BY <1>8, <1>11, TwoOf
  <2>2. QED
    BY <1>1, <1>6, <1>7, <1>9, <1>11, <2>1, OpNests
<1>12. CASE IsBlock(node) /\ node.parts # <<>>
  <2>1. <<Whole(node, id, deeper)>> \in Seq(BearOps(0))
    BY <1>8, <1>12, OneIs DEF IsBlock
  <2>2. Brackets(FinishLine(Anchor(out, node.anchor), node), 0)
    BY <1>2, <1>5, <1>6, BracketsValues
  <2>3. QED
    BY <1>1, <1>6, <1>9, <1>12, <2>1, <2>2, OpNests
<1>13. CASE node.kind = "block"
  BY <1>1, <1>2, <1>5, <1>6, <1>7, <1>9, <1>13, BracketsValues, OpNests
<1>14. CASE node.kind \in {"scalar", "null"}
  BY <1>1, <1>2, <1>5, <1>6, <1>7, <1>9, <1>14, BracketsValues, OpNests
<1>15. CASE node.kind = "alias"
  <2>1. <<inline, finish>> \in Seq(BearOps(0))
    BY <1>8, <1>15, TwoOf
  <2>2. QED
    BY <1>1, <1>6, <1>7, <1>9, <1>15, <2>1, OpNests
<1>16. QED
  BY <1>5, <1>10, <1>11, <1>12, <1>13, <1>14, <1>15, EveryKind

\* What stands behind a dash.
LEMMA ItemBodyNests ==
  ASSUME EInv, FInv, GInv, NEW op \in {"SequenceItem", "SequenceInlineFirst"}, Doing(op),
         NEW id, InArena(id), NEW text, Brackets(text, 0), NEW n \in Nat, ItemBody(text, id, n)
  PROVE  GInv'
<1> DEFINE node == At(id)
           deeper == n + setting.step
           said == node.anchor # None \/ node.inline \/ HasNodeKey(node)
           first == IF node.kind = "mapping" THEN "MappingInlineFirst" ELSE "SequenceInlineFirst"
           begin == Op(first, id, 1, deeper)
           inline == Op("NodeInline", id, 0, deeper)
           finish == Op("FinishLine", id, 0, 0)
<1>1. 0 \in Nat /\ 1 \in Nat /\ op \in BlockOps /\ op \in SequenceOps
  BY OpKinds DEF BlockOps
<1>2. LInv /\ OInv /\ setting \in Settings /\ setting.step \in Nat /\ Again \in GoodOps
  BY <1>1, InvParts, AgainFinds
<1>3. node \in AllNodes /\ deeper \in Nat
  BY <1>2, NodeAt
<1>4. Holding(0)
  BY <1>1, AtMargin
<1>5. Again \in BearOps(0)
  BY <1>1, <1>2, MarginOps
<1>6. /\ finish \in BearOps(0) /\ (node.kind = "alias" => inline \in BearOps(0))
      /\ IsCollection(node) => Whole(node, id, deeper) \in BearOps(0)
      /\ IsCollection(node) /\ node.flow => InFlow(node, id) \in BearOps(0)
  BY <1>3, MarginNode
<1>7. IsCollection(node) => begin \in BearOps(0)
  <2>1. CASE node.kind = "mapping"
    <3>1. begin = Op("MappingInlineFirst", id, 1, deeper) /\ "MappingInlineFirst" # "MappingValue"
      BY <2>1
    <3>2. begin \in GoodOps
      BY <1>1, <1>2, <1>3, <2>1, <3>1, OpKinds, MappingOpsFind
    <3>3. begin.op \notin {"]", "}", "NodeInline"} \cup FlowOps
      BY <3>1 DEF Op, FlowOps
    <3>4. QED
      BY <3>2, <3>3, BearsHere
  <2>2. CASE node.kind = "sequence"
    <3>1. begin = Op("SequenceInlineFirst", id, 1, deeper)
      BY <2>2
    <3>2. begin \in GoodOps
      BY <1>1, <1>2, <1>3, <2>2, <3>1, OpKinds, SequenceOpsFind
    <3>3. begin.op \notin {"]", "}", "NodeInline"} \cup FlowOps
      BY <3>1 DEF Op, FlowOps
    <3>4. QED
      BY <3>2, <3>3, BearsHere
  <2>3. QED
    BY <2>1, <2>2 DEF IsCollection
<1>8. /\ IsCollection(node) /\ node.parts = <<>> => Then(FinishLine(Empty(text, node), node), <<Again>>)
      /\ IsCollection(node) /\ node.flow /\ node.parts # <<>> =>
           Then(text, <<InFlow(node, id), finish, Again>>)
      /\ IsBlock(node) /\ node.parts # <<>> /\ said =>
           Then(FinishLine(Anchor(text, node.anchor), node), <<Whole(node, id, deeper), Again>>)
      /\ IsBlock(node) /\ node.parts # <<>> /\ ~said => Then(text, <<begin, Again>>)
      /\ node.kind = "block" => Then(Scalar(text, node, deeper, node.inline), <<Again>>)
      /\ node.kind \in {"scalar", "null"} =>
           Then(FinishLine(Scalar(text, node, deeper, FALSE), node), <<Again>>)
      /\ node.kind = "alias" => Then(text, <<inline, finish, Again>>)
  BY DEF ItemBody, IsCollection, IsBlock
<1> HIDE DEF node, deeper, said, first, begin, inline, finish
<1>9. <<Again>> \in Seq(BearOps(0))
  BY <1>5, OneIs
<1>10. CASE IsCollection(node) /\ node.parts = <<>>
  BY <1>2, <1>3, <1>8, <1>9, <1>10, <1>4, BracketsValues, OpNests
<1>11. CASE IsCollection(node) /\ node.flow /\ node.parts # <<>>
  <2>1. <<InFlow(node, id), finish, Again>> \in Seq(BearOps(0))
    BY <1>6, <1>11, <1>5, ThreeOf
  <2>2. QED
    BY <1>8, <1>11, <1>4, <2>1, OpNests
<1>12. CASE IsBlock(node) /\ node.parts # <<>>
  <2>1. <<Whole(node, id, deeper), Again>> \in Seq(BearOps(0)) /\ <<begin, Again>> \in Seq(BearOps(0))
    BY <1>6, <1>7, <1>12, <1>5, TwoOf DEF IsBlock
  <2>2. Brackets(FinishLine(Anchor(text, node.anchor), node), 0)
    BY <1>2, <1>3, BracketsValues
  <2>3. QED
    BY <1>8, <1>12, <1>4, <2>1, <2>2, OpNests
<1>13. CASE node.kind = "block"
  BY <1>2, <1>3, <1>8, <1>9, <1>13, <1>4, BracketsValues, OpNests
<1>14. CASE node.kind \in {"scalar", "null"}
  BY <1>2, <1>3, <1>8, <1>9, <1>14, <1>4, BracketsValues, OpNests
<1>15. CASE node.kind = "alias"
  <2>1. <<inline, finish, Again>> \in Seq(BearOps(0))
    BY <1>6, <1>15, <1>5, ThreeOf
  <2>2. QED
    BY <1>8, <1>15, <1>4, <2>1, OpNests
<1>16. QED
  BY <1>3, <1>10, <1>11, <1>12, <1>13, <1>14, <1>15, EveryKind

\* SequenceItem and SequenceInlineFirst.
LEMMA SequenceItemsNest ==
  ASSUME EInv, FInv, GInv, DoSequenceItem \/ DoSequenceInlineFirst
  PROVE  GInv'
<1> DEFINE id == At(Now.id).parts[Now.index]
           start == Indent(CommentBefore(out, At(id), Now.indent), Now.indent)
<1>1. "SequenceItem" \in BlockOps /\ "SequenceInlineFirst" \in BlockOps
  BY DEF BlockOps
<1>2. CASE DoneWith("SequenceItem") \/ DoneWith("SequenceInlineFirst")
  BY <1>2, DoneWithNests
<1>3. CASE DoSequenceItem /\ ~DoneWith("SequenceItem")
  <2>1. Doing("SequenceItem") /\ MoreEntries /\ ItemBody(Dash(start), id, Now.indent)
    BY <1>3 DEF DoSequenceItem
  <2>2. InArena(id) /\ Now.indent \in Nat /\ Brackets(out, 0)
    BY <1>1, <2>1, OpKinds, ItemAtHand, AtMargin
  <2>3. Brackets(start, 0)
    BY <2>2, BracketsBefore
  <2> HIDE DEF id, start
  <2>4. Brackets(Dash(start), 0)
    BY <2>3, BracketsDash
  <2>5. QED
    BY <2>1, <2>2, <2>4, ItemBodyNests
<1>4. CASE DoSequenceInlineFirst /\ ~DoneWith("SequenceInlineFirst")
  <2>1. /\ Doing("SequenceInlineFirst") /\ MoreEntries
        /\ ItemBody(Dash(InlineStart(At(id))), id, Now.indent)
    BY <1>4 DEF DoSequenceInlineFirst
  <2>2. InArena(id) /\ Now.indent \in Nat /\ Brackets(out, 0)
    BY <1>1, <2>1, OpKinds, ItemAtHand, AtMargin
  <2>3. Brackets(InlineStart(At(id)), 0)
    BY <2>2, BracketsInlineStart
  <2> HIDE DEF id
  <2>4. Brackets(Dash(InlineStart(At(id))), 0)
    BY <2>3, BracketsDash
  <2>5. QED
    BY <2>1, <2>2, <2>4, ItemBodyNests
<1>5. QED
  BY <1>2, <1>3, <1>4

\* The flow collection that is at hand, and the entry or item of it that is next, can be written
\* between brackets.
LEMMA FlowAtHand ==
  ASSUME EInv, NEW e, Holding(e), NEW op \in {"MappingFlowEntry", "SequenceFlowItem"}, Doing(op),
         MoreEntries
  PROVE  /\ op = "MappingFlowEntry" =>
              LET key == At(Now.id).parts[Now.index] IN
              /\ key.value \in Inside(Arena.nodes) /\ At(key.value).kind # "block" /\ ~IsBlock(At(key.value))
              /\ key.form = "node" =>
                   /\ key.node \in Inside(Arena.nodes) /\ At(key.node).kind # "block"
                   /\ ~IsBlock(At(key.node))
         /\ op = "SequenceFlowItem" =>
              LET id == At(Now.id).parts[Now.index] IN
              id \in Inside(Arena.nodes) /\ At(id).kind # "block"
<1>1. Now.id \in Inside(Arena.nodes)
  BY DEF Holding, Apt, FlowOps, Doing
<1>2. LInv
  BY InvParts
<1>3. /\ op \in MappingOps \cup SequenceOps
      /\ op = "MappingFlowEntry" => op \in MappingOps /\ op \notin SequenceOps
      /\ op = "SequenceFlowItem" => op \in SequenceOps /\ op \notin MappingOps
  BY DEF MappingOps, SequenceOps
<1>4. InArena(Now.id) /\ Now.index \in DOMAIN At(Now.id).parts
  BY <1>3, Working DEF MoreEntries
<1>5. At(Now.id) \in AllNodes
  BY <1>2, <1>4, NodeAt
<1>6. PICK node \in AllNodes : node = At(Now.id)
  BY <1>5
<1>7. /\ op = "MappingFlowEntry" => node.kind = "mapping"
      /\ op = "SequenceFlowItem" => node.kind = "sequence"
  BY <1>3, <1>6, Working
<1>8. ASSUME IsCollection(node), NEW c \in ToSet(Children(node))
      PROVE  /\ c \in Inside(Arena.nodes) /\ At(c).kind # "block"
             /\ node.kind = "mapping" => ~IsBlock(At(c))
  BY <1>1, <1>6, <1>8, ChildInside
<1>9. ASSUME op = "MappingFlowEntry", NEW key, key = node.parts[Now.index]
      PROVE  /\ key.value \in Inside(Arena.nodes) /\ At(key.value).kind # "block" /\ ~IsBlock(At(key.value))
             /\ key.form = "node" =>
                   /\ key.node \in Inside(Arena.nodes) /\ At(key.node).kind # "block"
                   /\ ~IsBlock(At(key.node))
  <2>1. node.kind = "mapping" /\ IsCollection(node)
    BY <1>7, <1>9 DEF IsCollection
  <2>2. /\ key.value \in ToSet(Children(node))
        /\ key.form = "node" => key.node \in ToSet(Children(node))
    BY <1>4, <1>6, <1>9, <2>1, ChildrenAre
  <2>3. QED
    BY <1>8, <2>1, <2>2
<1>10. ASSUME op = "SequenceFlowItem", NEW id, id = node.parts[Now.index]
       PROVE  id \in Inside(Arena.nodes) /\ At(id).kind # "block"
  <2>1. node.kind # "mapping" /\ IsCollection(node)
    BY <1>7, <1>10 DEF IsCollection
  <2>2. id \in ToSet(Children(node))
    BY <1>4, <1>6, <1>10, <2>1, ChildrenAre
  <2>3. QED
    BY <1>8, <2>1, <2>2
<1>11. QED
  BY <1>6, <1>9, <1>10

\* What can be written between brackets, as a node or as a flow collection.
LEMMA InsideBears ==
  ASSUME NEW e, NEW x \in GoodOps, x.id \in Inside(Arena.nodes),
         \/ x.op \in FlowOps
         \/ /\ x.op \in {"Node", "NodeInline"}
            /\ At(x.id).kind # "block" /\ ~IsBlock(At(x.id))
  PROVE  x \in BearOps(e)
BY BearsFlow, BearsNode

LEMMA BracketsComma ==
  ASSUME NEW d, Brackets(out, d)
  PROVE  Brackets(Comma, d)
<1>1. 2 \in Nat
  OBVIOUS
<1>2. Brackets(Write(out, ",", 2), d)
  BY <1>1, QuietPieces, BracketsPiece
<1>3. QED
  BY <1>2 DEF Comma

\* Again, in a flow collection.
LEMMA FlowAgain ==
  ASSUME OInv, NEW e, Holding(e), NEW op \in FlowOps, Doing(op), Again \in GoodOps
  PROVE  Again \in BearOps(e)
<1>1. Again = Op(op, Now.id, Now.index + 1, Now.indent)
  BY NowAgain
<1>2. Again.op = op /\ Again.id = Now.id
  BY <1>1 DEF Op
<1>3. Now.id \in Inside(Arena.nodes)
  BY DEF Holding, Apt, Doing
<1>4. QED
  BY <1>2, <1>3, BearsFlow

\* MappingFlowEntry.
LEMMA MappingFlowEntryNests ==
  ASSUME EInv, FInv, GInv, DoMappingFlowEntry
  PROVE  GInv'
<1>1. CASE DoneWith("MappingFlowEntry")
  BY <1>1, DoneWithNests
<1>2. CASE ~DoneWith("MappingFlowEntry")
  <2> DEFINE key == At(Now.id).parts[Now.index]
             value == Op("NodeInline", key.value, 0, 0)
             inner == Op("Node", key.node, 0, 0)
             colon == Close("flow colon")
             text == Write(FlowKey(Comma, key), ":", 2)
  <2>1. Doing("MappingFlowEntry") /\ MoreEntries
    BY <1>2 DEF DoMappingFlowEntry
  <2>2. /\ "MappingFlowEntry" \in MappingOps \ {"MappingValue"} /\ 2 \in Nat /\ 0 \in Nat
        /\ "MappingFlowEntry" \in FlowOps /\ "MappingFlowEntry" \notin {"]", "}"}
    BY DEF MappingOps, FlowOps
  <2>3. LInv /\ OInv
    BY InvParts
  <2>4. PICK e \in Nat : Holding(e)
    BY <2>1, HoldingIs
  <2>5. Brackets(Comma, e)
    BY <2>1, <2>2, <2>4, HeldText, BracketsComma
  <2>6. Again \in GoodOps /\ InArena(key.value) /\ (key.form = "node" => InArena(key.node))
    BY <2>1, <2>2, EntryAtHand
  <2>7. colon \in GoodOps /\ Strip \in GoodOps /\ colon.op = "flow colon" /\ Strip.op = "strip"
    BY <2>2, TextOps DEF Close, Strip, Op
  <2>8. /\ value \in GoodOps /\ value.op = "NodeInline" /\ value.id = key.value
        /\ key.form = "node" => inner \in GoodOps
        /\ inner.op = "Node" /\ inner.id = key.node
    <3>1. value \in GoodOps /\ (key.form = "node" => inner \in GoodOps)
      BY <2>2, <2>3, <2>6, NodeOps
    <3>2. QED
      BY <3>1, OpIs
  <2>9. /\ key.value \in Inside(Arena.nodes) /\ At(key.value).kind # "block" /\ ~IsBlock(At(key.value))
        /\ key.form = "node" =>
             /\ key.node \in Inside(Arena.nodes) /\ At(key.node).kind # "block"
             /\ ~IsBlock(At(key.node))
    BY <2>1, <2>4, FlowAtHand
  <2>10. Brackets(text, e)
    <3>1. Brackets(FlowKey(Comma, key), e)
      BY <2>5, BracketsFlowKey
    <3>2. QED
      BY <2>2, <3>1, QuietPieces, BracketsPiece
  <2>11. \/ key.form = "node" /\ Then(Comma, <<inner, Strip, colon, value, Again>>)
         \/ Then(text, <<value, Again>>)
    BY <1>2 DEF DoMappingFlowEntry
  <2> HIDE DEF key, value, inner, text, colon
  <2>12. value \in BearOps(e) /\ (key.form = "node" => inner \in BearOps(e))
    BY <2>8, <2>9, InsideBears
  <2>13. colon \in BearOps(e) /\ Strip \in BearOps(e)
    BY <2>7, BearsText
  <2>14. Again \in BearOps(e)
    BY <2>1, <2>2, <2>3, <2>4, <2>6, FlowAgain
  <2>15. <<value, Again>> \in Seq(BearOps(e))
    BY <2>12, <2>14, TwoOf
  <2>16. key.form = "node" => <<inner, Strip, colon, value, Again>> \in Seq(BearOps(e))
    BY <2>12, <2>13, <2>14, FiveOf
  <2>17. QED
    BY <2>1, <2>4, <2>5, <2>10, <2>11, <2>15, <2>16, OpNests
<1>3. QED
  BY <1>1, <1>2

\* SequenceFlowItem: a collection in block style is written as if it were in flow style.
LEMMA SequenceFlowItemNests ==
  ASSUME EInv, FInv, GInv, DoSequenceFlowItem
  PROVE  GInv'
<1>1. CASE DoneWith("SequenceFlowItem")
  BY <1>1, DoneWithNests
<1>2. CASE ~DoneWith("SequenceFlowItem")
  <2> DEFINE id == At(Now.id).parts[Now.index]
             node == At(id)
             flow == InFlow(node, id)
             inline == Op("NodeInline", id, 0, 0)
             item == IF IsBlock(node) THEN flow ELSE inline
  <2>1. Doing("SequenceFlowItem") /\ MoreEntries /\ Then(Comma, <<item, Again>>)
    BY <1>2 DEF DoSequenceFlowItem
  <2>2. InArena(id) /\ LInv /\ OInv /\ 0 \in Nat
    BY <2>1, OpKinds, ItemAtHand, InvParts
  <2>3. /\ "SequenceFlowItem" \in (MappingOps \ {"MappingValue"}) \cup SequenceOps
        /\ "SequenceFlowItem" \in FlowOps /\ "SequenceFlowItem" \notin {"]", "}"}
    BY OpKinds DEF FlowOps
  <2>4. Again \in GoodOps
    BY <2>1, <2>3, AgainFinds
  <2>5. PICK e \in Nat : Holding(e)
    BY <2>1, HoldingIs
  <2>6. Brackets(Comma, e)
    BY <2>1, <2>3, <2>5, HeldText, BracketsComma
  <2>7. id \in Inside(Arena.nodes) /\ node.kind # "block"
    BY <2>1, <2>5, FlowAtHand
  <2>8. Again \in BearOps(e)
    BY <2>1, <2>2, <2>3, <2>4, <2>5, FlowAgain
  <2>9. inline \in GoodOps /\ (IsBlock(node) => flow \in GoodOps)
    BY <2>2, NodeOps, CollectionOps DEF IsBlock
  <2>10. inline.op = "NodeInline" /\ inline.id = id /\ flow.op \in FlowOps /\ flow.id = id
    BY DEF InFlow, Op, FlowOps
  <2> HIDE DEF flow, inline
  <2>11. item \in BearOps(e)
    <3>1. CASE IsBlock(node)
      <4>1. flow \in BearOps(e)
        BY <2>7, <2>9, <2>10, <3>1, InsideBears
      <4>2. QED
        BY <3>1, <4>1
    <3>2. CASE ~IsBlock(node)
      <4>1. inline \in BearOps(e)
        BY <2>7, <2>9, <2>10, <3>2, InsideBears
      <4>2. QED
        BY <3>2, <4>1
    <3>3. QED
      BY <3>1, <3>2
  <2> HIDE DEF id, node, item
  <2>12. <<item, Again>> \in Seq(BearOps(e))
    BY <2>8, <2>11, TwoOf
  <2>13. QED
    BY <2>1, <2>5, <2>6, <2>12, OpNests
<1>3. QED
  BY <1>1, <1>2

(***************************************************************************)
(* Every step keeps it, and the theorem.                                   *)
(***************************************************************************)
\* While operations are on the stack, the document that they write is at hand.
WInv == ops # <<>> => writing \in DOMAIN arenas

\* Lowering disturbs neither text nor stack.
LEMMA LowerNests ==
  ASSUME EInv, WInv, Lower, UNCHANGED <<writing, ops, out>>
  PROVE  WInv' /\ (FlowFits' => FlowFits) /\ (GInv => GInv')
<1>1. LInv
  BY InvParts
<1>2. \A i \in DOMAIN arenas : i \in DOMAIN arenas' /\ arenas'[i] = arenas[i]
  BY <1>1, ArenasStay
<1>3. FlowFits' => FlowFits
  BY <1>2, FitsBefore
<1>4. WInv'
  BY <1>2 DEF WInv
<1>5. ASSUME GInv PROVE GInv'
  <2>1. PICK d \in Nat : Brackets(out, d) /\ Nested(ops, d, Arena.nodes)
    BY <1>5 DEF GInv
  <2>2. Nested(ops, d, Arena'.nodes)
    <3>1. CASE ops = <<>>
      BY <2>1, <3>1, NestedEmpty
    <3>2. CASE ops # <<>>
      <4>1. writing \in DOMAIN arenas
        BY <3>2 DEF WInv
      <4>2. Arena' = Arena
        BY <1>2, <4>1 DEF Arena
      <4>3. QED
        BY <2>1, <4>2
    <3>3. QED
      BY <3>1, <3>2
  <2>3. Brackets(out', d) /\ Nested(ops', d, Arena'.nodes)
    BY <2>1, <2>2
  <2>4. QED
    BY <2>1, <2>3 DEF GInv
<1>6. QED
  BY <1>3, <1>4, <1>5

\* With no operation on the stack every bracket is closed.
LEMMA NothingOpen ==
  ASSUME GInv, ops = <<>>
  PROVE  Brackets(out, 0)
<1>1. PICK d \in Nat : Brackets(out, d) /\ Nested(ops, d, Arena.nodes)
  BY DEF GInv
<1>2. d = 0
  BY <1>1, NestedEmpty
<1>3. QED
  BY <1>1, <1>2

\* One operation that can be at hand where no bracket is open.
LEMMA NestedOne ==
  ASSUME NEW x \in GoodOps', x.op = "Node"
  PROVE  Nested(<<x>>, 0, Arena'.nodes)
<1> DEFINE ns == Arena'.nodes
           B == GoodOps'
<1>1. Bears(x, 0, ns)
  BY NoneIsOpen DEF Bears, IsClose, Apt, FlowOps
<1> HIDE DEF ns, B
<1>2. x \in B
  BY DEF B
<1>3. <<>> \in Seq(B) /\ <<x>> \in Seq(B) /\ <<>> \o <<x>> = <<x>>
  BY <1>2
<1>4. \A k \in 1 .. Len(<<x>>) : <<x>>[k] = x
  BY OneAlone
<1>5. \A k \in 1 .. Len(<<x>>) : Bears(<<x>>[k], 0, ns)
  BY <1>1, <1>4
<1>6. Nested(<<>>, 0, ns)
  BY NestedEmpty
<1>7. Nested(<<>> \o <<x>>, 0, ns)
  BY <1>3, <1>5, <1>6, NestedJoin
<1>8. QED
  BY <1>3, <1>7 DEF ns

\* A document begins with every bracket closed.
LEMMA DocumentNests ==
  ASSUME EInv, DoDocument
  PROVE  WInv' /\ (GInv => GInv')
<1> DEFINE doc == arenas[writing + 1]
           root == doc.nodes[doc.root]
           ended == IF writing = 0 THEN out ELSE Ended(arenas[writing])
           begun == IF StartMarker(doc) THEN Marker(ended, "---") ELSE ended
           start == CommentBefore(begun, root, 0)
           bare == root.kind = "null" /\ root.anchor = None
           null == Put(start, Piece("null", 0, root.from))
           begin == Op("Node", doc.root, 0, 0)
<1>1. LInv /\ OInv /\ setting \in Settings /\ RootsGood(arenas)
  BY InvParts, SMTT(30) DEF EInv
<1>2. /\ writing' = writing + 1 /\ UNCHANGED avars /\ writing < Len(arenas) /\ ops = <<>>
      /\ UNCHANGED <<setting, left, count, lower, arenas>>
  BY DEF DoDocument, avars, Lowest
<1>3. SUFFICES ASSUME GInv PROVE GInv'
  <2>1. DOMAIN arenas = 1 .. Len(arenas) /\ writing + 1 \in 1 .. Len(arenas)
    BY <1>1, <1>2 DEF LInv, OInv
  <2>2. WInv'
    BY <1>2, <2>1 DEF WInv
  <2>3. QED
    BY <2>2
<1>4. /\ arenas \in Seq(Documents) /\ Len(arenas) \in Nat /\ writing \in Nat
      /\ writing + 1 \in 1 .. Len(arenas) /\ DOMAIN arenas = 1 .. Len(arenas)
  BY <1>1, <1>2 DEF LInv, OInv
<1>5. doc \in Documents /\ doc.root \in DOMAIN doc.nodes /\ root.kind # "alias" /\ doc.root \in Nat
  <2>1. doc \in Documents
    BY <1>4, ElementOfSeq
  <2>2. doc.root \in DOMAIN doc.nodes /\ root.kind # "alias"
    BY <1>1, <1>4 DEF RootsGood
  <2>3. QED
    BY <2>1, <2>2 DEF Documents
<1>6. root \in AllNodes
  BY <1>5, ElementOfSeq DEF Documents
<1>8. Brackets(start, 0) /\ 0 \in Nat /\ 3 \in Nat
  <2>1. Brackets(out, 0)
    BY <1>2, <1>3, NothingOpen
  <2>2. Brackets(ended, 0)
    BY <2>1, BracketsEnded
  <2> HIDE DEF ended
  <2>3. Brackets(begun, 0)
    <3>1. Brackets(Write(ended, "---", 3), 0)
      BY <2>2, QuietPieces, BracketsPiece
    <3>2. Brackets(NewLine(Write(ended, "---", 3)), 0)
      BY <3>1, BracketsLine
    <3>3. Brackets(Marker(ended, "---"), 0)
      BY <3>2, ZenonT(30) DEF Marker
    <3>4. QED
      BY <2>2, <3>3
  <2> HIDE DEF begun
  <2>4. QED
    BY <2>3, BracketsBefore
<1>9. /\ IsCollection(root) => out' = start /\ ops' = <<begin>>
      /\ root.kind = "block" => out' = Scalar(start, root, 0, root.inline) /\ ops' = <<>>
      /\ root.kind \in {"scalar", "null"} /\ ~bare =>
           out' = InlineComment(Scalar(start, root, 0, FALSE), root) /\ ops' = <<>>
      /\ bare => out' = (IF root.inline THEN FinishLine(null, root) ELSE null) /\ ops' = <<>>
  BY DEF DoDocument, IsCollection
<1>10. \/ IsCollection(root) \/ root.kind = "block"
       \/ root.kind \in {"scalar", "null"} /\ ~bare
       \/ bare
  BY <1>5, <1>6, NodeKinds DEF IsCollection
<1>11. begin.op = "Node"
  BY DEF Op
<1>12. EInv'
  BY DocumentKeeps
<1> HIDE DEF doc, root, start
<1>13. Brackets(out', 0)
  <2>1. CASE IsCollection(root)
    BY <1>8, <1>9, <2>1
  <2>2. CASE root.kind \in {"block", "scalar", "null"}
    <3>1. \A b : Brackets(Scalar(start, root, 0, b), 0)
      BY <1>1, <1>8, <2>2, BracketsScalar
    <3>2. Brackets(Scalar(start, root, 0, root.inline), 0) /\ Brackets(Scalar(start, root, 0, FALSE), 0)
      BY <3>1
    <3>3. Brackets(InlineComment(Scalar(start, root, 0, FALSE), root), 0)
      BY <3>2, BracketsInline
    <3>4. Brackets(null, 0)
      BY <1>8, QuietPieces, BracketsPiece
    <3> HIDE DEF null
    <3>5. Brackets(IF root.inline THEN FinishLine(null, root) ELSE null, 0)
      BY <3>4, BracketsInline
    <3>6. QED
      BY <1>8, <1>9, <1>10, <3>2, <3>3, <3>5
  <2>3. QED
    BY <1>10, <2>1, <2>2
<1> HIDE DEF null, bare, begin
<1>14. Nested(ops', 0, Arena'.nodes)
  <2>1. CASE ops' = <<begin>>
    <3>1. ops' \in Seq(GoodOps')
      BY <1>12 DEF EInv, OInv
    <3> DEFINE B == GoodOps'
    <3>2. <<begin>> \in Seq(B)
      BY <2>1, <3>1
    <3> HIDE DEF B
    <3>3. begin \in B
      <4>1. Len(<<begin>>) = 1 /\ <<begin>>[1] = begin
        OBVIOUS
      <4>2. QED
        BY <3>2, <4>1, ElementOfSeq
    <3>4. QED
      BY <1>11, <2>1, <3>3, NestedOne DEF B
  <2>2. CASE ops' = <<>>
    BY <2>2, NestedEmpty
  <2>3. QED
    BY <1>9, <1>10, <2>1, <2>2
<1>15. QED
  BY <1>8, <1>13, <1>14 DEF GInv

\* The last document ends.
LEMMA EndNests ==
  ASSUME EInv, DoEnd
  PROVE  WInv' /\ (GInv => GInv')
<1>1. /\ out' = Ended(arenas[writing]) /\ ops = <<>> /\ ops' = ops
      /\ UNCHANGED <<setting, left, count, lower, arenas>>
  BY DEF DoEnd, avars, Lowest
<1>2. WInv'
  BY <1>1 DEF WInv
<1>3. ASSUME GInv PROVE GInv'
  <2>1. Brackets(out', 0)
    BY <1>1, <1>3, NothingOpen, BracketsEnded
  <2>2. Nested(ops', 0, Arena'.nodes) /\ 0 \in Nat
    BY <1>1, NestedEmpty
  <2>3. QED
    BY <2>1, <2>2 DEF GInv
<1>4. QED
  BY <1>2, <1>3

\* The inductive invariant.
FlowInv == EInv /\ WInv /\ (FlowFits => GInv)

LEMMA FirstNests ==
  ASSUME Init
  PROVE  FlowInv
<1>1. ops = <<>> /\ out = <<<<>>>>
  BY DEF Init, ArenaInit
<1>2. EInv
  BY FirstStep
<1>4. WInv
  BY <1>1 DEF WInv
<1>5. Brackets(out, 0)
  <2>1. Text(out)
    BY <1>2, InvParts
  <2>2. PICK line : line = <<>>
    OBVIOUS
  <2>3. out = <<line>>
    BY <1>1, <2>2
  <2>4. Len(out) = 1 /\ out[1] = line /\ 0 \in Nat
    BY <2>3
  <2>5. Even(line, 0)
    BY <2>2, EvenEmpty
  <2>6. \A l \in 1 .. Len(out) : out[l] = line /\ l = Len(out)
    BY <2>4
  <2>7. QED
    BY <2>1, <2>4, <2>5, <2>6 DEF Brackets
<1>6. GInv
  BY <1>1, <1>5, NestedEmpty DEF GInv, Brackets
<1>7. QED
  BY <1>2, <1>4, <1>6 DEF FlowInv

\* An operation on the stack disturbs neither the arenas nor what is at hand.
LEMMA OpsStay ==
  ASSUME WInv, UNCHANGED <<avars, writing>>, ops # <<>> \/ ops' = ops
  PROVE  WInv' /\ (FlowFits' => FlowFits)
<1>1. arenas' = arenas /\ writing' = writing
  BY DEF avars
<1>2. FlowFits' => FlowFits
  BY <1>1, FitsBefore
<1>3. QED
  BY <1>1, <1>2 DEF WInv

\* What every operation on the stack does.
LEMMA OpsThen ==
  ASSUME \/ DoWrite \/ DoFinishLine \/ DoStrip \/ DoColon \/ DoFlowColon
         \/ DoNode \/ DoNodeInline
         \/ DoMapping \/ DoMappingEntry \/ DoMappingValue \/ DoMappingInlineFirst
         \/ DoMappingFlow \/ DoMappingFlowEntry
         \/ DoSequence \/ DoSequenceItem \/ DoSequenceInlineFirst
         \/ DoSequenceFlow \/ DoSequenceFlowItem
  PROVE  ops # <<>>
BY DEF DoWrite, DoFinishLine, DoStrip, DoColon, DoFlowColon, DoNode, DoNodeInline, DoMapping,
       DoMappingEntry, DoMappingValue, DoMappingInlineFirst, DoMappingFlow, DoMappingFlowEntry,
       DoSequence, DoSequenceItem, DoSequenceInlineFirst, DoSequenceFlow, DoSequenceFlowItem,
       Collection, FlowStart, DoneWith, Doing

\* An operation leaves what is lowered, and which document is written.
OpOnly == UNCHANGED <<avars, writing>>

LEMMA ThenOnly ==
  ASSUME NEW text, NEW next, Then(text, next)
  PROVE  OpOnly
BY DEF Then, OpOnly

LEMMA ValueOnly ==
  ASSUME EInv, DoMappingValue
  PROVE  OpOnly
<1> DEFINE id == At(Now.id).parts[Now.index].value
           node == At(id)
<1>1. Doing("MappingValue") /\ "MappingValue" \in MappingOps
  BY OpKinds DEF DoMappingValue
<1>2. LInv
  BY InvParts
<1>3. InArena(Now.id) /\ At(Now.id).kind = "mapping" /\ Now.index \in DOMAIN At(Now.id).parts
  BY <1>1, Working
<1>4. InArena(id)
  BY <1>2, <1>3, EntryIs
<1>5. node \in AllNodes
  BY <1>2, <1>4, NodeAt
<1> DEFINE deeper == Now.indent + setting.step
           spaced == Write(out, " ", 1)
           inline == Op("NodeInline", id, 0, deeper)
           finish == Op("FinishLine", id, 0, 0)
<1>6. /\ IsCollection(node) /\ node.parts = <<>> => Then(FinishLine(Empty(spaced, node), node), <<>>)
      /\ IsCollection(node) /\ node.flow /\ node.parts # <<>> => Then(spaced, <<InFlow(node, id), finish>>)
      /\ IsBlock(node) /\ node.parts # <<>> =>
           Then(FinishLine(Anchor(out, node.anchor), node), <<Whole(node, id, deeper)>>)
      /\ node.kind = "block" => Then(Scalar(spaced, node, deeper, node.inline), <<>>)
      /\ node.kind \in {"scalar", "null"} =>
           Then(FinishLine(Scalar(spaced, node, deeper, FALSE), node), <<>>)
      /\ node.kind = "alias" => Then(spaced, <<inline, finish>>)
  BY ZenonT(30) DEF DoMappingValue, IsCollection, IsBlock
<1> HIDE DEF node, deeper, spaced, inline, finish
<1>7. QED
  BY <1>5, <1>6, EveryKind, ThenOnly

LEMMA ItemOnly ==
  ASSUME EInv, NEW id, InArena(id), NEW text, NEW n, ItemBody(text, id, n)
  PROVE  OpOnly
<1> DEFINE node == At(id)
<1>1. node \in AllNodes
  BY InvParts, NodeAt
<1> DEFINE deeper == n + setting.step
           said == node.anchor # None \/ node.inline \/ HasNodeKey(node)
           first == IF node.kind = "mapping" THEN "MappingInlineFirst" ELSE "SequenceInlineFirst"
           begin == Op(first, id, 1, deeper)
           inline == Op("NodeInline", id, 0, deeper)
           finish == Op("FinishLine", id, 0, 0)
<1>2. /\ IsCollection(node) /\ node.parts = <<>> => Then(FinishLine(Empty(text, node), node), <<Again>>)
      /\ IsCollection(node) /\ node.flow /\ node.parts # <<>> =>
           Then(text, <<InFlow(node, id), finish, Again>>)
      /\ IsBlock(node) /\ node.parts # <<>> /\ said =>
           Then(FinishLine(Anchor(text, node.anchor), node), <<Whole(node, id, deeper), Again>>)
      /\ IsBlock(node) /\ node.parts # <<>> /\ ~said => Then(text, <<begin, Again>>)
      /\ node.kind = "block" => Then(Scalar(text, node, deeper, node.inline), <<Again>>)
      /\ node.kind \in {"scalar", "null"} =>
           Then(FinishLine(Scalar(text, node, deeper, FALSE), node), <<Again>>)
      /\ node.kind = "alias" => Then(text, <<inline, finish, Again>>)
  BY DEF ItemBody, IsCollection, IsBlock
<1> HIDE DEF node, deeper, said, first, begin, inline, finish
<1>3. QED
  BY <1>1, <1>2, EveryKind, ThenOnly

LEMMA OpsOnly ==
  ASSUME EInv,
         \/ DoWrite \/ DoFinishLine \/ DoStrip \/ DoColon \/ DoFlowColon
         \/ DoNode \/ DoNodeInline
         \/ DoMapping \/ DoMappingEntry \/ DoMappingValue \/ DoMappingInlineFirst
         \/ DoMappingFlow \/ DoMappingFlowEntry
         \/ DoSequence \/ DoSequenceItem \/ DoSequenceInlineFirst
         \/ DoSequenceFlow \/ DoSequenceFlowItem
  PROVE  OpOnly
<1>1. CASE DoMappingValue
  BY <1>1, ValueOnly
<1>2. CASE DoSequenceItem \/ DoSequenceInlineFirst
  <2> DEFINE id == At(Now.id).parts[Now.index]
  <2>1. CASE DoneWith("SequenceItem") \/ DoneWith("SequenceInlineFirst")
    BY <2>1, ThenOnly DEF DoneWith
  <2>2. CASE ~(DoneWith("SequenceItem") \/ DoneWith("SequenceInlineFirst"))
    <3>1. MoreEntries /\ (Doing("SequenceItem") \/ Doing("SequenceInlineFirst"))
          /\ \E text : ItemBody(text, id, Now.indent)
      BY <1>2, <2>2, ZenonT(30) DEF DoSequenceItem, DoSequenceInlineFirst
    <3>2. InArena(id)
      BY <3>1, OpKinds, ItemAtHand
    <3> HIDE DEF id
    <3>3. QED
      BY <3>1, <3>2, ItemOnly
  <2>3. QED
    BY <2>1, <2>2
<1>3. CASE DoWrite \/ DoFinishLine \/ DoStrip \/ DoColon \/ DoFlowColon \/ DoNode \/ DoNodeInline
  BY <1>3, ThenOnly DEF DoWrite, DoFinishLine, DoStrip, DoColon, DoFlowColon, DoNode, DoNodeInline
<1>4. CASE DoMapping \/ DoSequence \/ DoMappingFlow \/ DoSequenceFlow
  BY <1>4, ThenOnly DEF DoMapping, DoSequence, DoMappingFlow, DoSequenceFlow, Collection, FlowStart
<1>5. CASE DoMappingEntry \/ DoMappingInlineFirst
  BY <1>5, ThenOnly DEF DoMappingEntry, DoMappingInlineFirst, DoneWith
<1>6. CASE DoMappingFlowEntry \/ DoSequenceFlowItem
  BY <1>6, ThenOnly DEF DoMappingFlowEntry, DoSequenceFlowItem, DoneWith
<1>7. QED
  BY <1>1, <1>2, <1>3, <1>4, <1>5, <1>6

LEMMA NextNests ==
  ASSUME FlowInv, [Next]_vars
  PROVE  FlowInv'
<1>1. EInv /\ WInv /\ (FlowFits => GInv)
  BY DEF FlowInv
<1>2. EInv'
  BY <1>1, NextStep
<1>3. WInv' /\ (FlowFits' => GInv')
  <2>1. CASE Lower /\ UNCHANGED <<writing, ops, out>>
    BY <1>1, <2>1, LowerNests
  <2>2. CASE DoDocument \/ DoEnd
    <3>1. UNCHANGED <<avars, ops>> \/ UNCHANGED avars
      BY <2>2 DEF DoDocument, DoEnd
    <3>2. FlowFits' => FlowFits
      BY <3>1, FitsBefore DEF avars
    <3>3. QED
      BY <1>1, <2>2, <3>2, DocumentNests, EndNests
  <2>3. CASE \/ DoWrite \/ DoFinishLine \/ DoStrip \/ DoColon \/ DoFlowColon
             \/ DoNode \/ DoNodeInline
             \/ DoMapping \/ DoMappingEntry \/ DoMappingValue \/ DoMappingInlineFirst
             \/ DoMappingFlow \/ DoMappingFlowEntry
             \/ DoSequence \/ DoSequenceItem \/ DoSequenceInlineFirst
             \/ DoSequenceFlow \/ DoSequenceFlowItem
    <3>1. UNCHANGED <<avars, writing>>
      BY <1>1, <2>3, OpsOnly DEF OpOnly
    <3>2. WInv' /\ (FlowFits' => FlowFits)
      BY <1>1, <2>3, <3>1, OpsThen, OpsStay
    <3>3. ASSUME FInv, GInv PROVE GInv'
      BY <1>1, <2>3, <3>3, TextOpsNest, NodeNests, NodeInlineNests, WholeCollectionsNest,
         FlowStartsNest, MappingEntryNests, MappingValueNests, MappingInlineFirstNests,
         MappingFlowEntryNests, SequenceItemsNest, SequenceFlowItemNests, Zenon
    <3>4. FlowFits => GInv'
      BY <1>1, <3>3, FitsInside
    <3>5. QED
      BY <3>2, <3>4
  <2>4. CASE UNCHANGED vars
    <3>1. UNCHANGED <<avars, writing>> /\ ops' = ops /\ out' = out /\ arenas' = arenas
      BY <2>4 DEF vars, avars
    <3>2. WInv' /\ (FlowFits' => FlowFits)
      BY <1>1, <3>1, OpsStay
    <3>3. Arena' = Arena
      BY <3>1 DEF Arena
    <3>4. GInv => GInv'
      BY <3>1, <3>3 DEF GInv
    <3>5. QED
      BY <1>1, <3>2, <3>4
  <2>5. QED
    BY <2>1, <2>2, <2>3, <2>4, Zenon DEF Next
<1>4. QED
  BY <1>2, <1>3 DEF FlowInv

\* What the invariant says of the text: once everything is written, nothing is left open.
LEMMA NoBlockInFlow ==
  ASSUME FlowInv, FlowFits
  PROVE  FlowHoldsNoBlock
<1>1. EInv /\ GInv /\ WInv
  BY DEF FlowInv
<1>2. PICK d \in Nat : Brackets(out, d) /\ Nested(ops, d, Arena.nodes)
  BY <1>1 DEF GInv
<1>3. Written => d = 0
  <2>1. SUFFICES ASSUME Written PROVE d = 0
    OBVIOUS
  <2>2. LInv
    BY <1>1, InvParts
  <2>3. writing \notin DOMAIN arenas
    <3>1. DOMAIN arenas = 1 .. Len(arenas) /\ Len(arenas) \in Nat
      BY <2>2 DEF LInv
    <3>2. writing > Len(arenas)
      BY <2>1 DEF Written
    <3>3. QED
      BY <3>1, <3>2
  <2>4. ops = <<>>
    BY <1>1, <2>3 DEF WInv
  <2>5. QED
    BY <1>2, <2>4, NestedEmpty
<1>4. /\ DOMAIN out = 1 .. Len(out)
      /\ \A l \in 1 .. Len(out) : DOMAIN out[l] = 1 .. Len(out[l])
  <2>1. PICK S : out \in Seq(Seq(S))
    BY <1>2 DEF Brackets, Text
  <2>2. \A l \in DOMAIN out : out[l] \in Seq(S)
    BY <2>1, ElementOfSeq
  <2>3. QED
    BY <2>1, <2>2
<1>5. ASSUME NEW l \in DOMAIN out
      PROVE  /\ \A j \in DOMAIN out[l] : IsEntry(out[l][j]) \/ out[l][j].t = "header" =>
                  Count(out[l], {"{", "["}, j) = Count(out[l], {"}", "]"}, j)
             /\ Written =>
                  Count(out[l], {"{", "["}, Len(out[l])) = Count(out[l], {"}", "]"}, Len(out[l]))
  <2>1. l \in 1 .. Len(out) /\ DOMAIN out[l] = 1 .. Len(out[l])
    BY <1>4
  <2> DEFINE line == out[l]
             e == IF l = Len(out) THEN d ELSE 0
             a == Count(line, Opening, Len(line))
             b == Count(line, Closing, Len(line))
  <2>2. Even(line, e)
    BY <1>2, <2>1 DEF Brackets
  <2> HIDE DEF e
  <2>3. \A j \in 1 .. Len(line) : Bare(line[j]) => Count(line, Opening, j) = Count(line, Closing, j)
    BY <2>2 DEF Even
  <2>4. a = b + e
    BY <2>2 DEF Even
  <2>5. Written => e = 0
    BY <1>3 DEF e
  <2>6. b \in Nat
    <3>1. PICK S : out \in Seq(Seq(S))
      BY <1>2 DEF Brackets, Text
    <3>2. line \in Seq(S)
      BY <3>1, ElementOfSeq
    <3>3. QED
      BY <3>2, CountGrows DEF CountGrowsBy
  <2> HIDE DEF a, b
  <2>7. Written => a = b
    BY <2>4, <2>5, <2>6
  <2>8. Opening = {"{", "["} /\ Closing = {"}", "]"}
    BY DEF Opening, Closing
  <2>9. QED
    BY <2>1, <2>3, <2>7, <2>8 DEF Bare, a, b
<1>6. QED
  BY <1>5 DEF FlowHoldsNoBlock

\* A flow collection is written on one line, with nothing in block style between its brackets:
\* neither an entry of a block mapping or sequence nor a block scalar.  Items of a flow
\* sequence may be collections in block style: emit_sequence_flow writes them as flow.  What
\* emit_mapping_flow would write as it finds it is excluded (FlowFits).
THEOREM FlowStaysFlow == Spec => []FlowHoldsNoBlock
<1>1. Spec => []FlowInv
  BY FirstNests, NextNests, PTL DEF Spec
<1>2. ~FlowFits => FlowHoldsNoBlock
  BY DEF FlowHoldsNoBlock
<1>3. FlowInv => FlowHoldsNoBlock
  BY <1>2, NoBlockInFlow
<1>4. QED
  BY <1>1, <1>3, PTL

================================================================================
