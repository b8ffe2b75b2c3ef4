---------------------------- MODULE ScannerProofs -----------------------------
(***************************************************************************)
(* What TLAPS proves about the tokenizer (Scanner.tla), for every text and *)
(* every limit on the length of a key.                                     *)
(*                                                                         *)
(* The methods of the scanner are functions of its state, so the proof is  *)
(* about states.  Between two calls the state is Steady: its stacks agree  *)
(* (Sound), the queue is in order, and each possible key leads, over       *)
(* comments only, to the token it was saved for (Keyed).  In a fetch       *)
(* function a key may have been saved whose token is still to come; then   *)
(* the state is Ready for that token: whatever comments are queued before  *)
(* it, the state is Steady once it is there.  Each method is shown to be   *)
(* Quiet (it queues comments at most and gives up keys at most), to take a *)
(* Steady state to a Steady one, or, where tokens are inserted, to leave   *)
(* the queue before a place as it is (After).                              *)
(***************************************************************************)
EXTENDS Scanner, SequenceFacts, FiniteSetTheorems, TLAPS

(***************************************************************************)
(* The types while the end of the stream is not queued.                    *)
(***************************************************************************)
Marks == [line : Nat, col : Nat]
Content == Kinds \ {"StreamEnd", "Comment"}
Tokens == [kind : Kinds \ {"StreamEnd"}, line : Nat, col : Nat]
SimpleKeys == [possible : BOOLEAN, required : BOOLEAN, token_number : Nat, mark : Marks]
Indents == [indent : Nat \cup {-1}, needs_block_end : BOOLEAN]

Scanners(tokens) ==
  [mark : Marks, tokens : tokens, tokens_parsed : Nat, simple_key_allowed : BOOLEAN,
   simple_keys : Seq(SimpleKeys), indent : Nat \cup {-1}, indents : Seq(Indents),
   flow_level : Nat, adjacent_value_allowed_at : Marks, flow_mapping_started : BOOLEAN,
   implicit_flow_mapping : BOOLEAN, stream_start_produced : BOOLEAN,
   stream_end_produced : BOOLEAN, error : BOOLEAN]

State == Scanners(Seq(Tokens))

(***************************************************************************)
(* The queue and the simple keys.                                          *)
(***************************************************************************)
Comments(ts, n, m) == \A i \in n + 1 .. m : ts[i].kind = "Comment"

\* Behind the first n tokens, and among the first m, comments lead to a token at a place.
Leads(ts, n, m, at) ==
  \E j \in n + 1 .. m :
    ts[j].kind # "Comment" /\ At(ts[j]) = at /\ Comments(ts, n, j - 1)

\* The comments behind the first n tokens stand on that line or below.
Behind(ts, n, line) ==
  \A j \in n + 1 .. Len(ts) : ts[j].kind = "Comment" => line <= ts[j].line

\* Each possible key leads to its token, which stands before the place of the keys of
\* inner levels, when p tokens have been delivered.
Keyed(ts, p, keys) ==
  \A i \in 1 .. Len(keys) :
    keys[i].possible =>
      /\ keys[i].token_number - p \in 0 .. Len(ts)
      /\ Leads(ts, keys[i].token_number - p, Len(ts), keys[i].mark)
      /\ Behind(ts, keys[i].token_number - p, keys[i].mark.line)
      /\ \A k \in i + 1 .. Len(keys) :
           keys[k].possible =>
             Leads(ts, keys[i].token_number - p, keys[k].token_number - p, keys[i].mark)

\* The first n tokens are the same.
Agree(ss, ts, n) == \A i \in 1 .. n : ts[i] = ss[i]

Fewer(keys, ks) ==
  \A i \in 1 .. Len(ks) : ks[i].possible => i \in 1 .. Len(keys) /\ keys[i] = ks[i]

LEMMA LeadsOn ==
  ASSUME NEW ss, NEW ts, NEW b \in Nat, Agree(ss, ts, b),
         NEW n \in Nat, NEW m \in 0 .. b, NEW l \in Nat, m <= l, NEW at,
         Leads(ss, n, m, at)
  PROVE  Leads(ts, n, l, at)
<1>1. PICK j \in n + 1 .. m :
        ss[j].kind # "Comment" /\ At(ss[j]) = at /\ Comments(ss, n, j - 1)
  BY DEF Leads
<1>2. \A i \in n + 1 .. j : ts[i] = ss[i]
  BY DEF Agree
<1>3. j \in n + 1 .. l /\ j \in n + 1 .. j
  OBVIOUS
<1>4. \A i \in n + 1 .. j - 1 : i \in n + 1 .. j
  OBVIOUS
<1>5. Comments(ts, n, j - 1)
  BY <1>1, <1>2, <1>4 DEF Comments
<1>6. ts[j].kind # "Comment" /\ At(ts[j]) = at
  BY <1>1, <1>2, <1>3 DEF At
<1>7. QED
  BY <1>3, <1>5, <1>6 DEF Leads

LEMMA LeadsFar ==
  ASSUME NEW ts, NEW n \in Nat, NEW m \in Nat, NEW at, Leads(ts, n, m, at)
  PROVE  n < m
BY DEF Leads

\* What stays of the queue when tokens before the place b do not change: the keys whose
\* place, and whose token, lie before b.
LEMMA QueueChanges ==
  ASSUME NEW ts \in Seq(Tokens), NEW us \in Seq(Tokens), NEW p \in Nat,
         NEW keys \in Seq(SimpleKeys), NEW ks \in Seq(SimpleKeys), NEW line \in Nat,
         NEW b \in 0 .. Len(ts), b <= Len(us), Agree(ts, us, b),
         Keyed(ts, p, keys), Fewer(keys, ks),
         \A i \in 1 .. Len(ks) : ks[i].possible =>
           /\ Leads(ts, ks[i].token_number - p, b, ks[i].mark)
           /\ ks[i].mark.line <= line,
         \A j \in b + 1 .. Len(us) : us[j].kind = "Comment" =>
           line <= us[j].line \/ \E i \in b + 1 .. Len(ts) : ts[i] = us[j]
  PROVE  Keyed(us, p, ks)
<1>0. Len(ts) \in Nat /\ Len(us) \in Nat /\ Len(ks) \in Nat /\ b \in Nat
  OBVIOUS
<1>a. \A i \in 1 .. Len(ks) : ks[i] \in SimpleKeys
  OBVIOUS
<1> SUFFICES ASSUME NEW i \in 1 .. Len(ks), ks[i].possible
             PROVE  /\ ks[i].token_number - p \in 0 .. Len(us)
                    /\ Leads(us, ks[i].token_number - p, Len(us), ks[i].mark)
                    /\ Behind(us, ks[i].token_number - p, ks[i].mark.line)
                    /\ \A k \in i + 1 .. Len(ks) :
                         ks[k].possible =>
                           Leads(us, ks[i].token_number - p, ks[k].token_number - p,
                                 ks[i].mark)
  BY DEF Keyed
<1> DEFINE n == ks[i].token_number - p
           at == ks[i].mark
<1>1. /\ i \in 1 .. Len(keys) /\ keys[i] = ks[i]
      /\ n \in 0 .. Len(ts)
      /\ Leads(ts, n, Len(ts), at)
      /\ Behind(ts, n, at.line)
      /\ \A k \in i + 1 .. Len(keys) :
           keys[k].possible => Leads(ts, n, keys[k].token_number - p, at)
  <2>1. i \in 1 .. Len(keys) /\ keys[i] = ks[i]
    BY DEF Fewer
  <2>2. keys[i].possible
    BY <2>1
  <2>3. QED
    BY <2>1, <2>2 DEF Keyed
<1>2. Leads(ts, n, b, at) /\ at.line <= line /\ at.line \in Nat
  BY <1>a DEF SimpleKeys, Marks
<1> HIDE DEF n, at
<1>3. n \in Nat
  BY <1>1
<1>4. n < b
  BY <1>0, <1>2, <1>3, LeadsFar
<1>5. n \in 0 .. Len(us)
  BY <1>0, <1>3, <1>4
<1>6. Leads(us, n, Len(us), at)
  <2>1. b \in 0 .. b
    BY <1>0
  <2>2. QED
    BY <1>0, <1>2, <1>3, <2>1, LeadsOn
<1>7. Behind(us, n, at.line)
  <2> SUFFICES ASSUME NEW j \in n + 1 .. Len(us), us[j].kind = "Comment"
               PROVE  at.line <= us[j].line
    BY DEF Behind
  <2>1. us[j] \in Tokens /\ us[j].line \in Nat
    <3>1. j \in 1 .. Len(us)
      BY <1>0, <1>3
    <3>2. us[j] \in Tokens
      BY <3>1
    <3>3. QED
      BY <3>2 DEF Tokens
  <2>2. CASE j <= b
    <3>1. j \in 1 .. b /\ j \in n + 1 .. Len(ts)
      BY <1>0, <1>3, <2>2
    <3>2. us[j] = ts[j]
      BY <3>1 DEF Agree
    <3>3. QED
      BY <1>1, <3>1, <3>2 DEF Behind
  <2>3. CASE ~(j <= b)
    <3>1. j \in b + 1 .. Len(us)
      BY <1>0, <1>3, <2>3
    <3>2. CASE line <= us[j].line
      BY <1>2, <2>1, <3>2
    <3>3. CASE \E x \in b + 1 .. Len(ts) : ts[x] = us[j]
      <4>1. PICK x \in b + 1 .. Len(ts) : ts[x] = us[j]
        BY <3>3
      <4>2. x \in n + 1 .. Len(ts)
        BY <1>0, <1>3, <1>4
      <4>3. QED
        BY <1>1, <4>1, <4>2 DEF Behind
    <3>4. QED
      BY <3>1, <3>2, <3>3
  <2>4. QED
    BY <2>2, <2>3
<1>8. ASSUME NEW k \in i + 1 .. Len(ks), ks[k].possible
      PROVE  Leads(us, n, ks[k].token_number - p, at)
  <2>0. k \in 1 .. Len(ks)
    BY <1>0
  <2> DEFINE m == ks[k].token_number - p
  <2>1. k \in i + 1 .. Len(keys) /\ k \in 1 .. Len(keys) /\ keys[k] = ks[k]
    BY <1>8, <2>0 DEF Fewer
  <2>2. m \in 0 .. Len(ts)
    BY <1>8, <2>1 DEF Keyed
  <2>3. Leads(ts, n, m, at)
    BY <1>1, <1>8, <2>1
  <2>4. Leads(ts, m, b, ks[k].mark)
    BY <1>8, <2>0
  <2> HIDE DEF m
  <2>5. m < b
    BY <1>0, <2>2, <2>4, LeadsFar
  <2>6. m \in 0 .. b /\ m \in Nat
    BY <1>0, <2>2, <2>5
  <2>7. Leads(us, n, m, at)
    BY <1>0, <1>3, <2>3, <2>6, LeadsOn
  <2>8. QED
    BY <2>7 DEF m
<1>9. QED
  BY <1>5, <1>6, <1>7, <1>8 DEF n, at

\* The queue becomes longer: what comes behind the tokens leaves the keys alone.
LEMMA QueueGrows ==
  ASSUME NEW ts \in Seq(Tokens), NEW us \in Seq(Tokens), NEW p \in Nat,
         NEW keys \in Seq(SimpleKeys), NEW ks \in Seq(SimpleKeys), NEW line \in Nat,
         Len(ts) <= Len(us), Agree(ts, us, Len(ts)), Behind(us, Len(ts), line),
         Keyed(ts, p, keys), Fewer(keys, ks),
         \A i \in 1 .. Len(ks) : ks[i].possible => ks[i].mark.line <= line
  PROVE  Keyed(us, p, ks)
<1>1. Len(ts) \in 0 .. Len(ts)
  OBVIOUS
<1>2. \A i \in 1 .. Len(ks) : ks[i].possible =>
        Leads(ts, ks[i].token_number - p, Len(ts), ks[i].mark)
  <2> SUFFICES ASSUME NEW i \in 1 .. Len(ks), ks[i].possible
               PROVE  Leads(ts, ks[i].token_number - p, Len(ts), ks[i].mark)
    OBVIOUS
  <2>1. i \in 1 .. Len(keys) /\ keys[i] = ks[i]
    BY DEF Fewer
  <2>2. keys[i].possible
    BY <2>1
  <2>3. Leads(ts, keys[i].token_number - p, Len(ts), keys[i].mark)
    BY <2>1, <2>2 DEF Keyed
  <2>4. QED
    BY <2>1, <2>3
<1>3. \A j \in Len(ts) + 1 .. Len(us) : us[j].kind = "Comment" => line <= us[j].line
  BY DEF Behind
<1>4. QED
  BY <1>1, <1>2, <1>3, QueueChanges

\* A token comes that keys may have waited for: after the tokens ts come comments and a
\* token at that place.
Comes(ts, us, at) ==
  /\ Len(ts) < Len(us) /\ Agree(ts, us, Len(ts))
  /\ Comments(us, Len(ts), Len(us) - 1) /\ Behind(us, Len(ts), at.line)
  /\ us[Len(us)].kind # "Comment" /\ At(us[Len(us)]) = at

Awaited(ts, p, keys, at) ==
  \A us \in Seq(Tokens) : Comes(ts, us, at) => Keyed(us, p, keys)

LEMMA NothingSaved ==
  ASSUME NEW ts \in Seq(Tokens), NEW p \in Nat, NEW keys \in Seq(SimpleKeys), NEW at \in Marks,
         Keyed(ts, p, keys),
         \A i \in 1 .. Len(keys) : keys[i].possible => keys[i].mark.line <= at.line
  PROVE  Awaited(ts, p, keys, at)
<1> SUFFICES ASSUME NEW us \in Seq(Tokens), Comes(ts, us, at) PROVE Keyed(us, p, keys)
  BY DEF Awaited
<1>1. at.line \in Nat
  BY DEF Marks
<1>2. Len(ts) <= Len(us) /\ Agree(ts, us, Len(ts)) /\ Behind(us, Len(ts), at.line)
  <2>1. Len(ts) \in Nat /\ Len(us) \in Nat
    OBVIOUS
  <2>2. QED
    BY <2>1 DEF Comes
<1>3. Fewer(keys, keys)
  BY DEF Fewer
<1>4. QED
  BY <1>1, <1>2, <1>3, QueueGrows

LEMMA KeySaved ==
  ASSUME NEW ts \in Seq(Tokens), NEW p \in Nat, NEW keys \in Seq(SimpleKeys), NEW at \in Marks,
         Keyed(ts, p, keys), keys # <<>>,
         \A i \in 1 .. Len(keys) : keys[i].possible => keys[i].mark.line <= at.line,
         NEW key \in SimpleKeys, key.token_number = p + Len(ts), key.mark = at
  PROVE  Awaited(ts, p, [keys EXCEPT ![Len(keys)] = key], at)
<1> DEFINE l == Len(keys)
           ks == [keys EXCEPT ![l] = key]
<1> SUFFICES ASSUME NEW us \in Seq(Tokens), Comes(ts, us, at) PROVE Keyed(us, p, ks)
  BY DEF Awaited
<1>0. l \in Nat /\ l \in 1 .. l /\ Len(ts) \in Nat /\ Len(us) \in Nat /\ Len(us) - 1 \in Nat
      /\ Len(ts) < Len(us)
  BY DEF Comes
<1>1. ks \in Seq(SimpleKeys) /\ Len(ks) = l
      /\ \A i \in 1 .. l : ks[i] = IF i = l THEN key ELSE keys[i]
  BY <1>0, ExceptSeq
<1> HIDE DEF ks
<1>2. Keyed(us, p, keys)
  BY NothingSaved DEF Awaited
<1>3. key.token_number - p = Len(ts)
  BY <1>0
<1> SUFFICES ASSUME NEW i \in 1 .. l, ks[i].possible
             PROVE  /\ ks[i].token_number - p \in 0 .. Len(us)
                    /\ Leads(us, ks[i].token_number - p, Len(us), ks[i].mark)
                    /\ Behind(us, ks[i].token_number - p, ks[i].mark.line)
                    /\ \A k \in i + 1 .. l :
                         ks[k].possible =>
                           Leads(us, ks[i].token_number - p, ks[k].token_number - p,
                                 ks[i].mark)
  BY <1>1 DEF Keyed
<1>4. CASE i = l
  <2>1. ks[i] = key
    BY <1>1, <1>4
  <2>2. Len(ts) \in 0 .. Len(us)
    BY <1>0
  <2>3. Leads(us, Len(ts), Len(us), at)
    <3>1. Len(us) \in Len(ts) + 1 .. Len(us)
      BY <1>0
    <3>2. QED
      BY <3>1 DEF Leads, Comes
  <2>4. Behind(us, Len(ts), at.line)
    BY DEF Comes
  <2>5. \A k \in i + 1 .. l : FALSE
    BY <1>0, <1>4
  <2>6. QED
    BY <1>3, <2>1, <2>2, <2>3, <2>4, <2>5
<1>5. CASE i # l
  <2>1. ks[i] = keys[i] /\ keys[i].possible
    BY <1>1, <1>5
  <2> DEFINE n == keys[i].token_number - p
  <2>2. /\ n \in 0 .. Len(us)
        /\ Leads(us, n, Len(us), keys[i].mark)
        /\ Behind(us, n, keys[i].mark.line)
        /\ \A k \in i + 1 .. l :
             keys[k].possible => Leads(us, n, keys[k].token_number - p, keys[i].mark)
    BY <1>2, <2>1 DEF Keyed
  <2>3. n \in 0 .. Len(ts) /\ Leads(ts, n, Len(ts), keys[i].mark)
    BY <2>1 DEF Keyed
  <2> HIDE DEF n
  <2>4. Leads(us, n, Len(ts), keys[i].mark)
    <3>1. Agree(ts, us, Len(ts)) /\ Len(ts) \in 0 .. Len(ts) /\ n \in Nat
      BY <1>0, <2>3 DEF Comes
    <3>2. QED
      BY <1>0, <2>3, <3>1, LeadsOn
  <2>5. ASSUME NEW k \in i + 1 .. l, ks[k].possible
        PROVE  Leads(us, n, ks[k].token_number - p, keys[i].mark)
    <3>0. k \in 1 .. l
      BY <1>0
    <3>1. CASE k = l
      <4>1. ks[k] = key
        BY <1>1, <3>0, <3>1
      <4>2. QED
        BY <1>3, <2>4, <4>1
    <3>2. CASE k # l
      <4>1. ks[k] = keys[k]
        BY <1>1, <3>0, <3>2
      <4>2. QED
        BY <2>2, <2>5, <4>1
    <3>3. QED
      BY <3>1, <3>2
  <2>6. QED
    BY <2>1, <2>2, <2>5 DEF n
<1>6. QED
  BY <1>4, <1>5

\* Keys stay awaited while comments come and keys are given up.
LEMMA CommentsCome ==
  ASSUME NEW ts \in Seq(Tokens), NEW us \in Seq(Tokens), NEW p \in Nat,
         NEW keys \in Seq(SimpleKeys), NEW ks \in Seq(SimpleKeys), NEW at \in Marks,
         Len(ts) <= Len(us), Agree(ts, us, Len(ts)), Comments(us, Len(ts), Len(us)),
         Behind(us, Len(ts), at.line),
         Awaited(ts, p, keys, at), Fewer(keys, ks)
  PROVE  Awaited(us, p, ks, at)
<1> SUFFICES ASSUME NEW vs \in Seq(Tokens), Comes(us, vs, at) PROVE Keyed(vs, p, ks)
  BY DEF Awaited
<1>0. Len(ts) \in Nat /\ Len(us) \in Nat /\ Len(vs) \in Nat /\ Len(us) < Len(vs)
  BY DEF Comes
<1>1. \A i \in 1 .. Len(us) : vs[i] = us[i]
  BY DEF Comes, Agree
<1>2. Comes(ts, vs, at)
  <2>1. Agree(ts, vs, Len(ts))
    <3>1. \A i \in 1 .. Len(ts) : i \in 1 .. Len(us)
      BY <1>0
    <3>2. QED
      BY <1>1, <3>1 DEF Agree
  <2>2. \A j \in Len(ts) + 1 .. Len(vs) :
          \/ j \in 1 .. Len(us) /\ j \in Len(ts) + 1 .. Len(us)
          \/ j \in Len(us) + 1 .. Len(vs)
    BY <1>0
  <2>3. \A j \in Len(ts) + 1 .. Len(vs) - 1 :
          \/ j \in 1 .. Len(us) /\ j \in Len(ts) + 1 .. Len(us)
          \/ j \in Len(us) + 1 .. Len(vs) - 1
    BY <1>0
  <2>4. Comments(vs, Len(ts), Len(vs) - 1)
    <3>1. Comments(vs, Len(us), Len(vs) - 1)
      BY DEF Comes
    <3>2. QED
      BY <1>1, <2>3, <3>1 DEF Comments
  <2>5. Behind(vs, Len(ts), at.line)
    <3>1. Behind(vs, Len(us), at.line)
      BY DEF Comes
    <3>2. QED
      BY <1>1, <2>2, <3>1 DEF Behind
  <2>6. Len(ts) < Len(vs)
    BY <1>0
  <2>7. QED
    BY <2>1, <2>4, <2>5, <2>6 DEF Comes
<1>3. Keyed(vs, p, keys)
  BY <1>2 DEF Awaited
<1>4. QED
  <2>1. \A i \in 1 .. Len(ks) : ks[i].possible => i \in 1 .. Len(keys) /\ keys[i] = ks[i]
    BY DEF Fewer
  <2>2. \A i \in 1 .. Len(ks) : \A k \in i + 1 .. Len(ks) : k \in 1 .. Len(ks)
    OBVIOUS
  <2>3. ASSUME NEW i \in 1 .. Len(ks), ks[i].possible, NEW k \in i + 1 .. Len(ks)
        PROVE  ks[k].possible => k \in i + 1 .. Len(keys) /\ keys[k] = ks[k]
    BY <2>1, <2>2
  <2>4. QED
    <3> SUFFICES ASSUME NEW i \in 1 .. Len(ks), ks[i].possible
        PROVE  /\ ks[i].token_number - p \in 0 .. Len(vs)
               /\ Leads(vs, ks[i].token_number - p, Len(vs), ks[i].mark)
               /\ Behind(vs, ks[i].token_number - p, ks[i].mark.line)
               /\ \A k \in i + 1 .. Len(ks) :
                    ks[k].possible =>
                      Leads(vs, ks[i].token_number - p, ks[k].token_number - p, ks[i].mark)
      BY DEF Keyed
    <3>1. i \in 1 .. Len(keys) /\ keys[i] = ks[i] /\ keys[i].possible
      BY <2>1
    <3>2. /\ keys[i].token_number - p \in 0 .. Len(vs)
          /\ Leads(vs, keys[i].token_number - p, Len(vs), keys[i].mark)
          /\ Behind(vs, keys[i].token_number - p, keys[i].mark.line)
          /\ \A k \in i + 1 .. Len(keys) :
               keys[k].possible =>
                 Leads(vs, keys[i].token_number - p, keys[k].token_number - p, keys[i].mark)
      BY <1>3, <3>1 DEF Keyed
    <3>3. QED
      BY <2>3, <3>1, <3>2

\* The innermost key is given up, and others may be.
Shed(keys, ks) ==
  \A i \in 1 .. Len(ks) : ks[i].possible => i \in 1 .. Len(keys) - 1 /\ keys[i] = ks[i]

Above(keys, line) ==
  \A i \in 1 .. Len(keys) : keys[i].possible => keys[i].mark.line <= line

\* The comments behind the place b were behind it, or do not stand above that line.
Renewed(ts, us, b, line) ==
  \A j \in b + 1 .. Len(us) : us[j].kind = "Comment" =>
    line <= us[j].line \/ \E i \in b + 1 .. Len(ts) : ts[i] = us[j]

\* The innermost key turns out to be one: nothing changes before its place, and it is a
\* key no more.
LEMMA KeyFound ==
  ASSUME NEW ts \in Seq(Tokens), NEW us \in Seq(Tokens), NEW p \in Nat,
         NEW keys \in Seq(SimpleKeys), keys # <<>>, keys[Len(keys)].possible,
         NEW ks \in Seq(SimpleKeys), NEW line \in Nat, NEW b,
         b = keys[Len(keys)].token_number - p,
         Keyed(ts, p, keys), Len(ts) <= Len(us), Agree(ts, us, b),
         Shed(keys, ks), Above(keys, line), Renewed(ts, us, b, line)
  PROVE  Keyed(us, p, ks)
<1> DEFINE l == Len(keys)
<1>0. Len(ts) \in Nat /\ Len(us) \in Nat /\ l \in 1 .. l /\ l \in Nat
  OBVIOUS
<1>1. b \in 0 .. Len(ts)
  BY <1>0 DEF Keyed
<1> HIDE DEF l
<1>2. b <= Len(us)
  BY <1>0, <1>1
<1>3. \A i \in 1 .. l - 1 : i \in 1 .. l /\ l \in i + 1 .. l
  BY <1>0
<1>4. Fewer(keys, ks)
  BY <1>3 DEF Fewer, Shed, l
<1>5. ASSUME NEW i \in 1 .. Len(ks), ks[i].possible
      PROVE  Leads(ts, ks[i].token_number - p, b, ks[i].mark) /\ ks[i].mark.line <= line
  <2>1. i \in 1 .. l - 1 /\ keys[i] = ks[i] /\ keys[i].possible
    BY <1>5 DEF Shed, l
  <2>2. i \in 1 .. l /\ l \in i + 1 .. l
    BY <1>3, <2>1
  <2>3. Leads(ts, keys[i].token_number - p, keys[l].token_number - p, keys[i].mark)
    BY <2>1, <2>2 DEF Keyed, l
  <2>4. keys[i].mark.line <= line
    BY <2>1, <2>2 DEF Above, l
  <2>5. QED
    BY <2>1, <2>3, <2>4 DEF l
<1>6. QED
  BY <1>1, <1>2, <1>4, <1>5, QueueChanges DEF Renewed

\* The head of the queue is delivered; it is no key's token.
LEMMA TokenDelivered ==
  ASSUME NEW ts \in Seq(Tokens), ts # <<>>, NEW p \in Nat, NEW keys \in Seq(SimpleKeys),
         Keyed(ts, p, keys),
         \A i \in 1 .. Len(keys) : keys[i].possible => keys[i].token_number # p
  PROVE  Keyed(Tail(ts), p + 1, keys)
<1> DEFINE us == Tail(ts)
<1>0. Len(ts) \in Nat /\ Len(us) \in Nat /\ Len(us) = Len(ts) - 1
  OBVIOUS
<1>1. \A j \in 1 .. Len(us) : us[j] = ts[j + 1]
  OBVIOUS
<1>2. \A i \in 1 .. Len(keys) : keys[i] \in SimpleKeys
  OBVIOUS
<1> HIDE DEF us
<1>3. ASSUME NEW i \in 1 .. Len(keys), keys[i].possible
      PROVE  /\ keys[i].token_number - p \in 1 .. Len(ts)
             /\ keys[i].token_number - (p + 1) \in 0 .. Len(us)
             /\ keys[i].token_number - (p + 1) = (keys[i].token_number - p) - 1
  <2>1. keys[i].token_number - p \in 0 .. Len(ts) /\ keys[i].token_number # p
    BY <1>3 DEF Keyed
  <2>2. keys[i].token_number \in Nat
    BY <1>2 DEF SimpleKeys
  <2>3. QED
    BY <1>0, <2>1, <2>2
<1>4. ASSUME NEW n \in 1 .. Len(ts), NEW m \in Nat, m <= Len(ts), NEW at, Leads(ts, n, m, at)
      PROVE  Leads(us, n - 1, m - 1, at)
  <2>1. PICK j \in n + 1 .. m :
          ts[j].kind # "Comment" /\ At(ts[j]) = at /\ Comments(ts, n, j - 1)
    BY <1>4 DEF Leads
  <2>2. j - 1 \in (n - 1) + 1 .. m - 1 /\ j - 1 \in 1 .. Len(us) /\ (j - 1) + 1 = j
    BY <1>0, <1>4
  <2>3. us[j - 1] = ts[j]
    BY <1>1, <2>2
  <2>4. Comments(us, n - 1, (j - 1) - 1)
    <3> SUFFICES ASSUME NEW x \in (n - 1) + 1 .. (j - 1) - 1 PROVE us[x].kind = "Comment"
      BY DEF Comments
    <3>1. x \in 1 .. Len(us) /\ x + 1 \in n + 1 .. j - 1
      BY <1>0, <1>4
    <3>2. QED
      BY <1>1, <2>1, <3>1 DEF Comments
  <2>5. At(us[j - 1]) = at /\ us[j - 1].kind # "Comment"
    BY <2>1, <2>3
  <2>6. QED
    BY <2>2, <2>4, <2>5 DEF Leads
<1> SUFFICES ASSUME NEW i \in 1 .. Len(keys), keys[i].possible
             PROVE  /\ keys[i].token_number - (p + 1) \in 0 .. Len(us)
                    /\ Leads(us, keys[i].token_number - (p + 1), Len(us), keys[i].mark)
                    /\ Behind(us, keys[i].token_number - (p + 1), keys[i].mark.line)
                    /\ \A k \in i + 1 .. Len(keys) :
                         keys[k].possible =>
                           Leads(us, keys[i].token_number - (p + 1),
                                 keys[k].token_number - (p + 1), keys[i].mark)
  BY DEF Keyed, us
<1> DEFINE n == keys[i].token_number - p
           at == keys[i].mark
<1>5. /\ Leads(ts, n, Len(ts), at)
      /\ Behind(ts, n, at.line)
      /\ \A k \in i + 1 .. Len(keys) :
           keys[k].possible => Leads(ts, n, keys[k].token_number - p, at)
  BY DEF Keyed
<1>6. n \in 1 .. Len(ts) /\ n - 1 \in 0 .. Len(us) /\ keys[i].token_number - (p + 1) = n - 1
  BY <1>3
<1> HIDE DEF n, at
<1>7. Leads(us, n - 1, Len(us), at)
  BY <1>0, <1>4, <1>5, <1>6
<1>8. Behind(us, n - 1, at.line)
  <2> SUFFICES ASSUME NEW j \in (n - 1) + 1 .. Len(us), us[j].kind = "Comment"
               PROVE  at.line <= us[j].line
    BY DEF Behind
  <2>1. j \in 1 .. Len(us) /\ j + 1 \in n + 1 .. Len(ts)
    BY <1>0, <1>6
  <2>2. QED
    BY <1>1, <1>5, <2>1 DEF Behind
<1>9. ASSUME NEW k \in i + 1 .. Len(keys), keys[k].possible
      PROVE  Leads(us, n - 1, keys[k].token_number - (p + 1), at)
  <2>1. k \in 1 .. Len(keys)
    OBVIOUS
  <2> DEFINE m == keys[k].token_number - p
  <2>2. m \in 1 .. Len(ts) /\ keys[k].token_number - (p + 1) = m - 1
    BY <1>3, <1>9, <2>1
  <2>3. Leads(ts, n, m, at)
    BY <1>5, <1>9
  <2> HIDE DEF m
  <2>4. m \in Nat /\ m <= Len(ts)
    BY <1>0, <2>2
  <2>5. Leads(us, n - 1, m - 1, at)
    BY <1>4, <1>6, <2>3, <2>4
  <2>6. QED
    BY <2>2, <2>5
<1>10. QED
  BY <1>6, <1>7, <1>8, <1>9 DEF at

(***************************************************************************)
(* The state of the scanner while the end of the stream is not queued.     *)
(***************************************************************************)
\* No token stands below that line, and a comment never waits behind a later token.
Ordered(ts, line) ==
  \A j \in 1 .. Len(ts) :
    /\ ts[j].line <= line
    /\ ts[j].kind = "Comment" => \A i \in 1 .. j - 1 : ts[i].line <= ts[j].line

Rising(s) ==
  /\ Level(s, 0) = -1
  /\ \A n \in 1 .. Len(s.indents) : Level(s, n - 1) < Level(s, n)

Passed(s) ==
  \A i \in 1 .. Len(s.simple_keys) :
    s.simple_keys[i].possible => s.simple_keys[i].mark.line <= s.mark.line

Sound(s) ==
  /\ s \in State /\ s.stream_start_produced
  /\ Len(s.simple_keys) = s.flow_level + 1
  /\ Rising(s) /\ Ordered(s.tokens, s.mark.line) /\ Passed(s)

Steady(s) == Sound(s) /\ Keyed(s.tokens, s.tokens_parsed, s.simple_keys)

\* A key may have been saved for the token that comes from that place.
Ready(s, at) ==
  /\ Sound(s) /\ at.line <= s.mark.line
  /\ Awaited(s.tokens, s.tokens_parsed, s.simple_keys, at)

\* From s to t nothing changes before the place b of the queue, the comments behind it are
\* new or were behind it, and at most keys are given up.
After(s, t, b) ==
  /\ Sound(t) /\ t.tokens_parsed = s.tokens_parsed /\ s.mark.line <= t.mark.line
  /\ Len(s.tokens) <= Len(t.tokens) /\ Agree(s.tokens, t.tokens, b)
  /\ \A j \in b + 1 .. Len(t.tokens) : t.tokens[j].kind = "Comment" =>
       s.mark.line <= t.tokens[j].line \/ \E i \in b + 1 .. Len(s.tokens) : s.tokens[i] = t.tokens[j]
  /\ Fewer(s.simple_keys, t.simple_keys)

Grows(s, t) == After(s, t, Len(s.tokens))

\* And nothing but comments is queued.
Quiet(s, t) == Grows(s, t) /\ Comments(t.tokens, Len(s.tokens), Len(t.tokens))

LEMMA Fields ==
  ASSUME NEW s \in State
  PROVE  /\ s.mark \in Marks /\ s.mark.line \in Nat /\ s.mark.col \in Nat
         /\ s.tokens \in Seq(Tokens) /\ s.tokens_parsed \in Nat
         /\ s.simple_keys \in Seq(SimpleKeys) /\ s.indent \in Nat \cup {-1}
         /\ s.indents \in Seq(Indents) /\ s.flow_level \in Nat
         /\ s.implicit_flow_mapping \in BOOLEAN /\ s.flow_mapping_started \in BOOLEAN
         /\ s.simple_key_allowed \in BOOLEAN
BY DEF State, Scanners, Marks

LEMMA TokenFields ==
  ASSUME NEW ts \in Seq(Tokens)
  PROVE  /\ Len(ts) \in Nat
         /\ \A j \in 1 .. Len(ts) :
              ts[j] \in Tokens /\ ts[j].line \in Nat /\ ts[j].kind # "StreamEnd"
<1>1. \A j \in 1 .. Len(ts) : ts[j] \in Tokens
  OBVIOUS
<1>2. \A x \in Tokens : x.line \in Nat /\ x.kind # "StreamEnd"
  BY DEF Tokens
<1>3. QED
  BY <1>1, <1>2

LEMMA KeyFields ==
  ASSUME NEW keys \in Seq(SimpleKeys)
  PROVE  /\ Len(keys) \in Nat
         /\ \A i \in 1 .. Len(keys) :
              /\ keys[i] \in SimpleKeys /\ keys[i].possible \in BOOLEAN
              /\ keys[i].token_number \in Nat /\ keys[i].mark \in Marks
              /\ keys[i].mark.line \in Nat /\ keys[i].mark.col \in Nat
<1>1. \A i \in 1 .. Len(keys) : keys[i] \in SimpleKeys
  OBVIOUS
<1>2. \A x \in SimpleKeys : /\ x.possible \in BOOLEAN /\ x.token_number \in Nat /\ x.mark \in Marks
                           /\ x.mark.line \in Nat /\ x.mark.col \in Nat
  BY DEF SimpleKeys, Marks
<1>3. QED
  BY <1>1, <1>2

LEMMA SteadyGrows ==
  ASSUME NEW s, NEW t, Steady(s), Grows(s, t)
  PROVE  Steady(t)
<1>0. s \in State /\ t \in State /\ Sound(t) /\ t.tokens_parsed = s.tokens_parsed
  BY DEF Steady, Grows, After, Sound
<1>1. /\ s.tokens \in Seq(Tokens) /\ t.tokens \in Seq(Tokens) /\ s.tokens_parsed \in Nat
      /\ s.simple_keys \in Seq(SimpleKeys) /\ t.simple_keys \in Seq(SimpleKeys)
      /\ s.mark.line \in Nat
  BY <1>0, Fields
<1>2. Behind(t.tokens, Len(s.tokens), s.mark.line)
  <2>1. \A i \in Len(s.tokens) + 1 .. Len(s.tokens) : FALSE
    BY <1>1
  <2>2. QED
    BY <2>1 DEF Grows, After, Behind
<1>3. /\ Len(s.tokens) <= Len(t.tokens) /\ Agree(s.tokens, t.tokens, Len(s.tokens))
      /\ Fewer(s.simple_keys, t.simple_keys)
      /\ Keyed(s.tokens, s.tokens_parsed, s.simple_keys)
  BY DEF Grows, After, Steady
<1>4. \A i \in 1 .. Len(t.simple_keys) :
        t.simple_keys[i].possible => t.simple_keys[i].mark.line <= s.mark.line
  BY <1>3 DEF Steady, Sound, Passed, Fewer
<1>5. Keyed(t.tokens, s.tokens_parsed, t.simple_keys)
  BY <1>1, <1>2, <1>3, <1>4, QueueGrows
<1>6. QED
  BY <1>0, <1>5 DEF Steady

LEMMA SteadyReady ==
  ASSUME NEW s, Steady(s), NEW at \in Marks, at.line = s.mark.line
  PROVE  Ready(s, at)
<1>0. s \in State /\ Sound(s)
  BY DEF Steady, Sound
<1>1. /\ s.tokens \in Seq(Tokens) /\ s.tokens_parsed \in Nat
      /\ s.simple_keys \in Seq(SimpleKeys) /\ s.mark.line \in Nat
  BY <1>0, Fields
<1>2. \A i \in 1 .. Len(s.simple_keys) :
        s.simple_keys[i].possible => s.simple_keys[i].mark.line <= at.line
  BY <1>0 DEF Sound, Passed
<1>3. Awaited(s.tokens, s.tokens_parsed, s.simple_keys, at)
  BY <1>1, <1>2, NothingSaved DEF Steady
<1>4. QED
  BY <1>0, <1>1, <1>3 DEF Ready

LEMMA ReadyQuiet ==
  ASSUME NEW s, NEW t, NEW at \in Marks, Ready(s, at), Quiet(s, t)
  PROVE  Ready(t, at)
<1>0. s \in State /\ t \in State /\ Sound(t) /\ t.tokens_parsed = s.tokens_parsed
  BY DEF Ready, Quiet, Grows, After, Sound
<1>1. /\ s.tokens \in Seq(Tokens) /\ t.tokens \in Seq(Tokens) /\ s.tokens_parsed \in Nat
      /\ s.simple_keys \in Seq(SimpleKeys) /\ t.simple_keys \in Seq(SimpleKeys)
      /\ s.mark.line \in Nat /\ t.mark.line \in Nat /\ at.line \in Nat
  BY <1>0, Fields DEF Marks
<1>2. at.line <= s.mark.line /\ at.line <= t.mark.line
  BY <1>1 DEF Ready, Quiet, Grows, After
<1>3. Behind(t.tokens, Len(s.tokens), at.line)
  <2>1. \A i \in Len(s.tokens) + 1 .. Len(s.tokens) : FALSE
    BY <1>1
  <2>2. \A j \in Len(s.tokens) + 1 .. Len(t.tokens) :
          t.tokens[j].kind = "Comment" => s.mark.line <= t.tokens[j].line
    BY <2>1 DEF Quiet, Grows, After
  <2>3. \A j \in Len(s.tokens) + 1 .. Len(t.tokens) : t.tokens[j].line \in Nat
    <3>1. \A j \in Len(s.tokens) + 1 .. Len(t.tokens) : j \in 1 .. Len(t.tokens)
      BY <1>1
    <3>2. QED
      BY <1>1, <3>1, TokenFields
  <2>4. QED
    BY <1>1, <1>2, <2>2, <2>3 DEF Behind
<1>4. /\ Len(s.tokens) <= Len(t.tokens) /\ Agree(s.tokens, t.tokens, Len(s.tokens))
      /\ Fewer(s.simple_keys, t.simple_keys)
      /\ Comments(t.tokens, Len(s.tokens), Len(t.tokens))
      /\ Awaited(s.tokens, s.tokens_parsed, s.simple_keys, at)
  BY DEF Quiet, Grows, After, Ready
<1>5. Awaited(t.tokens, s.tokens_parsed, t.simple_keys, at)
  BY <1>1, <1>3, <1>4, CommentsCome
<1>6. QED
  BY <1>0, <1>2, <1>5 DEF Ready

\* A step that leaves the queue alone.
LEMMA QueueKept ==
  ASSUME NEW s, NEW t \in State, Sound(s),
         t.stream_start_produced, t.tokens = s.tokens, t.tokens_parsed = s.tokens_parsed,
         s.mark.line <= t.mark.line, Fewer(s.simple_keys, t.simple_keys),
         Len(t.simple_keys) = t.flow_level + 1, Rising(t)
  PROVE  Quiet(s, t)
<1>0. s \in State
  BY DEF Sound
<1>1. s.tokens \in Seq(Tokens) /\ s.mark.line \in Nat /\ t.mark.line \in Nat
      /\ s.simple_keys \in Seq(SimpleKeys) /\ Len(s.tokens) \in Nat
  BY <1>0, Fields
<1>2. Ordered(t.tokens, t.mark.line)
  <2>1. \A j \in 1 .. Len(s.tokens) : s.tokens[j].line \in Nat
    BY <1>1, TokenFields
  <2>2. QED
    BY <1>1, <2>1 DEF Ordered, Sound
<1>3. Passed(t)
  <2>1. \A i \in 1 .. Len(s.simple_keys) : s.simple_keys[i].mark.line \in Nat
    BY <1>1, KeyFields
  <2>2. QED
    BY <1>1, <2>1 DEF Passed, Fewer, Sound
<1>4. Sound(t)
  BY <1>2, <1>3 DEF Sound
<1>5. \A j \in Len(s.tokens) + 1 .. Len(s.tokens) : FALSE
  BY <1>1
<1>6. QED
  BY <1>1, <1>4, <1>5 DEF Quiet, Grows, After, Agree, Comments

(***************************************************************************)
(* The methods of the scanner that change the queue.                       *)
(***************************************************************************)
\* The two differ in their tokens at most.
SameButTokens(s, t) ==
  /\ t.mark = s.mark /\ t.tokens_parsed = s.tokens_parsed /\ t.simple_keys = s.simple_keys
  /\ t.indent = s.indent /\ t.indents = s.indents /\ t.flow_level = s.flow_level
  /\ t.implicit_flow_mapping = s.implicit_flow_mapping /\ t.error = s.error
  /\ t.simple_key_allowed = s.simple_key_allowed
  /\ t.stream_start_produced = s.stream_start_produced
  /\ t.stream_end_produced = s.stream_end_produced

LEMMA WithTokens ==
  ASSUME NEW T, NEW U, NEW s \in Scanners(T), NEW x \in U
  PROVE  /\ [s EXCEPT !.tokens = x] \in Scanners(U)
         /\ [s EXCEPT !.tokens = x].tokens = x
         /\ SameButTokens(s, [s EXCEPT !.tokens = x])
BY DEF Scanners, SameButTokens

LEMMA StillRising ==
  ASSUME NEW s, NEW t, t.indent = s.indent, t.indents = s.indents, Rising(s)
  PROVE  Rising(t)
BY DEF Rising, Level

LEMMA Indented ==
  ASSUME NEW s, NEW t, SameButTokens(s, t), t \in State, Sound(s), Ordered(t.tokens, t.mark.line)
  PROVE  Sound(t)
<1>1. Rising(t)
  BY StillRising DEF SameButTokens, Sound
<1>2. QED
  BY <1>1 DEF SameButTokens, Sound, Passed

\* A token joins the end of the queue.
LEMMA OrderedMore ==
  ASSUME NEW ts \in Seq(Tokens), NEW line \in Nat, Ordered(ts, line), NEW tok \in Tokens,
         tok.line <= line, tok.kind = "Comment" => tok.line = line
  PROVE  Ordered(Append(ts, tok), line)
<1> DEFINE us == Append(ts, tok)
<1>1. /\ us \in Seq(Tokens) /\ Len(us) = Len(ts) + 1 /\ us[Len(ts) + 1] = tok
      /\ \A i \in 1 .. Len(ts) : us[i] = ts[i]
  BY AppendProperties
<1> HIDE DEF us
<1>2. Len(ts) \in Nat
  BY TokenFields
<1> SUFFICES ASSUME NEW j \in 1 .. Len(us)
             PROVE  /\ us[j].line <= line
                    /\ us[j].kind = "Comment" => \A i \in 1 .. j - 1 : us[i].line <= us[j].line
  BY DEF Ordered, us
<1>3. CASE j \in 1 .. Len(ts)
  <2>1. \A i \in 1 .. j - 1 : i \in 1 .. Len(ts)
    BY <1>2, <1>3
  <2>2. QED
    BY <1>1, <1>3, <2>1 DEF Ordered
<1>4. CASE j = Len(ts) + 1
  <2>1. us[j] = tok
    BY <1>1, <1>4
  <2>2. \A i \in 1 .. j - 1 : i \in 1 .. Len(ts) /\ us[i] = ts[i] /\ ts[i].line <= line
    BY <1>1, <1>2, <1>4 DEF Ordered
  <2>3. QED
    BY <2>1, <2>2
<1>5. j \in 1 .. Len(ts) \/ j = Len(ts) + 1
  BY <1>1, <1>2
<1>6. QED
  BY <1>3, <1>4, <1>5

LEMMA TokenType ==
  ASSUME NEW kind, NEW at \in Marks
  PROVE  /\ kind \in Content => Token(kind, at) \in Tokens
         /\ Token("Comment", at) \in Tokens
         /\ Token(kind, at).kind = kind /\ Token(kind, at).line = at.line
         /\ At(Token(kind, at)) = at
BY DEF Content, Kinds, Openers, Closers, Tokens, Token, Marks, At

LEMMA PushReady ==
  ASSUME NEW s, NEW at \in Marks, Ready(s, at), NEW kind \in Content
  PROVE  Steady(Push(s, kind, at))
<1> DEFINE tok == Token(kind, at)
           us == Append(s.tokens, tok)
           t == Push(s, kind, at)
<1>0. s \in State /\ Sound(s) /\ at.line <= s.mark.line /\ at.line \in Nat
  BY DEF Ready, Sound, Marks
<1>1. s.tokens \in Seq(Tokens) /\ s.mark.line \in Nat
  BY <1>0, Fields
<1>2. tok \in Tokens /\ tok.kind # "Comment" /\ tok.line = at.line /\ At(tok) = at
  BY TokenType DEF Content
<1> HIDE DEF tok
<1>3. /\ us \in Seq(Tokens) /\ Len(us) = Len(s.tokens) + 1 /\ us[Len(s.tokens) + 1] = tok
      /\ \A i \in 1 .. Len(s.tokens) : us[i] = s.tokens[i]
  BY <1>1, <1>2, AppendProperties
<1>4. Ordered(us, s.mark.line)
  BY <1>0, <1>1, <1>2, OrderedMore DEF Sound
<1> HIDE DEF us
<1>5. t = [s EXCEPT !.tokens = us]
  BY DEF Push, us, tok
<1>6. t \in State /\ t.tokens = us /\ SameButTokens(s, t)
  BY <1>0, <1>3, <1>5, WithTokens DEF State
<1> HIDE DEF t
<1>7. Sound(t)
  BY <1>0, <1>4, <1>6, Indented DEF SameButTokens
<1>8. Comes(s.tokens, us, at)
  <2>0. Len(s.tokens) \in Nat
    BY <1>1, TokenFields
  <2>1. Comments(us, Len(s.tokens), Len(us) - 1)
    BY <1>3, <2>0 DEF Comments
  <2>2. \A j \in Len(s.tokens) + 1 .. Len(us) : us[j].kind # "Comment"
    BY <1>2, <1>3, <2>0
  <2>3. QED
    BY <1>2, <1>3, <2>0, <2>1, <2>2 DEF Comes, Agree, Behind
<1>9. Keyed(us, s.tokens_parsed, s.simple_keys)
  BY <1>3, <1>8 DEF Ready, Awaited
<1>10. QED
  BY <1>6, <1>7, <1>9 DEF Steady, SameButTokens, t

LEMMA PushSteady ==
  ASSUME NEW s, NEW at \in Marks, Steady(s), at.line = s.mark.line, NEW kind \in Content
  PROVE  Steady(Push(s, kind, at))
BY SteadyReady, PushReady

\* Comments are queued as the mark moves on, each on a line that the mark passes.
LEMMA NotesQuiet ==
  ASSUME NEW s, Sound(s), NEW t \in State, NEW lines,
         lines = <<>> \/ \E l \in s.mark.line .. t.mark.line : lines = <<l>>,
         t.tokens = s.tokens \o Notes(lines), t.tokens_parsed = s.tokens_parsed,
         t.simple_keys = s.simple_keys, t.indent = s.indent, t.indents = s.indents,
         t.flow_level = s.flow_level, t.stream_start_produced,
         s.mark.line <= t.mark.line
  PROVE  Quiet(s, t)
<1>0. s \in State /\ Rising(t)
  BY StillRising DEF Sound
<1>1. /\ s.tokens \in Seq(Tokens) /\ s.mark.line \in Nat /\ t.mark.line \in Nat
      /\ s.simple_keys \in Seq(SimpleKeys)
  BY <1>0, Fields
<1>2. CASE lines = <<>>
  <2>1. Notes(lines) = <<>>
    BY <1>2 DEF Notes
  <2>2. t.tokens = s.tokens
    BY <1>1, <2>1, ConcatEmptySeq
  <2>3. Fewer(s.simple_keys, t.simple_keys)
    BY DEF Fewer
  <2>4. Len(t.simple_keys) = t.flow_level + 1
    BY DEF Sound
  <2>5. QED
    BY <1>0, <2>2, <2>3, <2>4, QueueKept
<1>3. CASE lines # <<>>
  <2>0. PICK l \in s.mark.line .. t.mark.line : lines = <<l>>
    BY <1>3
  <2> DEFINE tok == Note(l)
             at == [line |-> l, col |-> 0]
             us == Append(s.tokens, tok)
  <2>1. l \in Nat /\ s.mark.line <= l /\ l <= t.mark.line
    BY <1>1
  <2>2. at \in Marks
    BY <2>1 DEF Marks
  <2>3. tok \in Tokens /\ tok.kind = "Comment" /\ tok.line = l
    BY <2>2, TokenType DEF Note
  <2>4. Notes(lines) = <<tok>>
    BY <2>0 DEF Notes
  <2> HIDE DEF tok
  <2>5. t.tokens = us
    BY <1>1, <2>3, <2>4, AppendIsConcat
  <2>6. /\ us \in Seq(Tokens) /\ Len(us) = Len(s.tokens) + 1 /\ us[Len(s.tokens) + 1] = tok
        /\ \A i \in 1 .. Len(s.tokens) : us[i] = s.tokens[i]
    BY <1>1, <2>3, AppendProperties
  <2> HIDE DEF us
  <2>7. Len(s.tokens) \in Nat /\ \A j \in 1 .. Len(s.tokens) : s.tokens[j].line \in Nat
    BY <1>1, TokenFields
  <2>8. Ordered(us, t.mark.line)
    <3> SUFFICES ASSUME NEW j \in 1 .. Len(us)
                 PROVE  /\ us[j].line <= t.mark.line
                        /\ us[j].kind = "Comment" => \A i \in 1 .. j - 1 : us[i].line <= us[j].line
      BY DEF Ordered
    <3>1. CASE j \in 1 .. Len(s.tokens)
      <4>1. \A i \in 1 .. j - 1 : i \in 1 .. Len(s.tokens)
        BY <2>7, <3>1
      <4>2. /\ s.tokens[j].line <= s.mark.line /\ s.tokens[j].line \in Nat
            /\ s.tokens[j].kind = "Comment" =>
                 \A i \in 1 .. j - 1 : s.tokens[i].line <= s.tokens[j].line
        BY <2>7, <3>1 DEF Ordered, Sound
      <4>3. us[j] = s.tokens[j] /\ \A i \in 1 .. j - 1 : us[i] = s.tokens[i]
        BY <2>6, <3>1, <4>1
      <4>4. s.tokens[j].line <= t.mark.line
        BY <1>1, <4>2
      <4>5. QED
        BY <4>2, <4>3, <4>4
    <3>2. CASE j = Len(s.tokens) + 1
      <4>1. us[j] = tok
        BY <2>6, <3>2
      <4>2. \A i \in 1 .. j - 1 : i \in 1 .. Len(s.tokens) /\ us[i] = s.tokens[i]
        BY <2>6, <2>7, <3>2
      <4>3. \A i \in 1 .. Len(s.tokens) : s.tokens[i].line <= s.mark.line /\ s.tokens[i].line \in Nat
        BY <2>7 DEF Ordered, Sound
      <4>4. ASSUME NEW i \in 1 .. j - 1 PROVE us[i].line <= l
        <5>1. us[i] = s.tokens[i] /\ s.tokens[i].line <= s.mark.line /\ s.tokens[i].line \in Nat
          BY <4>2, <4>3
        <5> DEFINE k == s.tokens[i].line
                   m == s.mark.line
        <5>2. k <= m /\ k \in Nat /\ m \in Nat /\ m <= l /\ l \in Nat
          BY <1>1, <2>1, <5>1
        <5> HIDE DEF k, m
        <5>3. k <= l
          BY <5>2
        <5>4. QED
          BY <5>1, <5>3 DEF k
      <4>5. us[j].line <= t.mark.line
        BY <2>1, <2>3, <4>1
      <4>6. QED
        BY <2>3, <4>1, <4>4, <4>5
    <3>3. j \in 1 .. Len(s.tokens) \/ j = Len(s.tokens) + 1
      BY <2>6, <2>7
    <3>4. QED
      BY <3>1, <3>2, <3>3
  <2>9. Passed(t)
    BY <1>1, KeyFields DEF Passed, Sound
  <2>10. Sound(t)
    BY <1>0, <2>5, <2>8, <2>9 DEF Sound
  <2>11. \A j \in Len(s.tokens) + 1 .. Len(us) :
           us[j].kind = "Comment" /\ s.mark.line <= us[j].line
    BY <2>1, <2>3, <2>6, <2>7
  <2>12. Fewer(s.simple_keys, t.simple_keys)
    BY DEF Fewer
  <2>13. QED
    BY <2>5, <2>6, <2>7, <2>10, <2>11, <2>12 DEF Quiet, Grows, After, Agree, Comments
<1>4. QED
  BY <1>2, <1>3

(***************************************************************************)
(* The methods that leave the queue alone.                                 *)
(***************************************************************************)
LEMMA StateKept ==
  ASSUME NEW s \in State
  PROVE  /\ AllowKey(s) \in State /\ DisallowKey(s) \in State /\ Failed(s) \in State
         /\ \A at \in Marks : MoveTo(s, at) \in State
         /\ \A width \in Nat : Past(s, width) \in State
<1>1. AllowKey(s) \in State /\ DisallowKey(s) \in State /\ Failed(s) \in State
  BY DEF State, Scanners, AllowKey, DisallowKey, Failed
<1>2. ASSUME NEW at \in Marks PROVE [s EXCEPT !.mark = at] \in State
  BY DEF State, Scanners
<1>3. ASSUME NEW width \in Nat PROVE Past(s, width) \in State
  <2> DEFINE at == [s.mark EXCEPT !.col = s.mark.col + width]
  <2>1. at \in Marks
    BY Fields DEF Marks
  <2>2. Past(s, width) = [s EXCEPT !.mark = at]
    BY DEF State, Scanners, Past
  <2> HIDE DEF at
  <2>3. QED
    BY <1>2, <2>1, <2>2
<1>4. QED
  BY <1>1, <1>2, <1>3 DEF MoveTo

\* At most the mark moves on and flags change.
SameQueue(s, t) ==
  /\ t \in State /\ t.tokens = s.tokens /\ t.tokens_parsed = s.tokens_parsed
  /\ t.simple_keys = s.simple_keys /\ t.indent = s.indent /\ t.indents = s.indents
  /\ t.flow_level = s.flow_level /\ s.mark.line <= t.mark.line
  /\ t.stream_start_produced = s.stream_start_produced

LEMMA KeptQuiet ==
  ASSUME NEW s, NEW t, Sound(s), SameQueue(s, t)
  PROVE  Quiet(s, t) /\ Sound(t)
<1>1. Rising(t) /\ t.stream_start_produced /\ Len(t.simple_keys) = t.flow_level + 1
  BY StillRising DEF Sound, SameQueue
<1>2. Fewer(s.simple_keys, t.simple_keys)
  BY DEF Fewer, SameQueue
<1>3. Quiet(s, t)
  BY <1>1, <1>2, QueueKept DEF SameQueue
<1>4. QED
  BY <1>3 DEF Quiet, Grows, After

LEMMA FlagsKept ==
  ASSUME NEW s \in State
  PROVE  SameQueue(s, AllowKey(s)) /\ SameQueue(s, DisallowKey(s)) /\ SameQueue(s, Failed(s))
<1>1. s.mark.line \in Nat
  BY Fields
<1>2. \A x \in BOOLEAN :
        LET t == [s EXCEPT !.simple_key_allowed = x]
            u == [s EXCEPT !.error = x]
        IN  /\ t.mark = s.mark /\ t.tokens = s.tokens /\ t.tokens_parsed = s.tokens_parsed
            /\ t.simple_keys = s.simple_keys /\ t.indent = s.indent /\ t.indents = s.indents
            /\ t.flow_level = s.flow_level /\ t.stream_start_produced = s.stream_start_produced
            /\ u.mark = s.mark /\ u.tokens = s.tokens /\ u.tokens_parsed = s.tokens_parsed
            /\ u.simple_keys = s.simple_keys /\ u.indent = s.indent /\ u.indents = s.indents
            /\ u.flow_level = s.flow_level /\ u.stream_start_produced = s.stream_start_produced
  BY DEF State, Scanners
<1>3. QED
  BY <1>1, <1>2, StateKept DEF SameQueue, AllowKey, DisallowKey, Failed

LEMMA PastKept ==
  ASSUME NEW s \in State, NEW width \in Nat
  PROVE  SameQueue(s, Past(s, width)) /\ Past(s, width).mark.line = s.mark.line
<1>1. s.mark.line \in Nat /\ s.mark \in Marks
  BY Fields
<1>2. Past(s, width).mark.line = s.mark.line
  BY <1>1 DEF Past, State, Scanners, Marks
<1> DEFINE t == Past(s, width)
<1>3. /\ t.tokens = s.tokens /\ t.tokens_parsed = s.tokens_parsed
      /\ t.simple_keys = s.simple_keys /\ t.indent = s.indent /\ t.indents = s.indents
      /\ t.flow_level = s.flow_level /\ t.stream_start_produced = s.stream_start_produced
  BY DEF Past, State, Scanners
<1>4. t \in State
  BY StateKept
<1> HIDE DEF t
<1>5. s.mark.line <= t.mark.line
  BY <1>1, <1>2 DEF t
<1>6. SameQueue(s, t)
  BY <1>3, <1>4, <1>5 DEF SameQueue
<1>7. QED
  BY <1>2, <1>6 DEF t

LEMMA MoveKept ==
  ASSUME NEW s \in State, NEW at \in Marks, s.mark.line <= at.line
  PROVE  SameQueue(s, MoveTo(s, at)) /\ MoveTo(s, at).mark = at
BY StateKept DEF SameQueue, MoveTo, State, Scanners

\* The indentation once levels are closed.
LEMMA LevelType ==
  ASSUME NEW s \in State, NEW n \in 0 .. Len(s.indents)
  PROVE  Level(s, n) \in Nat \cup {-1}
<1>1. s.indents \in Seq(Indents) /\ s.indent \in Nat \cup {-1} /\ Len(s.indents) \in Nat
  BY Fields
<1>2. CASE n = Len(s.indents)
  BY <1>1, <1>2 DEF Level
<1>3. CASE n # Len(s.indents)
  <2>1. n + 1 \in 1 .. Len(s.indents)
    BY <1>1, <1>3
  <2>2. s.indents[n + 1] \in Indents
    BY <1>1, <2>1
  <2>3. QED
    BY <1>3, <2>2 DEF Level, Indents
<1>4. QED
  BY <1>2, <1>3

\* The two differ in their indentation at most.
SameButIndents(s, t) ==
  /\ t.mark = s.mark /\ t.tokens = s.tokens /\ t.tokens_parsed = s.tokens_parsed
  /\ t.simple_keys = s.simple_keys /\ t.flow_level = s.flow_level
  /\ t.stream_start_produced = s.stream_start_produced
  /\ t.implicit_flow_mapping = s.implicit_flow_mapping

LEMMA ClosedIs ==
  ASSUME NEW s \in State, Rising(s), NEW n \in 0 .. Len(s.indents)
  PROVE  /\ Closed(s, n) \in State /\ Rising(Closed(s, n))
         /\ SameButIndents(s, Closed(s, n)) /\ Closed(s, n).indent = Level(s, n)
<1> DEFINE part == SubSeq(s.indents, 1, n)
           t == [s EXCEPT !.indent = Level(s, n), !.indents = part]
<1>1. Closed(s, n) = t
  BY DEF Closed, State, Scanners
<1>2. s.indents \in Seq(Indents) /\ Len(s.indents) \in Nat
  BY Fields
<1>3. part \in Seq(Indents) /\ Len(part) = n /\ \A i \in 1 .. n : part[i] = s.indents[i]
  BY <1>2, CutInTwo
<1>4. Level(s, n) \in Nat \cup {-1}
  BY LevelType
<1> HIDE DEF part
<1>5. t \in State /\ t.indent = Level(s, n) /\ t.indents = part
  BY <1>3, <1>4 DEF State, Scanners
<1>6. SameButIndents(s, t)
  BY DEF State, Scanners, SameButIndents
<1> HIDE DEF t
<1>7. ASSUME NEW m \in 0 .. n PROVE Level(t, m) = Level(s, m)
  <2>1. CASE m = n
    BY <1>3, <1>5, <2>1 DEF Level
  <2>2. CASE m # n
    <3>1. m + 1 \in 1 .. n /\ m # Len(s.indents) /\ m # Len(part)
      BY <1>2, <1>3, <2>2
    <3>2. QED
      BY <1>3, <1>5, <3>1 DEF Level
  <2>3. QED
    BY <2>1, <2>2
<1>8. Rising(t)
  <2>1. 0 \in 0 .. n /\ \A m \in 1 .. n : m \in 0 .. n /\ m - 1 \in 0 .. n /\ m \in 1 .. Len(s.indents)
    BY <1>2
  <2>2. \A m \in 1 .. n : Level(t, m - 1) = Level(s, m - 1) /\ Level(t, m) = Level(s, m)
    BY <1>7, <2>1
  <2>3. \A m \in 1 .. n : Level(s, m - 1) < Level(s, m)
    BY <2>1 DEF Rising
  <2>4. Level(t, 0) = -1
    BY <1>7, <2>1 DEF Rising
  <2>5. QED
    BY <1>3, <1>5, <2>2, <2>3, <2>4 DEF Rising
<1>9. QED
  BY <1>1, <1>5, <1>6, <1>8

LEMMA OpenedIs ==
  ASSUME NEW s \in State, Rising(s), NEW block \in BOOLEAN, NEW indent \in Nat, s.indent < indent
  PROVE  /\ Opened(s, block, indent) \in State /\ Rising(Opened(s, block, indent))
         /\ SameButIndents(s, Opened(s, block, indent))
<1> DEFINE level == [indent |-> s.indent, needs_block_end |-> block]
           more == Append(s.indents, level)
           t == [s EXCEPT !.indents = more, !.indent = indent]
           n == Len(s.indents)
<1>1. Opened(s, block, indent) = t
  BY DEF Opened, State, Scanners
<1>2. s.indents \in Seq(Indents) /\ n \in Nat /\ s.indent \in Nat \cup {-1}
  BY Fields
<1>3. level \in Indents /\ level.indent = s.indent
  BY <1>2 DEF Indents
<1> HIDE DEF level
<1>4. /\ more \in Seq(Indents) /\ Len(more) = n + 1 /\ more[n + 1] = level
      /\ \A i \in 1 .. n : more[i] = s.indents[i]
  BY <1>2, <1>3, AppendProperties
<1> HIDE DEF more
<1>5. t \in State /\ t.indent = indent /\ t.indents = more
  BY <1>4 DEF State, Scanners
<1>6. SameButIndents(s, t)
  BY DEF State, Scanners, SameButIndents
<1> HIDE DEF t, n
<1>7. ASSUME NEW m \in 0 .. n PROVE Level(t, m) = Level(s, m)
  <2>0. m # Len(more)
    BY <1>2, <1>4
  <2>1. CASE m = n
    BY <1>3, <1>4, <1>5, <2>0, <2>1 DEF Level, n
  <2>2. CASE m # n
    <3>1. m + 1 \in 1 .. n
      BY <1>2, <2>2
    <3>2. QED
      BY <1>4, <1>5, <2>0, <2>2, <3>1 DEF Level, n
  <2>3. QED
    BY <2>1, <2>2
<1>8. Rising(t)
  <2>1. 0 \in 0 .. n /\ n \in 0 .. n /\ \A m \in 1 .. n : m \in 0 .. n /\ m - 1 \in 0 .. n
    BY <1>2
  <2>2. Level(t, 0) = -1
    BY <1>7, <2>1 DEF Rising
  <2>3. ASSUME NEW m \in 1 .. n + 1 PROVE Level(t, m - 1) < Level(t, m)
    <3>1. CASE m = n + 1
      <4>1. m - 1 = n /\ Level(t, m - 1) = Level(s, n)
        BY <1>2, <1>7, <2>1, <3>1
      <4>2. Level(s, n) = s.indent
        BY DEF Level, n
      <4>3. Level(t, m) = indent
        BY <1>4, <1>5, <3>1 DEF Level
      <4>4. QED
        BY <4>1, <4>2, <4>3
    <3>2. CASE m # n + 1
      <4>1. m \in 1 .. n
        BY <1>2, <3>2
      <4>2. Level(t, m - 1) = Level(s, m - 1) /\ Level(t, m) = Level(s, m)
        BY <1>7, <2>1, <4>1
      <4>3. Level(s, m - 1) < Level(s, m)
        BY <4>1 DEF Rising, n
      <4>4. QED
        BY <4>2, <4>3
    <3>3. QED
      BY <3>1, <3>2
  <2>4. QED
    BY <1>4, <1>5, <2>2, <2>3 DEF Rising
<1>9. QED
  BY <1>1, <1>5, <1>6, <1>8

LEMMA IndentsQuiet ==
  ASSUME NEW s, NEW t \in State, Sound(s), Rising(t), SameButIndents(s, t)
  PROVE  Quiet(s, t) /\ Sound(t)
<1>0. s.mark.line \in Nat
  BY Fields DEF Sound
<1>1. t.stream_start_produced /\ Len(t.simple_keys) = t.flow_level + 1 /\ s.mark.line <= t.mark.line
  BY <1>0 DEF Sound, SameButIndents
<1>2. Fewer(s.simple_keys, t.simple_keys)
  BY DEF Fewer, SameButIndents
<1>3. Quiet(s, t)
  BY <1>1, <1>2, QueueKept DEF SameButIndents
<1>4. QED
  BY <1>3 DEF Quiet, Grows, After

LEMMA RollOneColQuiet ==
  ASSUME NEW s, Sound(s)
  PROVE  /\ Quiet(s, RollOneCol(s)) /\ Sound(RollOneCol(s))
         /\ SameButIndents(s, RollOneCol(s))
<1>0. s \in State /\ Rising(s) /\ s.indent \in Nat \cup {-1}
  BY Fields DEF Sound
<1>1. CASE s.flow_level = 0 /\ InnerIsBlock(s)
  <2>1. s.indent + 1 \in Nat /\ s.indent < s.indent + 1
    BY <1>0
  <2>2. RollOneCol(s) = Opened(s, FALSE, s.indent + 1)
    BY <1>1 DEF RollOneCol
  <2>3. QED
    BY <1>0, <2>1, <2>2, OpenedIs, IndentsQuiet
<1>2. CASE ~(s.flow_level = 0 /\ InnerIsBlock(s))
  <2>1. RollOneCol(s) = s
    BY <1>2 DEF RollOneCol
  <2>2. SameButIndents(s, s)
    BY DEF SameButIndents
  <2>3. QED
    BY <1>0, <2>1, <2>2, IndentsQuiet
<1>3. QED
  BY <1>1, <1>2

LEMMA UnrollNonBlockQuiet ==
  ASSUME NEW s, Sound(s)
  PROVE  /\ Quiet(s, UnrollNonBlock(s)) /\ Sound(UnrollNonBlock(s))
         /\ SameButIndents(s, UnrollNonBlock(s))
<1>0. s \in State /\ Rising(s) /\ s.indents \in Seq(Indents)
  BY Fields DEF Sound
<1>1. CASE InnerIsNoBlock(s)
  <2>1. s.indents # <<>> /\ Len(s.indents) \in Nat /\ Len(s.indents) # 0
    BY <1>0, <1>1, EmptySeq DEF InnerIsNoBlock
  <2>2. Len(s.indents) - 1 \in 0 .. Len(s.indents)
    BY <2>1
  <2>3. UnrollNonBlock(s) = Closed(s, Len(s.indents) - 1)
    BY <1>1 DEF UnrollNonBlock
  <2>4. QED
    BY <1>0, <2>2, <2>3, ClosedIs, IndentsQuiet
<1>2. CASE ~InnerIsNoBlock(s)
  <2>1. UnrollNonBlock(s) = s
    BY <1>2 DEF UnrollNonBlock
  <2>2. SameButIndents(s, s)
    BY DEF SameButIndents
  <2>3. QED
    BY <1>0, <2>1, <2>2, IndentsQuiet
<1>3. QED
  BY <1>1, <1>2

\* insert_token: before the place b nothing changes, behind it everything moves by one.
LEMMA InsertedAre ==
  ASSUME NEW ts \in Seq(Tokens), NEW tok \in Tokens, NEW b \in 0 .. Len(ts)
  PROVE  /\ InsertAt(ts, b + 1, tok) \in Seq(Tokens)
         /\ Len(InsertAt(ts, b + 1, tok)) = Len(ts) + 1
         /\ \A i \in 1 .. b : InsertAt(ts, b + 1, tok)[i] = ts[i]
         /\ InsertAt(ts, b + 1, tok)[b + 1] = tok
         /\ \A i \in b + 2 .. Len(ts) + 1 : InsertAt(ts, b + 1, tok)[i] = ts[i - 1]
<1> DEFINE n == Len(ts)
           head == SubSeq(ts, 1, b)
           tail == SubSeq(ts, b + 1, n)
           front == head \o <<tok>>
           us == front \o tail
<1>1. n \in Nat /\ b \in Nat /\ b <= n
  OBVIOUS
<1>2. /\ head \in Seq(Tokens) /\ tail \in Seq(Tokens)
      /\ Len(head) = b /\ (\A i \in 1 .. b : head[i] = ts[i])
      /\ ts = head \o tail
  BY CutInTwo
<1>3. InsertAt(ts, b + 1, tok) = us
  <2>1. (b + 1) - 1 = b
    BY <1>1
  <2>2. QED
    BY <2>1 DEF InsertAt
<1> HIDE DEF head, tail, n
<1>4. <<tok>> \in Seq(Tokens) /\ Len(<<tok>>) = 1 /\ <<tok>>[1] = tok
  OBVIOUS
<1>5. /\ ts = head \o tail /\ Len(head \o tail) = Len(head) + Len(tail)
      /\ \A i \in 1 .. Len(head) + Len(tail) :
           (head \o tail)[i] = IF i <= Len(head) THEN head[i] ELSE tail[i - Len(head)]
  BY <1>2, ConcatProperties
<1>6. n = b + Len(tail) /\ Len(tail) \in Nat
      /\ \A i \in 1 .. n : ts[i] = IF i <= b THEN head[i] ELSE tail[i - b]
  BY <1>2, <1>5 DEF n
<1>7. /\ front \in Seq(Tokens) /\ Len(front) = b + 1
      /\ \A i \in 1 .. b + 1 : front[i] = IF i <= b THEN head[i] ELSE <<tok>>[i - b]
  BY <1>2, <1>4, ConcatProperties
<1> HIDE DEF front
<1>8. /\ us \in Seq(Tokens) /\ Len(us) = (b + 1) + Len(tail)
      /\ \A i \in 1 .. (b + 1) + Len(tail) :
           us[i] = IF i <= b + 1 THEN front[i] ELSE tail[i - (b + 1)]
  <2>1. /\ us \in Seq(Tokens) /\ Len(us) = Len(front) + Len(tail)
        /\ \A i \in 1 .. Len(front) + Len(tail) :
             us[i] = IF i <= Len(front) THEN front[i] ELSE tail[i - Len(front)]
    BY <1>2, <1>7, ConcatProperties
  <2> HIDE DEF us
  <2>2. QED
    BY <1>7, <2>1
<1> HIDE DEF us
<1>9. Len(us) = n + 1
  BY <1>1, <1>6, <1>8
<1>10. ASSUME NEW i \in 1 .. b PROVE us[i] = ts[i]
  <2>1. i \in 1 .. b + 1 /\ i \in 1 .. (b + 1) + Len(tail) /\ i <= b + 1 /\ i <= b
    BY <1>1, <1>6
  <2>2. QED
    BY <1>2, <1>7, <1>8, <2>1
<1>11. us[b + 1] = tok
  <2>1. b + 1 \in 1 .. b + 1 /\ b + 1 \in 1 .. (b + 1) + Len(tail) /\ ~(b + 1 <= b)
        /\ (b + 1) - b = 1 /\ b + 1 <= b + 1
    BY <1>1, <1>6
  <2>2. QED
    BY <1>4, <1>7, <1>8, <2>1
<1>12. ASSUME NEW i \in b + 2 .. n + 1 PROVE us[i] = ts[i - 1]
  <2>1. /\ i \in 1 .. (b + 1) + Len(tail) /\ ~(i <= b + 1) /\ i - 1 \in 1 .. n
        /\ ~(i - 1 <= b) /\ i - (b + 1) = (i - 1) - b
    BY <1>1, <1>6
  <2>2. us[i] = tail[i - (b + 1)]
    BY <1>8, <2>1
  <2>3. ts[i - 1] = tail[(i - 1) - b]
    BY <1>6, <2>1
  <2>4. QED
    BY <2>1, <2>2, <2>3
<1>13. QED
  BY <1>3, <1>8, <1>9, <1>10, <1>11, <1>12 DEF n

LEMMA OrderedInserted ==
  ASSUME NEW ts \in Seq(Tokens), NEW us \in Seq(Tokens), NEW tok \in Tokens,
         NEW b \in 0 .. Len(ts), NEW line \in Nat,
         Len(us) = Len(ts) + 1, us[b + 1] = tok,
         \A i \in 1 .. b : us[i] = ts[i],
         \A i \in b + 2 .. Len(ts) + 1 : us[i] = ts[i - 1],
         tok.kind # "Comment", tok.line <= line,
         Ordered(ts, line), Behind(ts, b, tok.line)
  PROVE  Ordered(us, line)
<1>0. Len(ts) \in Nat /\ b \in Nat /\ b <= Len(ts) /\ Len(us) \in Nat
  BY TokenFields
<1> SUFFICES ASSUME NEW j \in 1 .. Len(us)
             PROVE  /\ us[j].line <= line
                    /\ us[j].kind = "Comment" => \A i \in 1 .. j - 1 : us[i].line <= us[j].line
  BY DEF Ordered
<1>1. CASE j \in 1 .. b
  <2>1. j \in 1 .. Len(ts) /\ \A i \in 1 .. j - 1 : i \in 1 .. b
    BY <1>0, <1>1
  <2>2. us[j] = ts[j] /\ \A i \in 1 .. j - 1 : us[i] = ts[i]
    BY <1>1, <2>1
  <2>3. QED
    BY <2>1, <2>2 DEF Ordered
<1>2. CASE j = b + 1
  BY <1>2
<1>3. CASE j \in b + 2 .. Len(ts) + 1
  <2> DEFINE k == j - 1
  <2>1. k \in 1 .. Len(ts) /\ us[j] = ts[k] /\ k \in b + 1 .. Len(ts)
    BY <1>0, <1>3
  <2>2. ts[k].line <= line /\ (ts[k].kind = "Comment" => \A i \in 1 .. k - 1 : ts[i].line <= ts[k].line)
    BY <2>1 DEF Ordered
  <2>3. ASSUME ts[k].kind = "Comment", NEW i \in 1 .. j - 1
        PROVE  us[i].line <= ts[k].line
    <3>1. CASE i \in 1 .. b
      <4>1. i \in 1 .. k - 1
        BY <1>0, <1>3, <3>1
      <4>2. QED
        BY <2>2, <2>3, <3>1, <4>1
    <3>2. CASE i = b + 1
      BY <2>1, <2>3, <3>2 DEF Behind
    <3>3. CASE i \in b + 2 .. Len(ts) + 1
      <4>1. i - 1 \in 1 .. k - 1
        BY <1>0, <1>3, <3>3
      <4>2. QED
        BY <2>2, <2>3, <3>3, <4>1
    <3>4. i \in 1 .. b \/ i = b + 1 \/ i \in b + 2 .. Len(ts) + 1
      BY <1>0, <1>3
    <3>5. QED
      BY <3>1, <3>2, <3>3, <3>4
  <2> HIDE DEF k
  <2>4. QED
    BY <2>1, <2>2, <2>3
<1>4. j \in 1 .. b \/ j = b + 1 \/ j \in b + 2 .. Len(ts) + 1
  BY <1>0
<1>5. QED
  BY <1>1, <1>2, <1>3, <1>4

LEMMA InsertAfter ==
  ASSUME NEW s, Sound(s), NEW b \in 0 .. Len(s.tokens), NEW at \in Marks, NEW kind \in Content,
         NEW number, number = s.tokens_parsed + b,
         at.line <= s.mark.line, Behind(s.tokens, b, at.line)
  PROVE  /\ After(s, Insert(s, number, kind, at), b)
         /\ SameButTokens(s, Insert(s, number, kind, at))
         /\ Behind(Insert(s, number, kind, at).tokens, b, at.line)
<1> DEFINE ts == s.tokens
           tok == Token(kind, at)
           us == InsertAt(ts, b + 1, tok)
           t == [s EXCEPT !.tokens = us]
<1>0. s \in State
  BY DEF Sound
<1>1. ts \in Seq(Tokens) /\ s.tokens_parsed \in Nat /\ s.mark.line \in Nat /\ Len(ts) \in Nat
      /\ b \in Nat /\ s.simple_keys \in Seq(SimpleKeys) /\ at.line \in Nat
  BY <1>0, Fields DEF Marks
<1>2. Insert(s, number, kind, at) = t
  <2>1. number - s.tokens_parsed + 1 = b + 1
    BY <1>1
  <2>2. QED
    BY <2>1 DEF Insert
<1>3. tok \in Tokens /\ tok.kind # "Comment" /\ tok.line = at.line
  BY TokenType DEF Content
<1> HIDE DEF tok
<1>4. /\ us \in Seq(Tokens) /\ Len(us) = Len(ts) + 1
      /\ \A i \in 1 .. b : us[i] = ts[i]
      /\ us[b + 1] = tok
      /\ \A i \in b + 2 .. Len(ts) + 1 : us[i] = ts[i - 1]
  BY <1>1, <1>3, InsertedAre
<1> HIDE DEF us
<1>5. Ordered(us, s.mark.line)
  <2>1. Ordered(ts, s.mark.line)
    BY DEF Sound
  <2>2. Behind(ts, b, tok.line) /\ tok.line <= s.mark.line /\ b \in 0 .. Len(ts)
    BY <1>3
  <2> HIDE DEF ts
  <2>3. QED
    BY <1>1, <1>3, <1>4, <2>1, <2>2, OrderedInserted
<1>6. t \in State /\ t.tokens = us /\ SameButTokens(s, t)
  BY <1>0, <1>4, WithTokens DEF State
<1> HIDE DEF t
<1>7. Sound(t)
  BY <1>5, <1>6, Indented DEF SameButTokens
<1>8. ASSUME NEW j \in b + 1 .. Len(us), us[j].kind = "Comment"
      PROVE  /\ at.line <= us[j].line
             /\ \E i \in b + 1 .. Len(ts) : ts[i] = us[j]
  <2>1. j \in b + 2 .. Len(ts) + 1
    <3>1. j # b + 1
      BY <1>3, <1>4, <1>8
    <3>2. QED
      BY <1>1, <1>4, <3>1
  <2>2. us[j] = ts[j - 1] /\ j - 1 \in b + 1 .. Len(ts)
    BY <1>1, <1>4, <2>1
  <2>3. QED
    BY <1>8, <2>2 DEF Behind
<1>9. Behind(us, b, at.line)
  BY <1>8 DEF Behind
<1>10. Fewer(s.simple_keys, t.simple_keys)
  BY <1>6 DEF SameButTokens, Fewer
<1>11. After(s, t, b)
  <2>1. Len(ts) <= Len(us) /\ s.mark.line <= s.mark.line
    BY <1>1, <1>4
  <2>2. Agree(ts, us, b)
    BY <1>4 DEF Agree
  <2>3. QED
    BY <1>6, <1>7, <1>8, <1>10, <2>1, <2>2 DEF After, SameButTokens
<1>12. QED
  BY <1>2, <1>6, <1>9, <1>11

LEMMA AfterIndents ==
  ASSUME NEW s, NEW t, NEW u, NEW b \in Nat, Sound(s), SameButIndents(s, t), After(t, u, b)
  PROVE  After(s, u, b)
BY DEF SameButIndents, After

LEMMA AfterNothing ==
  ASSUME NEW s, NEW t, Sound(s), Sound(t), SameButIndents(s, t), NEW b \in Nat
  PROVE  After(s, t, b)
<1>1. s.mark.line <= s.mark.line /\ Len(s.tokens) <= Len(s.tokens)
  <2>1. s \in State
    BY DEF Sound
  <2>2. s.mark.line \in Nat /\ s.tokens \in Seq(Tokens)
    BY <2>1, Fields
  <2>3. QED
    BY <2>2
<1>2. Fewer(s.simple_keys, t.simple_keys) /\ Agree(s.tokens, t.tokens, b)
  BY DEF Fewer, Agree, SameButIndents
<1>3. QED
  BY <1>1, <1>2 DEF After, SameButIndents

\* roll_indent opens a collection before the place b.
LEMMA RollIndentAfter ==
  ASSUME NEW s, Sound(s), NEW b \in 0 .. Len(s.tokens), NEW at \in Marks, NEW kind \in Content,
         NEW number, number = s.tokens_parsed + b, NEW col \in Nat,
         s.flow_level = 0 => at.line <= s.mark.line /\ Behind(s.tokens, b, at.line)
  PROVE  /\ After(s, RollIndent(s, col, number, kind, at), b)
         /\ RollIndent(s, col, number, kind, at).simple_keys = s.simple_keys
         /\ RollIndent(s, col, number, kind, at).mark = s.mark
<1> DEFINE r == IF s.indent <= col THEN UnrollNonBlock(s) ELSE s
           result == RollIndent(s, col, number, kind, at)
<1>0. s \in State /\ b \in Nat /\ s.flow_level \in Nat
  BY Fields DEF Sound
<1>1. Sound(r) /\ SameButIndents(s, r) /\ SameButIndents(s, s)
  BY UnrollNonBlockQuiet DEF SameButIndents
<1>2. result = IF s.flow_level > 0 \/ r.indent >= col
               THEN IF s.flow_level > 0 THEN s ELSE r
               ELSE Insert(Opened(r, TRUE, col), number, kind, at)
  BY DEF RollIndent
<1> HIDE DEF r, result
<1>3. CASE s.flow_level > 0
  <2>1. result = s
    BY <1>2, <1>3
  <2>2. QED
    BY <1>0, <1>1, <2>1, AfterNothing DEF result
<1>4. CASE ~(s.flow_level > 0) /\ r.indent >= col
  <2>1. result = r
    BY <1>2, <1>4
  <2>2. QED
    BY <1>0, <1>1, <2>1, AfterNothing DEF SameButIndents, result
<1>5. CASE ~(s.flow_level > 0) /\ ~(r.indent >= col)
  <2> DEFINE o == Opened(r, TRUE, col)
  <2>1. r \in State /\ Rising(r) /\ r.indent \in Nat \cup {-1}
    BY <1>1, Fields DEF Sound
  <2>2. r.indent < col
    BY <1>5, <2>1
  <2>3. o \in State /\ Rising(o) /\ SameButIndents(r, o)
    BY <2>1, <2>2, OpenedIs
  <2> HIDE DEF o
  <2>4. SameButIndents(s, o)
    BY <1>1, <2>3 DEF SameButIndents
  <2>5. Sound(o)
    BY <2>3, <2>4, IndentsQuiet
  <2>6. /\ b \in 0 .. Len(o.tokens) /\ number = o.tokens_parsed + b
        /\ at.line <= o.mark.line /\ Behind(o.tokens, b, at.line)
    <3>1. s.flow_level = 0
      BY <1>0, <1>5
    <3>2. QED
      BY <2>4, <3>1 DEF SameButIndents
  <2>7. After(o, Insert(o, number, kind, at), b) /\ SameButTokens(o, Insert(o, number, kind, at))
    BY <2>5, <2>6, InsertAfter
  <2>8. result = Insert(o, number, kind, at)
    BY <1>2, <1>5 DEF o
  <2>9. After(s, result, b)
    BY <1>0, <2>4, <2>7, <2>8, AfterIndents
  <2>10. result.simple_keys = s.simple_keys /\ result.mark = s.mark
    BY <2>4, <2>7, <2>8 DEF SameButIndents, SameButTokens
  <2>11. QED
    BY <2>9, <2>10 DEF result
<1>6. QED
  BY <1>3, <1>4, <1>5

\* The same at the end of the queue.
LEMMA RollIndentGrows ==
  ASSUME NEW s, Steady(s), NEW at \in Marks, NEW kind \in Content, NEW col \in Nat,
         at.line <= s.mark.line
  PROVE  /\ Steady(RollIndent(s, col, NextNumber(s), kind, at))
         /\ RollIndent(s, col, NextNumber(s), kind, at).simple_keys = s.simple_keys
         /\ RollIndent(s, col, NextNumber(s), kind, at).mark = s.mark
<1>0. Sound(s) /\ s \in State
  BY DEF Steady, Sound
<1>1. s.tokens \in Seq(Tokens) /\ s.tokens_parsed \in Nat
  BY <1>0, Fields
<1>2. Len(s.tokens) \in 0 .. Len(s.tokens) /\ NextNumber(s) = s.tokens_parsed + Len(s.tokens)
  BY <1>1 DEF NextNumber
<1>3. Behind(s.tokens, Len(s.tokens), at.line)
  <2>1. \A j \in Len(s.tokens) + 1 .. Len(s.tokens) : FALSE
    BY <1>1
  <2>2. QED
    BY <2>1 DEF Behind
<1> DEFINE n == Len(s.tokens)
           number == NextNumber(s)
<1>4. n \in 0 .. Len(s.tokens) /\ number = s.tokens_parsed + n /\ Behind(s.tokens, n, at.line)
  BY <1>2, <1>3
<1> HIDE DEF n, number
<1>5. /\ After(s, RollIndent(s, col, number, kind, at), n)
      /\ RollIndent(s, col, number, kind, at).simple_keys = s.simple_keys
      /\ RollIndent(s, col, number, kind, at).mark = s.mark
  BY <1>0, <1>4, RollIndentAfter
<1>6. QED
  BY <1>5, SteadyGrows DEF Grows, n, number

\* A set of numbers has a greatest one, if it has a bound.
LEMMA MaxIs ==
  ASSUME NEW n \in Nat, NEW S, S \subseteq 0 .. n, S # {}
  PROVE  Max(S) \in S /\ \A k \in S : k <= Max(S)
<1> DEFINE D == {m \in Nat : \A Z : Z \subseteq 0 .. m /\ Z # {} => \E x \in Z : \A y \in Z : x >= y}
<1>1. 0 \in D
  <2> SUFFICES ASSUME NEW Z, Z \subseteq 0 .. 0, Z # {} PROVE \E x \in Z : \A y \in Z : x >= y
    OBVIOUS
  <2>1. PICK x \in Z : TRUE
    OBVIOUS
  <2>2. \A y \in Z : x >= y
    OBVIOUS
  <2>3. QED
    BY <2>2
<1>2. ASSUME NEW m \in Nat, m \in D PROVE m + 1 \in D
  <2> SUFFICES ASSUME NEW Z, Z \subseteq 0 .. m + 1, Z # {}
               PROVE  \E x \in Z : \A y \in Z : x >= y
    OBVIOUS
  <2>1. CASE m + 1 \in Z
    <3>1. \A y \in Z : m + 1 >= y
      OBVIOUS
    <3>2. QED
      BY <2>1, <3>1
  <2>2. CASE m + 1 \notin Z
    <3>1. \A y \in Z : y \in 0 .. m
      <4>1. \A y \in Z : y \in 0 .. m + 1 /\ y # m + 1
        BY <2>2
      <4>2. QED
        BY <4>1
    <3>2. Z \subseteq 0 .. m
      BY <3>1
    <3>3. QED
      BY <1>2, <3>2
  <2>3. QED
    BY <2>1, <2>2
<1> HIDE DEF D
<1>3. n \in D
  BY <1>1, <1>2, InductionOverSet
<1>4. \E x \in S : \A y \in S : x >= y
  BY <1>3 DEF D
<1>5. Max(S) \in S /\ \A y \in S : Max(S) >= y
  BY <1>4 DEF Max
<1>6. \A y \in S : y \in Nat
  OBVIOUS
<1>7. QED
  BY <1>5, <1>6

\* Tokens that are no comments join the queue.
LEMMA ContentGrows ==
  ASSUME NEW s, Steady(s), NEW new \in Seq(Tokens), NEW t, t = [s EXCEPT !.tokens = s.tokens \o new],
         \A i \in 1 .. Len(new) : new[i].kind # "Comment" /\ new[i].line <= s.mark.line
  PROVE  Steady(t) /\ SameButTokens(s, t)
<1> DEFINE ts == s.tokens
           us == ts \o new
           line == s.mark.line
<1>0. s \in State /\ Sound(s)
  BY DEF Steady, Sound
<1>1. ts \in Seq(Tokens) /\ line \in Nat /\ Len(ts) \in Nat /\ Len(new) \in Nat
      /\ s.simple_keys \in Seq(SimpleKeys)
  BY <1>0, Fields
<1>2. /\ us \in Seq(Tokens) /\ Len(us) = Len(ts) + Len(new)
      /\ \A i \in 1 .. Len(ts) + Len(new) : us[i] = IF i <= Len(ts) THEN ts[i] ELSE new[i - Len(ts)]
  BY <1>1, ConcatProperties
<1> HIDE DEF us
<1>3. \A i \in 1 .. Len(ts) : us[i] = ts[i]
  <2>1. \A i \in 1 .. Len(ts) : i \in 1 .. Len(ts) + Len(new) /\ i <= Len(ts)
    BY <1>1
  <2>2. QED
    BY <1>2, <2>1
<1>4. \A j \in Len(ts) + 1 .. Len(us) : us[j].kind # "Comment" /\ us[j].line <= line
  <2>1. \A j \in Len(ts) + 1 .. Len(ts) + Len(new) :
          j \in 1 .. Len(ts) + Len(new) /\ ~(j <= Len(ts)) /\ j - Len(ts) \in 1 .. Len(new)
    BY <1>1
  <2> HIDE DEF ts
  <2>2. ASSUME NEW j \in Len(ts) + 1 .. Len(us)
        PROVE us[j].kind # "Comment" /\ us[j].line <= line
    <3>1. us[j] = new[j - Len(ts)] /\ j - Len(ts) \in 1 .. Len(new)
      BY <1>2, <2>1
    <3>2. QED
      BY <3>1
  <2>3. QED
    BY <2>2
<1>5. Ordered(us, line)
  <2> SUFFICES ASSUME NEW j \in 1 .. Len(us)
               PROVE  /\ us[j].line <= line
                      /\ us[j].kind = "Comment" => \A i \in 1 .. j - 1 : us[i].line <= us[j].line
    BY DEF Ordered
  <2>1. CASE j \in 1 .. Len(ts)
    <3>1. \A i \in 1 .. j - 1 : i \in 1 .. Len(ts)
      BY <1>1, <2>1
    <3>2. Ordered(ts, line)
      BY <1>0 DEF Sound
    <3> HIDE DEF ts, line
    <3>3. QED
      BY <1>3, <2>1, <3>1, <3>2 DEF Ordered
  <2>2. CASE j \in Len(ts) + 1 .. Len(us)
    BY <1>4, <2>2
  <2>3. j \in 1 .. Len(ts) \/ j \in Len(ts) + 1 .. Len(us)
    BY <1>1, <1>2
  <2>4. QED
    BY <2>1, <2>2, <2>3
<1>6. t = [s EXCEPT !.tokens = us]
  BY DEF us
<1>7. t \in State /\ t.tokens = us /\ SameButTokens(s, t)
  <2>1. s \in Scanners(Seq(Tokens))
    BY <1>0 DEF State
  <2> DEFINE u == [s EXCEPT !.tokens = us]
  <2>2. u \in Scanners(Seq(Tokens)) /\ u.tokens = us /\ SameButTokens(s, u)
    BY <1>2, <2>1, WithTokens
  <2>3. t = u
    BY <1>6
  <2> HIDE DEF u
  <2>4. QED
    BY <2>2, <2>3 DEF State
<1>8. Sound(t)
  BY <1>0, <1>5, <1>7, Indented DEF SameButTokens
<1>9. Fewer(s.simple_keys, t.simple_keys)
  BY <1>7 DEF SameButTokens, Fewer
<1>10. Grows(s, t)
  <2>1. Len(ts) <= Len(us) /\ line <= line
    BY <1>1, <1>2
  <2>2. Agree(ts, us, Len(ts))
    BY <1>3 DEF Agree
  <2>3. QED
    BY <1>4, <1>7, <1>8, <1>9, <2>1, <2>2 DEF Grows, After, SameButTokens
<1>11. QED
  BY <1>7, <1>10, SteadyGrows

LEMMA KeptIs ==
  ASSUME NEW s \in State, Rising(s), NEW col \in Nat \cup {-1}
  PROVE  Kept(s, col) \in 0 .. Len(s.indents)
<1> DEFINE S == {n \in 0 .. Len(s.indents) : Level(s, n) <= col}
<1>1. Len(s.indents) \in Nat
  BY Fields
<1>2. 0 \in 0 .. Len(s.indents) /\ Level(s, 0) <= col
  BY <1>1 DEF Rising
<1>3. S \subseteq 0 .. Len(s.indents) /\ S # {}
  BY <1>2
<1>4. Kept(s, col) = Max(S)
  BY DEF Kept
<1> HIDE DEF S
<1>5. QED
  BY <1>1, <1>3, <1>4, MaxIs

LEMMA SteadyQuiet ==
  ASSUME NEW s, NEW t, Steady(s), Quiet(s, t)
  PROVE  Steady(t)
BY SteadyGrows DEF Quiet

LEMMA UnrollIndentSteady ==
  ASSUME NEW s, Steady(s), NEW col \in Nat \cup {-1}
  PROVE  /\ Steady(UnrollIndent(s, col))
         /\ UnrollIndent(s, col).mark = s.mark
         /\ UnrollIndent(s, col).simple_keys = s.simple_keys
         /\ UnrollIndent(s, col).flow_level = s.flow_level
<1>0. s \in State /\ Sound(s) /\ Rising(s)
  BY DEF Steady, Sound
<1>1. CASE s.flow_level > 0
  BY <1>1 DEF UnrollIndent
<1>2. CASE ~(s.flow_level > 0)
  <2> DEFINE n == Kept(s, col)
             c == Closed(s, n)
             inner == {i \in n + 1 .. Len(s.indents) : s.indents[i].needs_block_end}
             ends == Cardinality(inner)
             new == [i \in 1 .. ends |-> Token("BlockEnd", s.mark)]
             t == UnrollIndent(s, col)
  <2>1. n \in 0 .. Len(s.indents)
    BY <1>0, KeptIs
  <2>2. c \in State /\ Rising(c) /\ SameButIndents(s, c)
    BY <1>0, <2>1, ClosedIs
  <2>3. ends \in Nat
    <3>1. n + 1 \in Int /\ Len(s.indents) \in Int
      BY <1>0, <2>1, Fields
    <3>2. IsFiniteSet(n + 1 .. Len(s.indents))
      BY <3>1, FS_Interval
    <3>3. inner \subseteq n + 1 .. Len(s.indents)
      OBVIOUS
    <3>4. IsFiniteSet(inner)
      BY <3>2, <3>3, FS_Subset
    <3>5. QED
      BY <3>4, FS_CardinalityType
  <2>4. t = [c EXCEPT !.tokens = c.tokens \o new]
    BY <1>2, <2>2 DEF UnrollIndent, State, Scanners
  <2> HIDE DEF n, c, ends
  <2>5. Quiet(s, c)
    BY <1>0, <2>2, IndentsQuiet
  <2>6. Steady(c)
    BY <2>5, SteadyQuiet
  <2>7. s.mark \in Marks /\ c.mark = s.mark
    BY <1>0, <2>2, Fields DEF SameButIndents
  <2>8. "BlockEnd" \in Content
    BY DEF Content, Kinds, Closers
  <2> DEFINE tok == Token("BlockEnd", s.mark)
  <2>9. tok \in Tokens /\ tok.kind # "Comment" /\ tok.line = s.mark.line
    BY <2>7, <2>8, TokenType
  <2> HIDE DEF tok
  <2>10. new \in Seq(Tokens) /\ Len(new) = ends /\ \A i \in 1 .. ends : new[i] = tok
    BY <2>3, <2>9 DEF tok
  <2>11. \A i \in 1 .. Len(new) : new[i].kind # "Comment" /\ new[i].line <= c.mark.line
    <3>1. s.mark.line \in Nat
      BY <1>0, Fields
    <3> HIDE DEF new
    <3>2. QED
      BY <2>7, <2>9, <2>10, <3>1
  <2> HIDE DEF new, t
  <2>12. Steady(t) /\ SameButTokens(c, t)
    BY <2>4, <2>6, <2>10, <2>11, ContentGrows
  <2>13. QED
    BY <2>2, <2>12 DEF SameButTokens, SameButIndents, t
<1>3. QED
  BY <1>1, <1>2

(***************************************************************************)
(* The simple keys.                                                        *)
(***************************************************************************)
\* The two differ in their simple keys at most.
SameButKeys(s, t) ==
  /\ t.mark = s.mark /\ t.tokens = s.tokens /\ t.tokens_parsed = s.tokens_parsed
  /\ t.indent = s.indent /\ t.indents = s.indents /\ t.flow_level = s.flow_level
  /\ t.stream_start_produced = s.stream_start_produced
  /\ t.implicit_flow_mapping = s.implicit_flow_mapping

LEMMA WithKeys ==
  ASSUME NEW s \in State, NEW keys \in Seq(SimpleKeys)
  PROVE  /\ [s EXCEPT !.simple_keys = keys] \in State
         /\ [s EXCEPT !.simple_keys = keys].simple_keys = keys
         /\ SameButKeys(s, [s EXCEPT !.simple_keys = keys])
BY DEF State, Scanners, SameButKeys

LEMMA KeysQuiet ==
  ASSUME NEW s, NEW t \in State, Sound(s), SameButKeys(s, t),
         Fewer(s.simple_keys, t.simple_keys), Len(t.simple_keys) = Len(s.simple_keys)
  PROVE  Quiet(s, t) /\ Sound(t)
<1>1. s.mark.line \in Nat /\ Rising(t)
  BY Fields, StillRising DEF Sound, SameButKeys
<1>2. s.mark.line <= t.mark.line /\ t.stream_start_produced /\ Len(t.simple_keys) = t.flow_level + 1
  BY <1>1 DEF Sound, SameButKeys
<1>3. Quiet(s, t)
  BY <1>1, <1>2, QueueKept DEF SameButKeys
<1>4. QED
  BY <1>3 DEF Quiet, Grows, After

\* Without the keys in the set gone; a required one among them is an error.
LEMMA ForgetQuiet ==
  ASSUME NEW s, Sound(s), NEW gone
  PROVE  LET t == Forget(s, gone)
         IN  /\ Quiet(s, t) /\ Sound(t)
             /\ t.mark = s.mark /\ t.flow_level = s.flow_level /\ t.tokens = s.tokens
             /\ Len(t.simple_keys) = Len(s.simple_keys)
             /\ t.implicit_flow_mapping = s.implicit_flow_mapping
             /\ \/ t.error
                \/ \A i \in 1 .. Len(s.simple_keys) :
                     IF i \in gone THEN ~t.simple_keys[i].possible
                                   ELSE t.simple_keys[i] = s.simple_keys[i]
<1> DEFINE keys == s.simple_keys
           l == Len(keys)
           ks == [i \in DOMAIN keys |-> IF i \in gone THEN [keys[i] EXCEPT !.possible = FALSE]
                                                     ELSE keys[i]]
           t == [s EXCEPT !.simple_keys = ks]
<1>0. s \in State
  BY DEF Sound
<1>1. CASE \E i \in gone : s.simple_keys[i].possible /\ s.simple_keys[i].required
  <2>1. Forget(s, gone) = Failed(s)
    BY <1>1 DEF Forget
  <2>2. Quiet(s, Failed(s)) /\ Sound(Failed(s))
    BY <1>0, FlagsKept, KeptQuiet
  <2>3. LET u == Failed(s)
        IN  /\ u.mark = s.mark /\ u.flow_level = s.flow_level /\ u.tokens = s.tokens
            /\ u.simple_keys = s.simple_keys /\ u.error
            /\ u.implicit_flow_mapping = s.implicit_flow_mapping
    BY <1>0 DEF Failed, State, Scanners
  <2>4. QED
    BY <2>1, <2>2, <2>3
<1>2. CASE ~(\E i \in gone : s.simple_keys[i].possible /\ s.simple_keys[i].required)
  <2>1. Forget(s, gone) = t
    BY <1>2 DEF Forget
  <2>2. keys \in Seq(SimpleKeys) /\ l \in Nat /\ DOMAIN keys = 1 .. l
    BY <1>0, Fields
  <2>3. \A x \in SimpleKeys : [x EXCEPT !.possible = FALSE] \in SimpleKeys
                              /\ [x EXCEPT !.possible = FALSE].possible = FALSE
    BY DEF SimpleKeys
  <2>4. \A i \in 1 .. l : keys[i] \in SimpleKeys
    BY <2>2
  <2>5. /\ ks \in Seq(SimpleKeys) /\ Len(ks) = l
        /\ \A i \in 1 .. l : ks[i] = IF i \in gone THEN [keys[i] EXCEPT !.possible = FALSE]
                                                   ELSE keys[i]
    BY <2>2, <2>3, <2>4
  <2> HIDE DEF ks
  <2>6. \A i \in 1 .. l : IF i \in gone THEN ks[i].possible = FALSE ELSE ks[i] = keys[i]
    BY <2>3, <2>4, <2>5
  <2>7. t \in State /\ t.simple_keys = ks /\ SameButKeys(s, t)
    BY <1>0, <2>5, WithKeys
  <2> HIDE DEF t
  <2>8. Fewer(keys, ks)
    BY <2>5, <2>6 DEF Fewer
  <2>9. Quiet(s, t) /\ Sound(t)
    BY <2>5, <2>7, <2>8, KeysQuiet
  <2>10. QED
    BY <2>1, <2>5, <2>6, <2>7, <2>9 DEF SameButKeys
<1>3. QED
  BY <1>1, <1>2

LEMMA SaveReady ==
  ASSUME NEW s, Steady(s)
  PROVE  /\ Ready(SaveSimpleKey(s), s.mark)
         /\ SameButKeys(s, SaveSimpleKey(s))
<1>0. s \in State /\ Sound(s)
  BY DEF Steady, Sound
<1>1. /\ s.tokens \in Seq(Tokens) /\ s.tokens_parsed \in Nat
      /\ s.simple_keys \in Seq(SimpleKeys) /\ s.mark \in Marks /\ s.mark.line \in Nat
      /\ s.flow_level \in Nat
  BY <1>0, Fields
<1>2. CASE ~s.simple_key_allowed
  <2>1. SaveSimpleKey(s) = s
    BY <1>2 DEF SaveSimpleKey
  <2>2. QED
    BY <1>1, <2>1, SteadyReady DEF SameButKeys
<1>3. CASE s.simple_key_allowed
  <2> DEFINE keys == s.simple_keys
             l == Len(keys)
             key == [possible |-> TRUE,
                     required |-> /\ s.flow_level = 0 /\ s.indent = s.mark.col
                                  /\ Last(s.indents).needs_block_end,
                     token_number |-> s.tokens_parsed + Len(s.tokens),
                     mark |-> s.mark]
             ks == [keys EXCEPT ![l] = key]
             t == [s EXCEPT !.simple_keys = ks]
  <2>1. SaveSimpleKey(s) = t
    BY <1>0, <1>3 DEF SaveSimpleKey, State, Scanners
  <2>2. key \in SimpleKeys
    <3>1. (/\ s.flow_level = 0 /\ s.indent = s.mark.col
           /\ Last(s.indents).needs_block_end) \in BOOLEAN
      OBVIOUS
    <3>2. s.tokens_parsed + Len(s.tokens) \in Nat
      BY <1>1
    <3>3. QED
      BY <1>1, <3>1, <3>2 DEF SimpleKeys
  <2>3. key.token_number = s.tokens_parsed + Len(s.tokens) /\ key.mark = s.mark
    OBVIOUS
  <2> HIDE DEF key
  <2>4. l \in Nat /\ l = s.flow_level + 1 /\ l \in 1 .. l /\ keys # <<>>
    BY <1>0, <1>1 DEF Sound
  <2>5. ks \in Seq(SimpleKeys) /\ Len(ks) = l
        /\ \A i \in 1 .. l : ks[i] = IF i = l THEN key ELSE keys[i]
    BY <1>1, <2>2, <2>4, ExceptSeq
  <2>6. \A i \in 1 .. l : keys[i].possible => keys[i].mark.line <= s.mark.line
    BY <1>0 DEF Sound, Passed
  <2>7. Awaited(s.tokens, s.tokens_parsed, ks, s.mark)
    BY <1>1, <2>2, <2>3, <2>4, <2>6, KeySaved DEF Steady
  <2> HIDE DEF ks
  <2>8. t \in State /\ t.simple_keys = ks /\ SameButKeys(s, t)
    BY <1>0, <2>5, WithKeys
  <2> HIDE DEF t
  <2>9. s.mark.line <= s.mark.line
    BY <1>1
  <2>10. Passed(t)
    <3> SUFFICES ASSUME NEW i \in 1 .. l, ks[i].possible PROVE ks[i].mark.line <= s.mark.line
      BY <2>5, <2>8 DEF Passed, SameButKeys
    <3>1. CASE i = l
      BY <2>3, <2>5, <2>9, <3>1
    <3>2. CASE i # l
      BY <2>5, <2>6, <3>2
    <3>3. QED
      BY <3>1, <3>2
  <2>11. Rising(t)
    BY <1>0, <2>8, StillRising DEF Sound, SameButKeys
  <2>12. Sound(t)
    BY <1>0, <2>5, <2>8, <2>10, <2>11 DEF Sound, SameButKeys
  <2>13. QED
    BY <2>1, <2>7, <2>8, <2>9, <2>12 DEF Ready, SameButKeys
<1>4. QED
  BY <1>2, <1>3, <1>0 DEF State, Scanners

LEMMA FlowLevelUp ==
  ASSUME NEW s, Sound(s), NEW x \in BOOLEAN,
         NEW t, t = [s EXCEPT !.simple_keys = Append(@, NoKey), !.flow_level = @ + 1,
                              !.flow_mapping_started = x]
  PROVE  Quiet(s, t) /\ Sound(t)
<1> DEFINE keys == s.simple_keys
           ks == Append(keys, NoKey)
<1>0. s \in State
  BY DEF Sound
<1>1. keys \in Seq(SimpleKeys) /\ Len(keys) \in Nat /\ s.flow_level \in Nat /\ s.mark.line \in Nat
  BY <1>0, Fields
<1>2. NoKey \in SimpleKeys /\ NoKey.possible = FALSE
  BY DEF NoKey, SimpleKeys, Marks
<1>3. /\ ks \in Seq(SimpleKeys) /\ Len(ks) = Len(keys) + 1 /\ ks[Len(keys) + 1] = NoKey
      /\ \A i \in 1 .. Len(keys) : ks[i] = keys[i]
  BY <1>1, <1>2, AppendProperties
<1> HIDE DEF ks
<1>4. t = [s EXCEPT !.simple_keys = ks, !.flow_level = s.flow_level + 1, !.flow_mapping_started = x]
  BY <1>0 DEF ks, State, Scanners
<1>5. /\ t \in State /\ t.simple_keys = ks /\ t.flow_level = s.flow_level + 1
      /\ t.tokens = s.tokens /\ t.tokens_parsed = s.tokens_parsed /\ t.mark = s.mark
      /\ t.indent = s.indent /\ t.indents = s.indents
      /\ t.stream_start_produced = s.stream_start_produced
  <2> DEFINE level == s.flow_level + 1
             u == [s EXCEPT !.simple_keys = ks, !.flow_level = level, !.flow_mapping_started = x]
  <2>1. level \in Nat
    BY <1>1
  <2>2. t = u
    BY <1>4
  <2> HIDE DEF level
  <2>3. u \in State
    BY <1>0, <1>3, <2>1 DEF State, Scanners
  <2>4. /\ u.simple_keys = ks /\ u.flow_level = level
        /\ u.tokens = s.tokens /\ u.tokens_parsed = s.tokens_parsed /\ u.mark = s.mark
        /\ u.indent = s.indent /\ u.indents = s.indents
        /\ u.stream_start_produced = s.stream_start_produced
    BY <1>0 DEF State, Scanners
  <2> HIDE DEF u
  <2>5. QED
    BY <2>2, <2>3, <2>4 DEF level
<1>6. Fewer(keys, ks)
  <2> SUFFICES ASSUME NEW i \in 1 .. Len(ks), ks[i].possible
               PROVE  i \in 1 .. Len(keys) /\ keys[i] = ks[i]
    BY DEF Fewer
  <2>1. i # Len(keys) + 1
    BY <1>2, <1>3
  <2>2. i \in 1 .. Len(keys)
    BY <1>1, <1>3, <2>1
  <2>3. QED
    BY <1>3, <2>2
<1>7. Rising(t)
  BY <1>5, StillRising DEF Sound
<1>8. Len(t.simple_keys) = t.flow_level + 1 /\ s.mark.line <= t.mark.line /\ t.stream_start_produced
  BY <1>1, <1>3, <1>5 DEF Sound
<1>9. Quiet(s, t)
  BY <1>5, <1>6, <1>7, <1>8, QueueKept
<1>10. QED
  BY <1>9 DEF Quiet, Grows, After

LEMMA FlowLevelDown ==
  ASSUME NEW s, Sound(s)
  PROVE  /\ Quiet(s, DecreaseFlowLevel(s)) /\ Sound(DecreaseFlowLevel(s))
         /\ DecreaseFlowLevel(s).mark = s.mark
<1> DEFINE keys == s.simple_keys
           l == Len(keys)
           ks == SubSeq(keys, 1, l - 1)
           t == [s EXCEPT !.flow_level = s.flow_level - 1, !.simple_keys = ks]
<1>0. s \in State
  BY DEF Sound
<1>1. keys \in Seq(SimpleKeys) /\ l \in Nat /\ s.flow_level \in Nat /\ s.mark.line \in Nat
      /\ l = s.flow_level + 1
  BY <1>0, Fields DEF Sound
<1>2. CASE s.flow_level = 0
  <2>1. DecreaseFlowLevel(s) = s
    BY <1>2 DEF DecreaseFlowLevel
  <2>2. SameQueue(s, s)
    BY <1>0, <1>1 DEF SameQueue
  <2>3. QED
    BY <2>1, <2>2, KeptQuiet
<1>3. CASE s.flow_level # 0
  <2>1. DecreaseFlowLevel(s) = t
    BY <1>0, <1>3 DEF DecreaseFlowLevel, Front, State, Scanners
  <2>2. l - 1 \in 0 .. l /\ s.flow_level - 1 \in Nat
    BY <1>1, <1>3
  <2> DEFINE m == l - 1
  <2>3. m \in 0 .. l /\ m = (s.flow_level - 1) + 1
    BY <1>1, <2>2
  <2>4. ks \in Seq(SimpleKeys) /\ Len(ks) = m /\ \A i \in 1 .. m : ks[i] = keys[i]
    <3>1. ks = SubSeq(keys, 1, m)
      OBVIOUS
    <3> HIDE DEF m, ks
    <3>2. QED
      BY <1>1, <2>3, <3>1, CutInTwo
  <2> HIDE DEF m, ks
  <2>5. /\ t \in State /\ t.simple_keys = ks /\ t.flow_level = s.flow_level - 1
        /\ t.tokens = s.tokens /\ t.tokens_parsed = s.tokens_parsed /\ t.mark = s.mark
        /\ t.indent = s.indent /\ t.indents = s.indents
        /\ t.stream_start_produced = s.stream_start_produced
    BY <1>0, <2>2, <2>4 DEF State, Scanners
  <2> HIDE DEF t
  <2>6. Fewer(keys, ks)
    <3>1. \A i \in 1 .. m : i \in 1 .. l
      BY <1>1, <2>3
    <3>2. QED
      BY <2>4, <3>1 DEF Fewer
  <2>7. Rising(t)
    BY <2>5, StillRising DEF Sound
  <2>8. Len(t.simple_keys) = t.flow_level + 1 /\ s.mark.line <= t.mark.line /\ t.stream_start_produced
    BY <1>1, <2>3, <2>4, <2>5 DEF Sound
  <2>9. Quiet(s, t)
    BY <2>5, <2>6, <2>7, <2>8, QueueKept
  <2>10. QED
    BY <2>1, <2>5, <2>9 DEF Quiet, Grows, After
<1>4. QED
  BY <1>2, <1>3

LEMMA EndImplicitSteady ==
  ASSUME NEW s, Steady(s)
  PROVE  Steady(EndImplicitMapping(s)) /\ EndImplicitMapping(s).mark = s.mark
<1>0. s \in State /\ Sound(s)
  BY DEF Steady, Sound
<1>1. CASE s.implicit_flow_mapping
  <2> DEFINE r == [s EXCEPT !.implicit_flow_mapping = FALSE, !.flow_mapping_started = FALSE]
             t == Push(r, "FlowMappingEnd", s.mark)
  <2>1. EndImplicitMapping(s) = t
    BY <1>1 DEF EndImplicitMapping
  <2>2. s.mark \in Marks /\ s.mark.line \in Nat
    BY <1>0, Fields
  <2>3. SameQueue(s, r) /\ r.mark = s.mark
    <3>1. r \in State
      BY <1>0 DEF State, Scanners
    <3>2. /\ r.tokens = s.tokens /\ r.tokens_parsed = s.tokens_parsed
          /\ r.simple_keys = s.simple_keys /\ r.indent = s.indent /\ r.indents = s.indents
          /\ r.flow_level = s.flow_level /\ r.mark = s.mark
          /\ r.stream_start_produced = s.stream_start_produced
      BY <1>0 DEF State, Scanners
    <3> HIDE DEF r
    <3>3. QED
      BY <2>2, <3>1, <3>2 DEF SameQueue
  <2> HIDE DEF r
  <2>4. Steady(r)
    BY <1>0, <2>3, KeptQuiet, SteadyQuiet
  <2>5. "FlowMappingEnd" \in Content
    BY DEF Content, Kinds, Closers
  <2>6. Steady(t)
    BY <2>2, <2>3, <2>4, <2>5, PushSteady
  <2>7. t.mark = r.mark
    <3>1. r \in State
      BY <2>3 DEF SameQueue
    <3>2. QED
      BY <3>1 DEF Push, State, Scanners
  <2>8. QED
    BY <2>1, <2>3, <2>6, <2>7
<1>2. CASE ~s.implicit_flow_mapping
  BY <1>2 DEF EndImplicitMapping
<1>3. QED
  BY <1>1, <1>2

\* A comment on the line of the mark is queued.
LEMMA NoteQuiet ==
  ASSUME NEW s, Sound(s), NEW notes, notes = <<>> \/ notes = <<s.mark.line>>
  PROVE  LET t == [s EXCEPT !.tokens = @ \o Notes(notes)]
         IN  Quiet(s, t) /\ Sound(t) /\ SameButTokens(s, t)
<1> DEFINE us == s.tokens \o Notes(notes)
           t == [s EXCEPT !.tokens = us]
<1>0. s \in State
  BY DEF Sound
<1>1. s.tokens \in Seq(Tokens) /\ s.mark.line \in Nat
  BY <1>0, Fields
<1>2. Notes(notes) \in Seq(Tokens)
  <2>1. CASE notes = <<>>
    BY <2>1 DEF Notes
  <2>2. CASE notes = <<s.mark.line>>
    <3>1. [line |-> s.mark.line, col |-> 0] \in Marks
      BY <1>1 DEF Marks
    <3>2. Note(s.mark.line) \in Tokens
      BY <3>1, TokenType DEF Note
    <3>3. Notes(notes) = <<Note(s.mark.line)>>
      BY <2>2 DEF Notes
    <3>4. QED
      BY <3>2, <3>3
  <2>3. QED
    BY <2>1, <2>2
<1>3. us \in Seq(Tokens)
  BY <1>1, <1>2, ConcatProperties
<1>4. t.tokens = us
  BY <1>0 DEF State, Scanners
<1> HIDE DEF us
<1>5. s \in Scanners(Seq(Tokens))
  BY <1>0 DEF State
<1>6. t \in State /\ SameButTokens(s, t)
  BY <1>3, <1>5, WithTokens DEF State
<1> HIDE DEF t
<1>7. notes = <<>> \/ \E l \in s.mark.line .. t.mark.line : notes = <<l>>
  BY <1>1, <1>6 DEF SameButTokens
<1>8. Quiet(s, t)
  <2>1. s.mark.line <= t.mark.line /\ t.stream_start_produced
    BY <1>1, <1>6 DEF SameButTokens, Sound
  <2>2. QED
    BY <1>4, <1>6, <1>7, <2>1, NotesQuiet DEF SameButTokens, us
<1>9. QED
  BY <1>6, <1>8 DEF Quiet, Grows, After, t, us

LEMMA SweptLineSteady ==
  ASSUME NEW s, NEW at \in Marks, Ready(s, at), NEW kind \in Content,
         NEW r \in SweptLine(s, kind, at)
  PROVE  Steady(r.to)
<1> DEFINE t == [s EXCEPT !.tokens = Append(@, Note(s.mark.line))]
<1>0. Sound(s) /\ s \in State
  BY DEF Ready, Sound
<1>1. r.to = Push(s, kind, at) \/ r.to = Push(t, kind, at)
  BY DEF SweptLine, Result
<1>2. t = [s EXCEPT !.tokens = @ \o Notes(<<s.mark.line>>)]
  <2>1. Notes(<<s.mark.line>>) = <<Note(s.mark.line)>>
    BY DEF Notes
  <2>2. s.mark.line \in Nat /\ s.tokens \in Seq(Tokens)
    BY <1>0, Fields
  <2>3. [line |-> s.mark.line, col |-> 0] \in Marks
    BY <2>2 DEF Marks
  <2>4. Note(s.mark.line) \in Tokens
    BY <2>3, TokenType DEF Note
  <2>5. Append(s.tokens, Note(s.mark.line)) = s.tokens \o <<Note(s.mark.line)>>
    BY <2>2, <2>4, AppendIsConcat
  <2>6. QED
    BY <1>0, <2>1, <2>5 DEF State, Scanners
<1>3. Quiet(s, t)
  BY <1>0, <1>2, NoteQuiet
<1> HIDE DEF t
<1>4. Ready(t, at)
  BY <1>3, ReadyQuiet
<1>5. QED
  BY <1>1, <1>4, PushReady

(***************************************************************************)
(* What stands before a word.                                              *)
(***************************************************************************)
LEMMA TextType ==
  ASSUME text \in Texts
  PROVE  text.lines \in Nat /\ text.cols \subseteq Nat
<1>1. text \in [words : SUBSET Words, size : Nat, lines : Nat, cols : SUBSET Nat]
  BY ScannerConstants
<1>2. QED
  BY <1>1

\* The mark moves on, past a comment perhaps.
Passes(s, gap) ==
  /\ gap.at \in Marks /\ s.mark.line <= gap.at.line
  /\ gap.notes = <<>> \/ \E l \in s.mark.line .. gap.at.line : gap.notes = <<l>>

LEMMA LinesPass ==
  ASSUME text \in Texts, NEW line \in Nat, NEW notes, NEW gap \in Lines(line, notes)
  PROVE  gap.at \in Marks /\ gap.at.line = line /\ gap.notes = notes
<1>1. PICK l \in {line} \cap 1 .. text.lines, c \in text.cols : gap = Gap(l, c, notes)
  BY DEF Lines
<1>2. l = line /\ l \in Nat /\ c \in Nat
  BY TextType
<1>3. gap.at = [line |-> l, col |-> c] /\ gap.notes = notes
  BY <1>1 DEF Gap
<1>4. QED
  BY <1>2, <1>3 DEF Marks

LEMMA BlanksPass ==
  ASSUME text \in Texts, NEW s, s.mark.line \in Nat, NEW clean, NEW noted,
         NEW gap \in Blanks(s, clean, noted)
  PROVE  Passes(s, gap)
<1> DEFINE n == s.mark.line
<1>0. n \in Nat /\ n + 1 \in Nat /\ n + 2 \in Nat
  OBVIOUS
<1>1. \/ gap \in Lines(n + 1, <<>>) \/ gap \in Lines(n + 2, <<n + 1>>)
      \/ gap \in Lines(n + 1, <<n>>)
  BY DEF Blanks
<1> HIDE DEF n
<1>2. /\ gap.at \in Marks /\ n <= gap.at.line
      /\ gap.notes = <<>> \/ \E l \in n .. gap.at.line : gap.notes = <<l>>
  <2>1. CASE gap \in Lines(n + 1, <<>>)
    <3>1. gap.at \in Marks /\ gap.at.line = n + 1 /\ gap.notes = <<>>
      BY <1>0, <2>1, LinesPass
    <3>2. QED
      BY <1>0, <3>1
  <2>2. CASE gap \in Lines(n + 2, <<n + 1>>)
    <3>1. gap.at \in Marks /\ gap.at.line = n + 2 /\ gap.notes = <<n + 1>>
      BY <1>0, <2>2, LinesPass
    <3>2. n + 1 \in n .. n + 2
      BY <1>0
    <3>3. QED
      BY <1>0, <3>1, <3>2
  <2>3. CASE gap \in Lines(n + 1, <<n>>)
    <3>1. gap.at \in Marks /\ gap.at.line = n + 1 /\ gap.notes = <<n>>
      BY <1>0, <2>3, LinesPass
    <3>2. n \in n .. n + 1
      BY <1>0
    <3>3. QED
      BY <1>0, <3>1, <3>2
  <2>4. QED
    BY <1>1, <2>1, <2>2, <2>3
<1>3. QED
  BY <1>2 DEF Passes, n

LEMMA GapsPass ==
  ASSUME text \in Texts, NEW s \in State, NEW w, NEW gap \in Gaps(s, w)
  PROVE  Passes(s, gap)
<1> DEFINE clean == ahead \in {"any", "swept", "eol"}
           noted == ahead \in {"any", "plain", "here", "margin"}
<1>1. \/ gap \in Blanks(s, clean, noted)
      \/ gap = Gap(s.mark.line, s.mark.col, <<>>)
  BY DEF Gaps
<1> HIDE DEF clean, noted
<1>2. CASE gap = Gap(s.mark.line, s.mark.col, <<>>)
  <2>1. s.mark.line \in Nat /\ s.mark.col \in Nat
    BY Fields
  <2>2. gap.at = [line |-> s.mark.line, col |-> s.mark.col] /\ gap.notes = <<>>
    BY <1>2 DEF Gap
  <2>3. QED
    BY <2>1, <2>2 DEF Passes, Marks
<1>3. QED
  BY <1>1, <1>2, Fields, BlanksPass

LEMMA PlacesPass ==
  ASSUME text \in Texts, NEW line \in Nat, NEW at \in NextPlaces(line)
  PROVE  at \in Marks /\ at.line = line
<1>1. PICK gap \in Lines(line, <<>>) : at = gap.at
  BY DEF NextPlaces
<1>2. QED
  BY <1>1, LinesPass

LEMMA SkipQuiet ==
  ASSUME NEW s, Sound(s), NEW gap, Passes(s, gap)
  PROVE  Quiet(s, Skip(s, gap)) /\ Sound(Skip(s, gap))
<1> DEFINE us == s.tokens \o Notes(gap.notes)
           b == s.simple_key_allowed \/ (gap.at.line > s.mark.line /\ s.flow_level = 0)
           t == [s EXCEPT !.mark = gap.at, !.tokens = us, !.simple_key_allowed = b]
<1>0. s \in State
  BY DEF Sound
<1>1. s.tokens \in Seq(Tokens) /\ s.mark.line \in Nat
  BY <1>0, Fields
<1>2. gap.at \in Marks /\ s.mark.line <= gap.at.line /\ gap.at.line \in Nat
  BY DEF Passes, Marks
<1>3. Notes(gap.notes) \in Seq(Tokens)
  <2>1. CASE gap.notes = <<>>
    BY <2>1 DEF Notes
  <2>2. CASE \E l \in s.mark.line .. gap.at.line : gap.notes = <<l>>
    <3>1. PICK l \in s.mark.line .. gap.at.line : gap.notes = <<l>>
      BY <2>2
    <3>2. [line |-> l, col |-> 0] \in Marks
      BY <1>1 DEF Marks
    <3>3. Note(l) \in Tokens
      BY <3>2, TokenType DEF Note
    <3>4. Notes(gap.notes) = <<Note(l)>>
      BY <3>1 DEF Notes
    <3>5. QED
      BY <3>3, <3>4
  <2>3. QED
    BY <2>1, <2>2 DEF Passes
<1>4. us \in Seq(Tokens)
  BY <1>1, <1>3, ConcatProperties
<1>5. b \in BOOLEAN
  OBVIOUS
<1>6. Skip(s, gap) = t
  BY <1>0 DEF Skip, MoveTo, State, Scanners
<1> HIDE DEF us, b
<1>7. t \in State
  BY <1>0, <1>2, <1>4, <1>5 DEF State, Scanners
<1>8. /\ t.tokens = us /\ t.mark = gap.at /\ t.tokens_parsed = s.tokens_parsed
      /\ t.simple_keys = s.simple_keys /\ t.indent = s.indent /\ t.indents = s.indents
      /\ t.flow_level = s.flow_level /\ t.stream_start_produced = s.stream_start_produced
  BY <1>0 DEF State, Scanners
<1> HIDE DEF t
<1>9. Quiet(s, t)
  <2>1. s.mark.line <= t.mark.line /\ t.stream_start_produced
    BY <1>2, <1>8 DEF Sound
  <2>2. gap.notes = <<>> \/ \E l \in s.mark.line .. t.mark.line : gap.notes = <<l>>
    BY <1>8 DEF Passes
  <2> DEFINE lines == gap.notes
  <2>3. lines = <<>> \/ \E l \in s.mark.line .. t.mark.line : lines = <<l>>
    BY <2>2
  <2>4. t.tokens = s.tokens \o Notes(lines)
    BY <1>8 DEF us
  <2> HIDE DEF lines
  <2>5. QED
    BY <1>7, <1>8, <2>1, <2>3, <2>4, NotesQuiet
<1>10. QED
  BY <1>6, <1>9 DEF Quiet, Grows, After

(***************************************************************************)
(* The fetch functions keep the queue and its keys together.               *)
(***************************************************************************)
LEMMA SteadySound ==
  ASSUME NEW s, Steady(s)
  PROVE  /\ s \in State /\ Sound(s) /\ s.mark \in Marks /\ s.mark.line \in Nat
         /\ s.mark.col \in Nat
BY Fields DEF Steady, Sound

LEMMA ReadySame ==
  ASSUME NEW s, NEW t, NEW at \in Marks, Ready(s, at), SameQueue(s, t)
  PROVE  Ready(t, at)
BY KeptQuiet, ReadyQuiet DEF Ready

LEMMA SteadySame ==
  ASSUME NEW s, NEW t, Steady(s), SameQueue(s, t)
  PROVE  Steady(t)
BY KeptQuiet, SteadyQuiet DEF Steady

LEMMA SetFlags ==
  ASSUME NEW s \in State, NEW x \in BOOLEAN, NEW at \in Marks
  PROVE  /\ LET t == [s EXCEPT !.flow_mapping_started = x]
            IN  SameQueue(s, t) /\ t.mark = s.mark
         /\ LET t == [s EXCEPT !.implicit_flow_mapping = x]
            IN  SameQueue(s, t) /\ t.mark = s.mark /\ t.simple_keys = s.simple_keys
                /\ t.flow_level = s.flow_level
         /\ LET t == [s EXCEPT !.adjacent_value_allowed_at = at]
            IN  SameQueue(s, t) /\ t.mark = s.mark
<1>1. s.mark.line \in Nat
  BY Fields
<1> DEFINE a == [s EXCEPT !.flow_mapping_started = x]
           b == [s EXCEPT !.implicit_flow_mapping = x]
           c == [s EXCEPT !.adjacent_value_allowed_at = at]
<1>a. a \in State
  BY DEF State, Scanners
<1>b. b \in State
  BY DEF State, Scanners
<1>c. c \in State
  BY DEF State, Scanners
<1>d. /\ a.mark = s.mark /\ a.tokens = s.tokens /\ a.tokens_parsed = s.tokens_parsed
      /\ a.simple_keys = s.simple_keys /\ a.indent = s.indent /\ a.indents = s.indents
      /\ a.flow_level = s.flow_level /\ a.stream_start_produced = s.stream_start_produced
  BY DEF State, Scanners
<1>e. /\ b.mark = s.mark /\ b.tokens = s.tokens /\ b.tokens_parsed = s.tokens_parsed
      /\ b.simple_keys = s.simple_keys /\ b.indent = s.indent /\ b.indents = s.indents
      /\ b.flow_level = s.flow_level /\ b.stream_start_produced = s.stream_start_produced
  BY DEF State, Scanners
<1>f. /\ c.mark = s.mark /\ c.tokens = s.tokens /\ c.tokens_parsed = s.tokens_parsed
      /\ c.simple_keys = s.simple_keys /\ c.indent = s.indent /\ c.indents = s.indents
      /\ c.flow_level = s.flow_level /\ c.stream_start_produced = s.stream_start_produced
  BY DEF State, Scanners
<1> HIDE DEF a, b, c
<1>2. SameQueue(s, a) /\ SameQueue(s, b) /\ SameQueue(s, c)
  BY <1>1, <1>a, <1>b, <1>c, <1>d, <1>e, <1>f DEF SameQueue
<1>5. QED
  BY <1>2, <1>d, <1>e, <1>f DEF a, b, c

LEMMA FlagMarks ==
  ASSUME NEW s \in State
  PROVE  /\ AllowKey(s).mark = s.mark /\ DisallowKey(s).mark = s.mark
         /\ \A kind, at : Push(s, kind, at).mark = s.mark
BY DEF AllowKey, DisallowKey, Push, State, Scanners

LEMMA NoteAppended ==
  ASSUME NEW s \in State, NEW line \in Nat
  PROVE  [s EXCEPT !.tokens = Append(@, Note(line))] = [s EXCEPT !.tokens = @ \o Notes(<<line>>)]
<1>1. Notes(<<line>>) = <<Note(line)>>
  BY DEF Notes
<1>2. s.tokens \in Seq(Tokens)
  BY Fields
<1>3. [line |-> line, col |-> 0] \in Marks
  BY DEF Marks
<1>4. Note(line) \in Tokens
  BY <1>3, TokenType DEF Note
<1>5. Append(s.tokens, Note(line)) = s.tokens \o <<Note(line)>>
  BY <1>2, <1>4, AppendIsConcat
<1>6. QED
  BY <1>1, <1>5 DEF State, Scanners

LEMMA RemoveSteady ==
  ASSUME NEW s, Steady(s)
  PROVE  /\ Steady(RemoveSimpleKey(s)) /\ RemoveSimpleKey(s).mark = s.mark
BY ForgetQuiet, SteadyQuiet DEF RemoveSimpleKey, Steady

LEMMA AllowSteady ==
  ASSUME NEW s, Steady(s)
  PROVE  /\ Steady(AllowKey(s)) /\ AllowKey(s).mark = s.mark
         /\ Steady(DisallowKey(s)) /\ DisallowKey(s).mark = s.mark
         /\ Steady(Failed(s))
BY SteadySound, FlagsKept, FlagMarks, SteadySame

LEMMA ErrorSteady ==
  ASSUME NEW s, Steady(s), NEW r \in Error(s)
  PROVE  Steady(r.to)
BY AllowSteady DEF Error, Result

LEMMA FlowCollectionStartSteady ==
  ASSUME NEW s, Steady(s), NEW w \in {"[", "{"}, NEW r \in FlowCollectionStart(s, w)
  PROVE  Steady(r.to)
<1> DEFINE a == SaveSimpleKey(s)
           b == RollOneCol(a)
           c == [b EXCEPT !.simple_keys = Append(@, NoKey), !.flow_level = @ + 1,
                          !.flow_mapping_started = @ \/ w = "{"]
           d == Past(AllowKey(c), 1)
           kind == IF w = "[" THEN "FlowSequenceStart" ELSE "FlowMappingStart"
<1>0. s.mark \in Marks
  BY SteadySound
<1>1. r \in SweptLine(d, kind, s.mark)
  BY DEF FlowCollectionStart
<1>2. kind \in Content
  BY DEF Content, Kinds, Openers
<1> HIDE DEF kind
<1>3. Ready(a, s.mark)
  BY SaveReady
<1> HIDE DEF a
<1>4. Ready(b, s.mark)
  BY <1>0, <1>3, RollOneColQuiet, ReadyQuiet DEF Ready
<1> HIDE DEF b
<1>5. Ready(c, s.mark)
  <2>1. Sound(b) /\ b \in State
    BY <1>4 DEF Ready, Sound
  <2> DEFINE x == b.flow_mapping_started \/ w = "{"
  <2>2. x \in BOOLEAN
    OBVIOUS
  <2>3. c = [b EXCEPT !.simple_keys = Append(@, NoKey), !.flow_level = @ + 1,
                      !.flow_mapping_started = x]
    BY <2>1 DEF State, Scanners
  <2> HIDE DEF x, c
  <2>4. Quiet(b, c)
    BY <2>1, <2>2, <2>3, FlowLevelUp
  <2>5. QED
    BY <1>0, <1>4, <2>4, ReadyQuiet
<1> HIDE DEF c
<1>6. Ready(AllowKey(c), s.mark) /\ AllowKey(c) \in State
  <2>1. c \in State
    BY <1>5 DEF Ready, Sound
  <2>2. QED
    BY <1>0, <1>5, <2>1, FlagsKept, ReadySame, StateKept
<1>7. Ready(d, s.mark)
  BY <1>0, <1>6, PastKept, ReadySame
<1> HIDE DEF d
<1>8. QED
  BY <1>0, <1>1, <1>2, <1>7, SweptLineSteady

LEMMA FlowCollectionEndSteady ==
  ASSUME NEW s, Steady(s), NEW w \in {"]", "}"}, NEW r \in FlowCollectionEnd(s, w)
  PROVE  Steady(r.to)
<1> DEFINE a == RemoveSimpleKey(s)
           b == DecreaseFlowLevel(a)
           c == EndImplicitMapping(DisallowKey(b))
           kind == IF w = "]" THEN "FlowSequenceEnd" ELSE "FlowMappingEnd"
           p == Push(c, kind, s.mark)
           t == Past(p, 1)
           u == IF t.flow_level > 0 THEN [t EXCEPT !.adjacent_value_allowed_at = t.mark] ELSE t
           v == [u EXCEPT !.tokens = Append(@, Note(s.mark.line))]
<1>0. s.mark \in Marks /\ s.mark.line \in Nat
  BY SteadySound
<1> DEFINE q == Push(c, IF w = "]" THEN "FlowSequenceEnd" ELSE "FlowMappingEnd", s.mark)
<1>q. q = p
  OBVIOUS
<1>1. r.to = u \/ r.to = v
  <2>1. r \in {Result(u, "swept"), Result(v, "eol")}
    BY Zenon DEF FlowCollectionEnd
  <2> HIDE DEF u, v
  <2>2. Result(u, "swept").to = u /\ Result(v, "eol").to = v
    BY DEF Result
  <2>3. QED
    BY <2>1, <2>2
<1>2. kind \in Content
  BY DEF Content, Kinds, Closers
<1> HIDE DEF kind
<1>3. Steady(a) /\ a.mark = s.mark
  BY RemoveSteady
<1> HIDE DEF a
<1>4. Steady(b) /\ b.mark = s.mark
  BY <1>3, FlowLevelDown, SteadyQuiet DEF Steady
<1> HIDE DEF b
<1>5. Steady(c) /\ c.mark = s.mark
  BY <1>4, AllowSteady, EndImplicitSteady
<1> HIDE DEF c
<1>6. Steady(p) /\ p.mark = s.mark
  <2>1. s.mark.line = c.mark.line
    BY <1>5
  <2>2. Steady(p)
    BY <1>0, <1>2, <1>5, <2>1, PushSteady
  <2>3. c \in State
    BY <1>5, SteadySound
  <2>4. p.mark = c.mark
    BY <2>3, FlagMarks
  <2>5. QED
    BY <1>5, <2>2, <2>4
<1> HIDE DEF p
<1>7. Steady(t) /\ t.mark.line = s.mark.line
  BY <1>6, SteadySound, PastKept, SteadySame
<1> HIDE DEF t
<1>8. Steady(u) /\ u.mark.line = s.mark.line
  <2>1. t \in State /\ t.mark \in Marks
    BY <1>7, SteadySound
  <2>2. CASE t.flow_level > 0
    <3>1. u = [t EXCEPT !.adjacent_value_allowed_at = t.mark]
      BY <2>2
    <3>2. TRUE \in BOOLEAN
      OBVIOUS
    <3>3. SameQueue(t, u) /\ u.mark = t.mark
      BY <2>1, <3>1, <3>2, SetFlags
    <3> HIDE DEF u
    <3>4. QED
      BY <1>7, <3>3, SteadySame
  <2>3. CASE ~(t.flow_level > 0)
    BY <1>7, <2>3
  <2>4. QED
    BY <2>2, <2>3
<1> HIDE DEF u
<1>9. Steady(v)
  <2>1. u \in State /\ Sound(u)
    BY <1>8, SteadySound
  <2>2. v = [u EXCEPT !.tokens = @ \o Notes(<<u.mark.line>>)]
    BY <1>0, <1>8, <2>1, NoteAppended
  <2> HIDE DEF v
  <2>3. Quiet(u, v)
    BY <2>1, <2>2, NoteQuiet
  <2>4. QED
    BY <1>8, <2>3, SteadyQuiet
<1>10. QED
  BY <1>1, <1>8, <1>9

LEMMA FlowEntrySteady ==
  ASSUME NEW s, Steady(s), NEW w, NEW r \in FlowEntry(s, w)
  PROVE  Steady(r.to)
<1> DEFINE a == AllowKey(RemoveSimpleKey(s))
           b == EndImplicitMapping(a)
           c == Past(b, 1)
<1>0. s.mark \in Marks
  BY SteadySound
<1>1. r \in SweptLine(c, "FlowEntry", s.mark)
  BY DEF FlowEntry
<1>2. Steady(a) /\ a.mark = s.mark
  BY RemoveSteady, AllowSteady
<1> HIDE DEF a
<1>3. Steady(b) /\ b.mark = s.mark
  BY <1>2, EndImplicitSteady
<1> HIDE DEF b
<1>4. Steady(c) /\ c.mark.line = s.mark.line
  BY <1>3, SteadySound, PastKept, SteadySame
<1> HIDE DEF c
<1>5. Ready(c, s.mark)
  BY <1>0, <1>4, SteadyReady
<1>6. "FlowEntry" \in Content
  BY DEF Content, Kinds
<1>7. QED
  BY <1>0, <1>1, <1>5, <1>6, SweptLineSteady

\* Moves of the mark, and comments, between saving a key and queueing its token.
LEMMA ReadyState ==
  ASSUME NEW s, NEW at, Ready(s, at)
  PROVE  s \in State /\ Sound(s) /\ s.mark \in Marks /\ s.mark.line \in Nat
BY Fields DEF Ready, Sound

LEMMA ReadyMoves ==
  ASSUME NEW s, NEW at \in Marks, Ready(s, at)
  PROVE  /\ Ready(AllowKey(s), at) /\ AllowKey(s).mark = s.mark
         /\ Ready(DisallowKey(s), at) /\ DisallowKey(s).mark = s.mark
         /\ \A width \in Nat : Ready(Past(s, width), at) /\ Past(s, width).mark.line = s.mark.line
         /\ \A to \in Marks : s.mark.line <= to.line =>
              Ready(MoveTo(s, to), at) /\ MoveTo(s, to).mark = to
         /\ \A to \in Marks : LET t == [s EXCEPT !.adjacent_value_allowed_at = to]
                              IN  Ready(t, at) /\ t.mark = s.mark
<1>1. s \in State
  BY ReadyState
<1>2. /\ Ready(AllowKey(s), at) /\ AllowKey(s).mark = s.mark
      /\ Ready(DisallowKey(s), at) /\ DisallowKey(s).mark = s.mark
  BY <1>1, FlagsKept, FlagMarks, ReadySame
<1>3. \A width \in Nat : Ready(Past(s, width), at) /\ Past(s, width).mark.line = s.mark.line
  BY <1>1, PastKept, ReadySame
<1>4. \A to \in Marks : s.mark.line <= to.line =>
        Ready(MoveTo(s, to), at) /\ MoveTo(s, to).mark = to
  BY <1>1, MoveKept, ReadySame
<1>5. ASSUME NEW to \in Marks
      PROVE  LET t == [s EXCEPT !.adjacent_value_allowed_at = to]
             IN  Ready(t, at) /\ t.mark = s.mark
  <2> DEFINE t == [s EXCEPT !.adjacent_value_allowed_at = to]
  <2>1. TRUE \in BOOLEAN
    OBVIOUS
  <2>2. SameQueue(s, t) /\ t.mark = s.mark
    BY <1>1, <2>1, SetFlags
  <2> HIDE DEF t
  <2>3. Ready(t, at) /\ t.mark = s.mark
    BY <2>2, ReadySame
  <2>4. QED
    BY <2>3 DEF t
<1>6. QED
  BY <1>2, <1>3, <1>4, <1>5

LEMMA ReadyNotes ==
  ASSUME NEW s, NEW at \in Marks, Ready(s, at), NEW notes,
         notes = <<>> \/ notes = <<s.mark.line>>
  PROVE  LET t == [s EXCEPT !.tokens = @ \o Notes(notes)]
         IN  Ready(t, at) /\ t.mark = s.mark
<1> DEFINE t == [s EXCEPT !.tokens = @ \o Notes(notes)]
<1>1. Quiet(s, t) /\ SameButTokens(s, t)
  BY ReadyState, NoteQuiet
<1> HIDE DEF t
<1>2. Ready(t, at) /\ t.mark = s.mark
  BY <1>1, ReadyQuiet DEF SameButTokens
<1>3. QED
  BY <1>2 DEF t

LEMMA ReadySkip ==
  ASSUME NEW s, NEW at \in Marks, Ready(s, at), NEW gap, Passes(s, gap)
  PROVE  Ready(Skip(s, gap), at)
BY ReadyState, SkipQuiet, ReadyQuiet

LEMMA PastSteady ==
  ASSUME NEW s, Steady(s), NEW width \in Nat
  PROVE  Steady(Past(s, width)) /\ Past(s, width).mark.line = s.mark.line
BY SteadySound, PastKept, SteadySame

LEMMA NoteSteady ==
  ASSUME NEW s, Steady(s), NEW line, line = s.mark.line
  PROVE  LET t == [s EXCEPT !.tokens = Append(@, Note(line))]
         IN  Steady(t) /\ t.mark = s.mark
<1> DEFINE t == [s EXCEPT !.tokens = Append(@, Note(line))]
           u == [s EXCEPT !.tokens = @ \o Notes(<<s.mark.line>>)]
<1>1. s \in State /\ Sound(s) /\ line \in Nat
  BY SteadySound
<1>2. t = u
  BY <1>1, NoteAppended
<1>3. Quiet(s, u) /\ SameButTokens(s, u)
  BY <1>1, NoteQuiet
<1> HIDE DEF t, u
<1>4. Steady(t) /\ t.mark = s.mark
  BY <1>2, <1>3, SteadyQuiet DEF SameButTokens
<1>5. QED
  BY <1>4 DEF t

LEMMA NotesSteady ==
  ASSUME NEW s, Steady(s), NEW notes, notes = <<>> \/ notes = <<s.mark.line>>
  PROVE  LET t == [s EXCEPT !.tokens = @ \o Notes(notes)]
         IN  Steady(t) /\ t.mark = s.mark
<1> DEFINE t == [s EXCEPT !.tokens = @ \o Notes(notes)]
<1>1. Quiet(s, t) /\ SameButTokens(s, t)
  BY SteadySound, NoteQuiet
<1> HIDE DEF t
<1>2. Steady(t) /\ t.mark = s.mark
  BY <1>1, SteadyQuiet DEF SameButTokens
<1>3. QED
  BY <1>2 DEF t

LEMMA BlockEntrySteady ==
  ASSUME NEW s, Steady(s), NEW w, NEW r \in BlockEntry(s, w)
  PROVE  Steady(r.to)
<1> DEFINE Done(t) == Push(AllowKey(RemoveSimpleKey(t)), "BlockEntry", t.mark)
           a == Past(s, 2)
           b == RollIndent(a, s.mark.col, NextNumber(s), "BlockSequenceStart", s.mark)
           c == RollOneCol(b)
           d == [b EXCEPT !.tokens = Append(@, Note(s.mark.line))]
           e == RollOneCol(d)
<1>1. r \in Error(s) \/ r.to \in {Done(b), Done(c), Done(e)}
  BY DEF BlockEntry, Result
<1>2. s \in State /\ s.mark \in Marks /\ s.mark.line \in Nat /\ s.mark.col \in Nat
  BY SteadySound
<1>3. "BlockEntry" \in Content /\ "BlockSequenceStart" \in Content
  BY DEF Content, Kinds, Openers
<1>4. ASSUME NEW t, Steady(t)
      PROVE  Steady(Done(t))
  <2> DEFINE u == AllowKey(RemoveSimpleKey(t))
  <2>1. Steady(u) /\ u.mark = t.mark
    BY <1>4, RemoveSteady, AllowSteady
  <2> HIDE DEF u
  <2>2. t.mark \in Marks /\ t.mark.line = u.mark.line
    BY <1>4, <2>1, SteadySound
  <2>3. Steady(Push(u, "BlockEntry", t.mark))
    BY <1>3, <2>1, <2>2, PushSteady
  <2>4. QED
    BY <2>3 DEF u
<1> HIDE DEF Done
<1>5. Steady(a) /\ a.mark.line = s.mark.line
  BY PastSteady
<1>6. NextNumber(a) = NextNumber(s)
  BY <1>2, PastKept DEF NextNumber, SameQueue
<1> HIDE DEF a
<1>7. Steady(b) /\ b.mark.line = s.mark.line
  <2>1. s.mark.line <= a.mark.line
    BY <1>2, <1>5
  <2>2. b = RollIndent(a, s.mark.col, NextNumber(a), "BlockSequenceStart", s.mark)
    BY <1>6
  <2> HIDE DEF b
  <2>3. QED
    BY <1>2, <1>3, <1>5, <2>1, <2>2, RollIndentGrows
<1> HIDE DEF b
<1>8. Steady(c)
  BY <1>7, SteadySound, RollOneColQuiet, SteadyQuiet
<1>9. Steady(d)
  BY <1>7, NoteSteady
<1> HIDE DEF d
<1>10. Steady(e)
  BY <1>9, SteadySound, RollOneColQuiet, SteadyQuiet
<1> HIDE DEF c, e
<1>11. QED
  BY <1>1, <1>4, <1>7, <1>8, <1>10, ErrorSteady

LEMMA KeySteady ==
  ASSUME NEW s, Steady(s), text \in Texts, NEW w, NEW r \in Key(s, w)
  PROVE  Steady(r.to)
<1> DEFINE a == RollIndent(s, s.mark.col, NextNumber(s), "BlockMappingStart", s.mark)
           b == AllowKey(RemoveSimpleKey(a))
           c == [s EXCEPT !.flow_mapping_started = TRUE]
           d == DisallowKey(RemoveSimpleKey(c))
           e == IF s.flow_level = 0 THEN b ELSE d
           t == Past(e, 2)
<1>1. \/ r \in Error(s) \/ r.to = Push(t, "Key", s.mark)
      \/ \E gap \in Blanks(t, TRUE, TRUE) : r.to = Push(Skip(t, gap), "Key", s.mark)
  <2>1. r \in Error(s) \cup {Result(Push(t, "Key", s.mark), "word")}
               \cup {Result(Push(Skip(t, gap), "Key", s.mark), "word") :
                       gap \in Blanks(t, TRUE, TRUE)}
    BY Zenon DEF Key
  <2> HIDE DEF t
  <2>2. \A x : Result(x, "word").to = x
    BY DEF Result
  <2>3. QED
    BY <2>1, <2>2
<1>2. s \in State /\ s.mark \in Marks /\ s.mark.line \in Nat /\ s.mark.col \in Nat
  BY SteadySound
<1>3. "Key" \in Content /\ "BlockMappingStart" \in Content
  BY DEF Content, Kinds, Openers
<1>4. Steady(a) /\ a.mark = s.mark
  BY <1>2, <1>3, RollIndentGrows
<1> HIDE DEF a
<1>5. Steady(b) /\ b.mark = s.mark
  BY <1>4, RemoveSteady, AllowSteady
<1> HIDE DEF b
<1>6. Steady(c) /\ c.mark = s.mark
  <2>1. TRUE \in BOOLEAN
    OBVIOUS
  <2>2. SameQueue(s, c) /\ c.mark = s.mark
    BY <1>2, <2>1, SetFlags
  <2> HIDE DEF c
  <2>3. QED
    BY <2>2, SteadySame
<1> HIDE DEF c
<1>7. Steady(d) /\ d.mark = s.mark
  BY <1>6, RemoveSteady, AllowSteady
<1> HIDE DEF d
<1>8. Steady(e) /\ e.mark = s.mark
  BY <1>5, <1>7
<1> HIDE DEF e
<1>9. Steady(t) /\ t.mark.line = s.mark.line
  BY <1>8, PastSteady
<1> HIDE DEF t
<1>10. Ready(t, s.mark)
  BY <1>2, <1>9, SteadyReady
<1>11. Steady(Push(t, "Key", s.mark))
  BY <1>2, <1>3, <1>10, PushReady
<1>12. ASSUME NEW gap \in Blanks(t, TRUE, TRUE)
       PROVE  Steady(Push(Skip(t, gap), "Key", s.mark))
  BY <1>2, <1>3, <1>10, ReadyState, BlanksPass, ReadySkip, PushReady
<1>13. QED
  BY <1>1, <1>11, <1>12, ErrorSteady

LEMMA PropertySteady ==
  ASSUME NEW s, Steady(s), NEW w \in {"anchor", "alias", "tag"}, NEW r \in Property(s, w)
  PROVE  Steady(r.to)
<1> DEFINE kind == CASE w = "anchor" -> "Anchor" [] w = "alias" -> "Alias" [] w = "tag" -> "Tag"
           a == SaveSimpleKey(s)
           b == DisallowKey(a)
           c == Past(b, 2)
<1>1. r.to = Push(c, kind, s.mark)
  BY DEF Property, Result
<1>2. s.mark \in Marks
  BY SteadySound
<1>3. kind \in Content
  BY DEF Content, Kinds
<1> HIDE DEF kind
<1>4. Ready(a, s.mark)
  BY SaveReady
<1> HIDE DEF a
<1>5. Ready(b, s.mark)
  BY <1>2, <1>4, ReadyMoves
<1> HIDE DEF b
<1>6. Ready(c, s.mark)
  BY <1>2, <1>5, ReadyMoves
<1> HIDE DEF c
<1>7. QED
  BY <1>1, <1>2, <1>3, <1>6, PushReady

LEMMA SavedReady ==
  ASSUME NEW s, Steady(s)
  PROVE  /\ Ready(DisallowKey(SaveSimpleKey(s)), s.mark)
         /\ Ready(AllowKey(SaveSimpleKey(s)), s.mark)
         /\ DisallowKey(SaveSimpleKey(s)).mark = s.mark
         /\ AllowKey(SaveSimpleKey(s)).mark = s.mark
         /\ DisallowKey(SaveSimpleKey(s)).tokens_parsed = s.tokens_parsed
<1>1. s.mark \in Marks
  BY SteadySound
<1>2. Ready(SaveSimpleKey(s), s.mark) /\ SameButKeys(s, SaveSimpleKey(s))
  BY SaveReady
<1> DEFINE a == SaveSimpleKey(s)
<1> HIDE DEF a
<1>3. Ready(a, s.mark) /\ a.mark = s.mark /\ a.tokens_parsed = s.tokens_parsed /\ a \in State
  BY <1>2, ReadyState DEF a, SameButKeys
<1>4. DisallowKey(a).tokens_parsed = a.tokens_parsed
  BY <1>3, FlagsKept DEF SameQueue
<1>5. QED
  BY <1>1, <1>3, <1>4, ReadyMoves DEF a

LEMMA ReadyUnrolled ==
  ASSUME NEW s, NEW at \in Marks, Ready(s, at)
  PROVE  Ready(UnrollNonBlock(s), at) /\ UnrollNonBlock(s).mark = s.mark
BY ReadyState, UnrollNonBlockQuiet, ReadyQuiet DEF SameButIndents

LEMMA BlockScalarSteady ==
  ASSUME NEW s, Steady(s), text \in Texts, NEW w, NEW r \in BlockScalar(s, w)
  PROVE  Steady(r.to)
<1> DEFINE a == AllowKey(SaveSimpleKey(s))
           b == UnrollNonBlock(a)
           N(notes) == [b EXCEPT !.tokens = @ \o Notes(notes)]
<1>1. s.mark \in Marks /\ s.mark.line \in Nat
  BY SteadySound
<1>2. PICK notes \in {<<>>, <<s.mark.line>>},
           at \in NextPlaces(s.mark.line + 1) \cup NextPlaces(s.mark.line + 2) :
        r.to = Push(MoveTo(N(notes), at), "Scalar", s.mark)
  <2> DEFINE commented == IF s.flow_level = 0 THEN {<<>>, <<s.mark.line>>} ELSE {}
  <2>1. \E notes \in commented, at \in NextPlaces(s.mark.line + 1) \cup NextPlaces(s.mark.line + 2) :
          r = Result(Push(MoveTo(N(notes), at), "Scalar", s.mark), "here")
    <3> DEFINE places == NextPlaces(s.mark.line + 1) \cup NextPlaces(s.mark.line + 2)
               F(notes, at) == Result(Push(MoveTo(N(notes), at), "Scalar", s.mark), "here")
    <3>1. BlockScalar(s, w) = {F(notes, at) : notes \in commented, at \in places}
      BY DEF BlockScalar
    <3> HIDE DEF commented, places, F
    <3>2. \E notes \in commented, at \in places : r = F(notes, at)
      BY <3>1
    <3>3. QED
      BY <3>2 DEF commented, places, F
  <2>2. commented \subseteq {<<>>, <<s.mark.line>>}
    OBVIOUS
  <2> HIDE DEF N, commented
  <2>3. PICK notes \in commented, at \in NextPlaces(s.mark.line + 1) \cup NextPlaces(s.mark.line + 2) :
          r = Result(Push(MoveTo(N(notes), at), "Scalar", s.mark), "here")
    BY <2>1
  <2>4. r.to = Push(MoveTo(N(notes), at), "Scalar", s.mark)
    BY <2>3 DEF Result
  <2>5. QED
    BY <2>2, <2>4
<1>3. Ready(a, s.mark) /\ a.mark = s.mark
  BY SavedReady
<1> HIDE DEF a
<1>4. Ready(b, s.mark) /\ b.mark = s.mark
  BY <1>1, <1>3, ReadyUnrolled
<1> HIDE DEF b
<1>5. Ready(N(notes), s.mark) /\ N(notes).mark = s.mark
  <2>1. notes = <<>> \/ notes = <<b.mark.line>>
    BY <1>2, <1>4
  <2>2. QED
    BY <1>1, <1>4, <2>1, ReadyNotes
<1> DEFINE c == N(notes)
<1>6. Ready(c, s.mark) /\ c.mark = s.mark /\ r.to = Push(MoveTo(c, at), "Scalar", s.mark)
  BY <1>2, <1>5
<1> HIDE DEF N, c
<1>7. at \in Marks /\ s.mark.line <= at.line
  <2>1. s.mark.line + 1 \in Nat /\ s.mark.line + 2 \in Nat
    BY <1>1
  <2>2. at \in Marks /\ (at.line = s.mark.line + 1 \/ at.line = s.mark.line + 2)
    BY <1>2, <2>1, PlacesPass
  <2>3. QED
    BY <1>1, <2>2
<1>8. Ready(MoveTo(c, at), s.mark)
  BY <1>1, <1>6, <1>7, ReadyMoves
<1>9. "Scalar" \in Content
  BY DEF Content, Kinds
<1>10. QED
  BY <1>1, <1>6, <1>8, <1>9, PushReady

LEMMA PlainScalarSteady ==
  ASSUME NEW s, Steady(s), text \in Texts, NEW w, NEW r \in PlainScalar(s, w)
  PROVE  Steady(r.to)
<1> DEFINE a == DisallowKey(SaveSimpleKey(s))
           b == UnrollNonBlock(a)
           line == s.mark.line
           Scalar(t) == Push(t, "Scalar", s.mark)
<1>1. s.mark \in Marks /\ line \in Nat
  BY SteadySound
<1>2. \/ r \in Error(s)
      \/ \E width \in {1, KeyLimit + 1} : r.to = Scalar(Past(b, width))
      \/ \E l \in {line + 1} : r.to = Scalar(MoveTo(b, [line |-> l, col |-> 2]))
      \/ \E at \in NextPlaces(line + 1) \cup NextPlaces(line + 2) :
           r.to = Scalar(AllowKey(MoveTo(b, at)))
  <2>1. \/ r \in Error(s)
        \/ \E width \in {1, KeyLimit + 1} : r = Result(Scalar(Past(b, width)), "plain")
        \/ \E l \in {line + 1} \cap 1 .. text.lines :
             r = Result(Scalar(MoveTo(b, [line |-> l, col |-> 2])), "plain")
        \/ \E at \in NextPlaces(line + 1) \cup NextPlaces(line + 2) :
             r = Result(Scalar(AllowKey(MoveTo(b, at))), "margin")
    BY DEF PlainScalar
  <2> HIDE DEF Scalar, b
  <2>2. CASE r \in Error(s)
    BY <2>2
  <2>3. CASE \E width \in {1, KeyLimit + 1} : r = Result(Scalar(Past(b, width)), "plain")
    BY <2>3 DEF Result
  <2>4. CASE \E l \in {line + 1} \cap 1 .. text.lines :
               r = Result(Scalar(MoveTo(b, [line |-> l, col |-> 2])), "plain")
    BY <2>4 DEF Result
  <2>5. CASE \E at \in NextPlaces(line + 1) \cup NextPlaces(line + 2) :
               r = Result(Scalar(AllowKey(MoveTo(b, at))), "margin")
    BY <2>5 DEF Result
  <2>6. QED
    BY <2>1, <2>2, <2>3, <2>4, <2>5
<1>3. Ready(a, s.mark) /\ a.mark = s.mark
  BY SavedReady
<1> HIDE DEF a
<1>4. Ready(b, s.mark) /\ b.mark = s.mark
  BY <1>1, <1>3, ReadyUnrolled
<1> HIDE DEF b
<1>5. ASSUME NEW t, Ready(t, s.mark)
      PROVE  Steady(Scalar(t))
  <2>1. "Scalar" \in Content
    BY DEF Content, Kinds
  <2>2. QED
    BY <1>1, <1>5, <2>1, PushReady
<1>6. ASSUME NEW width \in {1, KeyLimit + 1}
      PROVE  Ready(Past(b, width), s.mark)
  <2>1. width \in Nat
    BY ScannerConstants
  <2>2. QED
    BY <1>1, <1>4, <2>1, ReadyMoves
<1>7. ASSUME NEW l \in {line + 1}
      PROVE  Ready(MoveTo(b, [line |-> l, col |-> 2]), s.mark)
  <2>1. [line |-> l, col |-> 2] \in Marks /\ s.mark.line <= [line |-> l, col |-> 2].line
    BY <1>1 DEF Marks
  <2>2. QED
    BY <1>1, <1>4, <2>1, ReadyMoves
<1>8. ASSUME NEW at \in NextPlaces(line + 1) \cup NextPlaces(line + 2)
      PROVE  Ready(AllowKey(MoveTo(b, at)), s.mark)
  <2>1. line + 1 \in Nat /\ line + 2 \in Nat
    BY <1>1
  <2>2. at \in Marks /\ (at.line = line + 1 \/ at.line = line + 2)
    BY <2>1, PlacesPass
  <2>3. s.mark.line <= at.line
    BY <1>1, <2>2
  <2>4. Ready(MoveTo(b, at), s.mark)
    BY <1>1, <1>4, <2>2, <2>3, ReadyMoves
  <2>5. QED
    BY <1>1, <2>4, ReadyMoves
<1> HIDE DEF Scalar
<1>9. QED
  BY <1>2, <1>5, <1>6, <1>7, <1>8, ErrorSteady

LEMMA QuotedScalarSteady ==
  ASSUME NEW s, Steady(s), text \in Texts, NEW w, NEW r \in QuotedScalar(s, w)
  PROVE  Steady(r.to)
<1> DEFINE a == DisallowKey(SaveSimpleKey(s))
           one == Past(a, 2)
           two == {MoveTo(a, [line |-> l, col |-> 2]) : l \in {s.mark.line + 1}}
           Scalar(t) == Push([t EXCEPT !.adjacent_value_allowed_at = t.mark], "Scalar", s.mark)
<1>1. s.mark \in Marks /\ s.mark.line \in Nat
  BY SteadySound
<1>2. \E t \in {one} \cup two :
        \/ r.to = Scalar(t)
        \/ \E gap \in Blanks(t, TRUE, TRUE) : r.to = Scalar(Skip(t, gap))
  <2> DEFINE three == {MoveTo(a, [line |-> l, col |-> 2]) :
                         l \in {s.mark.line + 1} \cap 1 .. text.lines}
  <2>1. \/ \E t \in {one} \cup IF s.flow_level > 0 THEN three ELSE {} :
             r = Result(Scalar(t), "quoted")
        \/ \E t \in {one} \cup three : \E gap \in Blanks(t, TRUE, TRUE) :
             r = Result(Scalar(Skip(t, gap)), "word")
    BY Zenon DEF QuotedScalar
  <2>2. three \subseteq two
    BY Zenon
  <2> HIDE DEF Scalar, one, two, three
  <2>3. CASE \E t \in {one} \cup IF s.flow_level > 0 THEN three ELSE {} :
               r = Result(Scalar(t), "quoted")
    <3>1. PICK t \in {one} \cup three : r = Result(Scalar(t), "quoted")
      BY <2>3
    <3>2. QED
      BY <2>2, <3>1 DEF Result
  <2>4. CASE \E t \in {one} \cup three : \E gap \in Blanks(t, TRUE, TRUE) :
               r = Result(Scalar(Skip(t, gap)), "word")
    <3>1. PICK t \in {one} \cup three :
            \E gap \in Blanks(t, TRUE, TRUE) : r = Result(Scalar(Skip(t, gap)), "word")
      BY <2>4
    <3>2. PICK gap \in Blanks(t, TRUE, TRUE) : r = Result(Scalar(Skip(t, gap)), "word")
      BY <3>1
    <3>3. r.to = Scalar(Skip(t, gap))
      BY <3>2 DEF Result
    <3>4. QED
      BY <2>2, <3>3
  <2>5. QED
    BY <2>1, <2>3, <2>4
<1>3. Ready(a, s.mark) /\ a.mark = s.mark
  BY SavedReady
<1> HIDE DEF a
<1>4. ASSUME NEW t \in {one} \cup two
      PROVE  Ready(t, s.mark)
  <2>1. CASE t = one
    BY <1>1, <1>3, <2>1, ReadyMoves
  <2>2. CASE t \in two
    <3>1. t = MoveTo(a, [line |-> s.mark.line + 1, col |-> 2])
      BY <2>2
    <3> DEFINE at == [line |-> s.mark.line + 1, col |-> 2]
    <3>2. at \in Marks /\ a.mark.line <= at.line
      BY <1>1, <1>3 DEF Marks
    <3> HIDE DEF at
    <3>3. Ready(MoveTo(a, at), s.mark)
      BY <1>1, <1>3, <3>2, ReadyMoves
    <3>4. QED
      BY <3>1, <3>3 DEF at
  <2>3. QED
    BY <2>1, <2>2
<1> HIDE DEF one, two
<1>5. ASSUME NEW t, Ready(t, s.mark)
      PROVE  Steady(Scalar(t))
  <2> DEFINE u == [t EXCEPT !.adjacent_value_allowed_at = t.mark]
  <2>1. "Scalar" \in Content
    BY DEF Content, Kinds
  <2>2. t.mark \in Marks
    BY <1>5, ReadyState
  <2>3. Ready(u, s.mark)
    BY <1>1, <1>5, <2>2, ReadyMoves
  <2> HIDE DEF u
  <2>4. Steady(Push(u, "Scalar", s.mark))
    BY <1>1, <2>1, <2>3, PushReady
  <2>5. QED
    BY <2>4 DEF u
<1> HIDE DEF Scalar
<1>6. ASSUME NEW t \in {one} \cup two, NEW gap \in Blanks(t, TRUE, TRUE)
      PROVE  Ready(Skip(t, gap), s.mark)
  BY <1>1, <1>4, ReadyState, BlanksPass, ReadySkip
<1>7. QED
  BY <1>2, <1>4, <1>5, <1>6

LEMMA MarkerSteady ==
  ASSUME NEW s, Steady(s), NEW w, NEW r \in Marker(s, w)
  PROVE  Steady(r.to)
<1> DEFINE a == UnrollIndent(s, -1)
           b == DisallowKey(RemoveSimpleKey(a))
           c == Past(b, 4)
           d == Push(c, "DocumentStart", s.mark)
           e == Push(c, "DocumentEnd", s.mark)
           N(notes) == [e EXCEPT !.tokens = @ \o Notes(notes)]
<1>1. s.mark \in Marks /\ s.mark.line \in Nat
  BY SteadySound
<1>2. r.to = d \/ \E notes \in {<<>>, <<s.mark.line>>} : r.to = N(notes)
  <2>1. r = Result(d, "any") \/ \E notes \in {<<>>, <<s.mark.line>>} : r = Result(N(notes), "eol")
    BY DEF Marker
  <2> HIDE DEF d, N
  <2>2. QED
    BY <2>1 DEF Result
<1>3. Steady(a) /\ a.mark = s.mark
  BY UnrollIndentSteady
<1> HIDE DEF a
<1>4. Steady(b) /\ b.mark = s.mark
  BY <1>3, RemoveSteady, AllowSteady
<1> HIDE DEF b
<1>5. Steady(c) /\ c.mark.line = s.mark.line /\ c \in State
  BY <1>4, PastSteady, SteadySound
<1> HIDE DEF c
<1>6. "DocumentStart" \in Content /\ "DocumentEnd" \in Content
  BY DEF Content, Kinds
<1>7. Steady(d) /\ Steady(e)
  BY <1>1, <1>5, <1>6, PushSteady
<1>8. e.mark.line = s.mark.line
  BY <1>5, FlagMarks
<1> HIDE DEF d, e
<1>9. ASSUME NEW notes \in {<<>>, <<s.mark.line>>}
      PROVE  Steady(N(notes))
  <2>1. notes = <<>> \/ notes = <<e.mark.line>>
    BY <1>8
  <2>2. QED
    BY <1>7, <2>1, NotesSteady
<1> HIDE DEF N
<1>10. QED
  BY <1>2, <1>7, <1>9

LEMMA DirectiveSteady ==
  ASSUME NEW s, Steady(s), text \in Texts, NEW w, NEW r \in Directive(s, w)
  PROVE  Steady(r.to)
<1> DEFINE a == UnrollIndent(s, -1)
           b == DisallowKey(RemoveSimpleKey(a))
           N(notes) == [b EXCEPT !.tokens = @ \o Notes(notes)]
           places == NextPlaces(s.mark.line + 1)
           F(notes, at) == Result(Push(MoveTo(N(notes), at), "Directive", s.mark), "here")
<1>1. s.mark \in Marks /\ s.mark.line \in Nat
  BY SteadySound
<1>2. PICK notes \in {<<>>, <<s.mark.line>>}, at \in places :
        r.to = Push(MoveTo(N(notes), at), "Directive", s.mark)
  <2>1. Directive(s, w) = {F(notes, at) : notes \in {<<>>, <<s.mark.line>>}, at \in places}
    BY DEF Directive
  <2> HIDE DEF places, F, N
  <2>2. PICK notes \in {<<>>, <<s.mark.line>>}, at \in places : r = F(notes, at)
    BY <2>1
  <2>3. r.to = Push(MoveTo(N(notes), at), "Directive", s.mark)
    BY <2>2 DEF F, Result
  <2>4. QED
    BY <2>3
<1> HIDE DEF F
<1>3. Steady(a) /\ a.mark = s.mark
  BY UnrollIndentSteady
<1> HIDE DEF a
<1>4. Steady(b) /\ b.mark = s.mark
  BY <1>3, RemoveSteady, AllowSteady
<1> HIDE DEF b
<1> DEFINE c == N(notes)
<1>5. Steady(c) /\ c.mark = s.mark
  <2>1. notes = <<>> \/ notes = <<b.mark.line>>
    BY <1>2, <1>4
  <2>2. QED
    BY <1>4, <2>1, NotesSteady
<1>6. r.to = Push(MoveTo(c, at), "Directive", s.mark)
  BY <1>2
<1> HIDE DEF N, c
<1>7. Ready(c, s.mark)
  BY <1>1, <1>5, SteadyReady
<1>8. at \in Marks /\ c.mark.line <= at.line
  <2>1. s.mark.line + 1 \in Nat
    BY <1>1
  <2>2. at \in Marks /\ at.line = s.mark.line + 1
    BY <1>2, <2>1, PlacesPass
  <2>3. QED
    BY <1>1, <1>5, <2>2
<1>9. Ready(MoveTo(c, at), s.mark)
  BY <1>1, <1>7, <1>8, ReadyMoves
<1>10. "Directive" \in Content
  BY DEF Content, Kinds
<1>11. QED
  BY <1>1, <1>6, <1>9, <1>10, PushReady

(***************************************************************************)
(* `:' finds the innermost key.                                            *)
(***************************************************************************)
\* Outside flow collections a key that is possible stands on the line of the mark.
Near(s) ==
  s.flow_level = 0 =>
    \A i \in 1 .. Len(s.simple_keys) :
      s.simple_keys[i].possible => s.mark.line <= s.simple_keys[i].mark.line

LEMMA AfterOn ==
  ASSUME NEW s, NEW t, NEW u, NEW b \in 0 .. Len(s.tokens), Sound(s),
         After(s, t, b), After(t, u, b)
  PROVE  After(s, u, b)
<1> DEFINE S == s.tokens
           T == t.tokens
           U == u.tokens
<1>1. s.mark.line \in Nat /\ t.mark.line \in Nat /\ u.mark.line \in Nat
  BY Fields DEF After, Sound
<1>2. /\ S \in Seq(Tokens) /\ T \in Seq(Tokens) /\ U \in Seq(Tokens)
      /\ Len(S) \in Nat /\ Len(T) \in Nat /\ Len(U) \in Nat
  BY Fields, TokenFields DEF After, Sound
<1>3. Len(S) <= Len(T) /\ Len(T) <= Len(U) /\ Agree(S, T, b) /\ Agree(T, U, b)
  BY DEF After
<1>4. Sound(u) /\ u.tokens_parsed = s.tokens_parsed /\ s.mark.line <= u.mark.line
  BY <1>1 DEF After
<1>5. Len(S) <= Len(U)
  BY <1>2, <1>3
<1>6. Agree(S, U, b)
  BY <1>3 DEF Agree
<1>7. Fewer(s.simple_keys, u.simple_keys)
  <2>1. Fewer(s.simple_keys, t.simple_keys) /\ Fewer(t.simple_keys, u.simple_keys)
    BY DEF After
  <2>2. QED
    BY <2>1 DEF Fewer
<1>8. ASSUME NEW j \in b + 1 .. Len(U), U[j].kind = "Comment"
      PROVE  s.mark.line <= U[j].line \/ \E i \in b + 1 .. Len(S) : S[i] = U[j]
  <2>0. U[j].line \in Nat
    BY <1>2, TokenFields
  <2>1. t.mark.line <= U[j].line \/ \E i \in b + 1 .. Len(T) : T[i] = U[j]
    BY <1>8 DEF After
  <2>2. CASE t.mark.line <= U[j].line
    BY <1>1, <2>0, <2>2 DEF After
  <2>3. CASE \E i \in b + 1 .. Len(T) : T[i] = U[j]
    <3>1. PICK i \in b + 1 .. Len(T) : T[i] = U[j]
      BY <2>3
    <3>2. T[i].kind = "Comment"
      BY <1>8, <3>1
    <3>3. s.mark.line <= T[i].line \/ \E k \in b + 1 .. Len(S) : S[k] = T[i]
      BY <3>2 DEF After
    <3>4. QED
      BY <3>1, <3>3
  <2>4. QED
    BY <2>1, <2>2, <2>3
<1>9. QED
  BY <1>4, <1>5, <1>6, <1>7, <1>8 DEF After

\* The innermost key is given up when its place is known.
LEMMA InnermostGivenUp ==
  ASSUME NEW s, Sound(s),
         NEW t, t = [s EXCEPT !.simple_keys[Len(s.simple_keys)].possible = FALSE]
  PROVE  /\ Sound(t) /\ SameButKeys(s, t)
         /\ \A i \in 1 .. Len(t.simple_keys) : t.simple_keys[i].possible =>
              i \in 1 .. Len(s.simple_keys) - 1 /\ t.simple_keys[i] = s.simple_keys[i]
<1> DEFINE keys == s.simple_keys
           n == Len(keys)
           ks == [keys EXCEPT ![n].possible = FALSE]
           u == [s EXCEPT !.simple_keys = ks]
<1>1. s \in State /\ keys \in Seq(SimpleKeys) /\ n \in Nat
  BY Fields, KeyFields DEF Sound
<1>2. t = u
  BY <1>1 DEF State, Scanners
<1>3. ks \in Seq(SimpleKeys) /\ Len(ks) = n
  <2>1. n \in DOMAIN keys => keys[n] \in SimpleKeys
    BY <1>1
  <2>2. n \in DOMAIN keys => [keys[n] EXCEPT !.possible = FALSE] \in SimpleKeys
    BY <2>1 DEF SimpleKeys
  <2> DEFINE new == [keys[n] EXCEPT !.possible = FALSE]
  <2>3. ks = [keys EXCEPT ![n] = new]
    OBVIOUS
  <2>4. n \in 1 .. n
    BY <1>1, Fields DEF Sound
  <2>5. new \in SimpleKeys
    BY <1>1, <2>2, <2>4
  <2> HIDE DEF new, ks
  <2>6. \A q \in Seq(SimpleKeys), x \in SimpleKeys : \A i \in 1 .. Len(q) :
          [q EXCEPT ![i] = x] \in Seq(SimpleKeys) /\ Len([q EXCEPT ![i] = x]) = Len(q)
    OBVIOUS
  <2>7. QED
    BY <1>1, <2>3, <2>4, <2>5, <2>6
<1>4. \A i \in 1 .. n : ks[i].possible => i \in 1 .. n - 1 /\ ks[i] = keys[i]
  <2> SUFFICES ASSUME NEW i \in 1 .. n, ks[i].possible
               PROVE  i \in 1 .. n - 1 /\ ks[i] = keys[i]
    OBVIOUS
  <2>1. keys[i] \in SimpleKeys /\ i \in DOMAIN keys
    BY <1>1
  <2>2. CASE i = n
    <3>1. ks[i] = [keys[i] EXCEPT !.possible = FALSE]
      BY <2>1, <2>2
    <3>2. ~ks[i].possible
      BY <2>1, <3>1 DEF SimpleKeys
    <3>3. QED
      BY <3>2
  <2>3. CASE i # n
    BY <1>1, <2>1, <2>3
  <2>4. QED
    BY <2>2, <2>3
<1> HIDE DEF ks
<1>5. u \in State /\ u.simple_keys = ks /\ SameButKeys(s, u)
  BY <1>1, <1>3, WithKeys
<1> HIDE DEF u
<1>6. Fewer(s.simple_keys, u.simple_keys)
  BY <1>1, <1>3, <1>4, <1>5 DEF Fewer
<1>7. Sound(u)
  BY <1>3, <1>5, <1>6, KeysQuiet
<1>8. QED
  BY <1>2, <1>3, <1>4, <1>5, <1>7

LEMMA InnermostKey ==
  ASSUME NEW s, Steady(s), Last(s.simple_keys).possible
  PROVE  LET key == Last(s.simple_keys)
             b == key.token_number - s.tokens_parsed
         IN  /\ s.simple_keys # <<>> /\ s.simple_keys[Len(s.simple_keys)] = key
             /\ key \in SimpleKeys /\ key.mark \in Marks
             /\ key.mark.line \in Nat /\ key.mark.col \in Nat /\ key.mark.line <= s.mark.line
             /\ b \in 0 .. Len(s.tokens) /\ b \in Nat
             /\ key.token_number = s.tokens_parsed + b
             /\ Behind(s.tokens, b, key.mark.line)
<1> DEFINE keys == s.simple_keys
           n == Len(keys)
           key == Last(keys)
<1>1. /\ s \in State /\ keys \in Seq(SimpleKeys) /\ n \in Nat /\ s.tokens_parsed \in Nat
      /\ s.tokens \in Seq(Tokens) /\ Len(s.tokens) \in Nat
  BY SteadySound, Fields, KeyFields
<1>2. n = s.flow_level + 1 /\ s.flow_level \in Nat
  BY <1>1, SteadySound, Fields DEF Sound
<1>3. n \in 1 .. n /\ keys # <<>>
  BY <1>1, <1>2
<1>4. keys[n] = key
  BY DEF Last
<1>5. key.possible
  OBVIOUS
<1>6. /\ key \in SimpleKeys /\ key.mark \in Marks /\ key.token_number \in Nat
      /\ key.mark.line \in Nat /\ key.mark.col \in Nat
  BY <1>1, <1>3, <1>4, KeyFields
<1> HIDE DEF key
<1>7. key.mark.line <= s.mark.line
  BY <1>3, <1>4, <1>5, SteadySound DEF Sound, Passed
<1>8. /\ key.token_number - s.tokens_parsed \in 0 .. Len(s.tokens)
      /\ Behind(s.tokens, key.token_number - s.tokens_parsed, key.mark.line)
  BY <1>3, <1>4, <1>5 DEF Steady, Keyed
<1>9. /\ key.token_number - s.tokens_parsed \in Nat
      /\ key.token_number = s.tokens_parsed + (key.token_number - s.tokens_parsed)
  BY <1>1, <1>6, <1>8
<1>10. QED
  BY <1>3, <1>4, <1>6, <1>7, <1>8, <1>9 DEF key

\* The tokens that `:' puts before the place of the innermost key.
LEMMA KeyInserted ==
  ASSUME NEW s, Steady(s), NEW at \in Marks, at.line = s.mark.line,
         s.implicit_flow_mapping \/ s.flow_level = 0 =>
           Last(s.simple_keys).mark.line = at.line,
         Last(s.simple_keys).possible
  PROVE  LET key == Last(s.simple_keys)
             b == key.token_number - s.tokens_parsed
             r == Insert(s, key.token_number, "Key", key.mark)
             t == IF s.implicit_flow_mapping
                  THEN Insert(r, key.token_number, "FlowMappingStart", s.mark) ELSE r
             u == RollOneCol(RollIndent(t, key.mark.col, key.token_number, "BlockMappingStart", at))
         IN  After(s, u, b) /\ u.simple_keys = s.simple_keys /\ u.mark = s.mark
<1> DEFINE key == Last(s.simple_keys)
           number == key.token_number
           b == number - s.tokens_parsed
           r == Insert(s, number, "Key", key.mark)
           q == Insert(r, number, "FlowMappingStart", s.mark)
           t == IF s.implicit_flow_mapping THEN q ELSE r
           v == RollIndent(t, key.mark.col, number, "BlockMappingStart", at)
           u == RollOneCol(v)
<1>1. /\ key.mark \in Marks /\ key.mark.line \in Nat /\ key.mark.col \in Nat
      /\ key.mark.line <= s.mark.line /\ b \in 0 .. Len(s.tokens) /\ b \in Nat
      /\ number = s.tokens_parsed + b /\ Behind(s.tokens, b, key.mark.line)
  BY InnermostKey
<1>2. s \in State /\ Sound(s) /\ s.mark \in Marks /\ s.mark.line \in Nat
  BY SteadySound
<1>3. {"Key", "FlowMappingStart", "BlockMappingStart"} \subseteq Content
  BY DEF Content, Kinds, Openers
<1>4. s.implicit_flow_mapping \/ s.flow_level = 0 => key.mark.line = s.mark.line
  OBVIOUS
<1> HIDE DEF key, number, b
<1>5. /\ After(s, r, b) /\ SameButTokens(s, r) /\ Behind(r.tokens, b, key.mark.line)
  BY <1>1, <1>2, <1>3, InsertAfter
<1> HIDE DEF r
<1>6. /\ Sound(r) /\ r.mark = s.mark /\ r.tokens_parsed = s.tokens_parsed
      /\ r.simple_keys = s.simple_keys /\ r.flow_level = s.flow_level
      /\ r.tokens \in Seq(Tokens) /\ Len(r.tokens) \in Nat /\ Len(s.tokens) \in Nat
      /\ b \in 0 .. Len(r.tokens)
  <2>1. Sound(r) /\ Len(s.tokens) <= Len(r.tokens)
    BY <1>5 DEF After
  <2>2. r.tokens \in Seq(Tokens) /\ s.tokens \in Seq(Tokens)
    BY <1>2, <2>1, Fields DEF Sound
  <2>3. Len(r.tokens) \in Nat /\ Len(s.tokens) \in Nat
    BY <2>2
  <2>4. QED
    BY <1>1, <1>5, <2>1, <2>2, <2>3 DEF SameButTokens
<1>7. /\ After(s, t, b) /\ SameButTokens(s, t) /\ Behind(t.tokens, b, key.mark.line)
  <2>1. CASE s.implicit_flow_mapping
    <3>1. key.mark.line = s.mark.line
      BY <1>4, <2>1
    <3>2. Behind(r.tokens, b, s.mark.line)
      BY <1>5, <3>1
    <3>3. s.mark.line <= r.mark.line
      BY <1>2, <1>6
    <3>4. number = r.tokens_parsed + b
      BY <1>1, <1>6
    <3>5. After(r, q, b) /\ SameButTokens(r, q) /\ Behind(q.tokens, b, s.mark.line)
      BY <1>2, <1>3, <1>6, <3>2, <3>3, <3>4, InsertAfter
    <3> HIDE DEF q
    <3>6. After(s, q, b)
      BY <1>1, <1>2, <1>5, <3>5, AfterOn
    <3>7. SameButTokens(s, q)
      BY <1>5, <3>5 DEF SameButTokens
    <3>8. QED
      BY <2>1, <3>1, <3>5, <3>6, <3>7
  <2>2. CASE ~s.implicit_flow_mapping
    BY <1>5, <2>2
  <2>3. QED
    BY <2>1, <2>2
<1> HIDE DEF t
<1>8. /\ Sound(t) /\ t.mark = s.mark /\ t.tokens_parsed = s.tokens_parsed
      /\ t.simple_keys = s.simple_keys /\ t.flow_level = s.flow_level
      /\ b \in 0 .. Len(t.tokens)
  <2>1. Sound(t) /\ Len(s.tokens) <= Len(t.tokens)
    BY <1>7 DEF After
  <2>2. t.tokens \in Seq(Tokens)
    BY <2>1, Fields DEF Sound
  <2>3. Len(t.tokens) \in Nat
    BY <2>2
  <2>4. QED
    BY <1>1, <1>6, <1>7, <2>1, <2>3 DEF SameButTokens
<1>9. After(t, v, b) /\ v.simple_keys = s.simple_keys /\ v.mark = s.mark
  <2>1. t.flow_level = 0 => at.line <= t.mark.line /\ Behind(t.tokens, b, at.line)
    <3>1. at.line <= t.mark.line
      BY <1>2, <1>8
    <3>2. t.flow_level = 0 => key.mark.line = at.line
      BY <1>4, <1>8
    <3>3. QED
      BY <1>7, <3>1, <3>2
  <2>2. number = t.tokens_parsed + b
    BY <1>1, <1>8
  <2>3. QED
    BY <1>1, <1>3, <1>8, <2>1, <2>2, RollIndentAfter
<1> HIDE DEF v
<1>10. After(s, v, b) /\ Sound(v)
  <2>1. After(s, v, b)
    BY <1>1, <1>2, <1>7, <1>9, AfterOn
  <2>2. QED
    BY <2>1 DEF After
<1>11. Sound(u) /\ SameButIndents(v, u)
  BY <1>10, RollOneColQuiet
<1> HIDE DEF u
<1>12. After(v, u, b)
  BY <1>1, <1>10, <1>11, AfterNothing
<1>13. After(s, u, b)
  BY <1>1, <1>2, <1>10, <1>12, AfterOn
<1>14. u.simple_keys = s.simple_keys /\ u.mark = s.mark
  BY <1>9, <1>11 DEF SameButIndents
<1>15. QED
  BY <1>13, <1>14 DEF u, v, t, r, b, number, key

LEMMA ValueOfSimpleKeySteady ==
  ASSUME NEW s, Steady(s), Near(s), NEW at \in Marks, at.line = s.mark.line,
         Last(s.simple_keys).possible
  PROVE  /\ Steady(ValueOfSimpleKey(s, at)) /\ ValueOfSimpleKey(s, at).mark = s.mark
<1> DEFINE key == Last(s.simple_keys)
           number == key.token_number
           b == number - s.tokens_parsed
           r == Insert(s, number, "Key", key.mark)
           t == IF s.implicit_flow_mapping
                THEN Insert(r, number, "FlowMappingStart", s.mark) ELSE r
           u == RollOneCol(RollIndent(t, key.mark.col, number, "BlockMappingStart", at))
           v == [u EXCEPT !.simple_keys[Len(u.simple_keys)].possible = FALSE]
           keys == s.simple_keys
<1>1. /\ s \in State /\ Sound(s) /\ s.mark \in Marks /\ s.mark.line \in Nat
      /\ keys \in Seq(SimpleKeys) /\ Len(keys) \in Nat /\ s.tokens \in Seq(Tokens)
      /\ s.tokens_parsed \in Nat
  BY SteadySound, Fields, KeyFields
<1>2. /\ keys # <<>> /\ keys[Len(keys)] = key /\ key.mark.line \in Nat
      /\ key.mark.line <= s.mark.line /\ b \in 0 .. Len(s.tokens) /\ b \in Nat
  BY InnermostKey
<1>3. CASE s.implicit_flow_mapping /\ key.mark.line < at.line
  <2>1. ValueOfSimpleKey(s, at) = Failed(s)
    BY <1>3 DEF ValueOfSimpleKey
  <2>2. Steady(Failed(s))
    BY AllowSteady
  <2>3. Failed(s).mark = s.mark
    BY <1>1 DEF Failed, State, Scanners
  <2>4. QED
    BY <2>1, <2>2, <2>3
<1>4. CASE ~(s.implicit_flow_mapping /\ key.mark.line < at.line)
  <2>1. ValueOfSimpleKey(s, at) = DisallowKey(v)
    BY <1>4, Zenon DEF ValueOfSimpleKey
  <2>2. s.implicit_flow_mapping \/ s.flow_level = 0 => key.mark.line = at.line
    <3>1. s.implicit_flow_mapping => key.mark.line = at.line
      <4>1. s.implicit_flow_mapping => ~(key.mark.line < at.line)
        BY <1>4
      <4> HIDE DEF key
      <4>2. QED
        BY <1>1, <1>2, <4>1
    <3>2. ASSUME s.flow_level = 0
          PROVE  key.mark.line = at.line
      <4>1. Len(keys) \in 1 .. Len(keys)
        BY <1>1, <1>2
      <4>2. key.possible
        OBVIOUS
      <4> HIDE DEF key
      <4>3. s.mark.line <= key.mark.line
        BY <1>2, <3>2, <4>1, <4>2 DEF Near
      <4>4. QED
        BY <1>1, <1>2, <4>3
    <3>3. QED
      BY <3>1, <3>2
  <2>3. After(s, u, b) /\ u.simple_keys = keys /\ u.mark = s.mark
    BY <2>2, KeyInserted
  <2> HIDE DEF u
  <2>4. Sound(u) /\ Len(s.tokens) <= Len(u.tokens) /\ Agree(s.tokens, u.tokens, b)
        /\ u.tokens_parsed = s.tokens_parsed
        /\ \A j \in b + 1 .. Len(u.tokens) : u.tokens[j].kind = "Comment" =>
             s.mark.line <= u.tokens[j].line \/ \E i \in b + 1 .. Len(s.tokens) : s.tokens[i] = u.tokens[j]
    BY <2>3 DEF After
  <2>5. /\ Sound(v) /\ SameButKeys(u, v)
        /\ \A i \in 1 .. Len(v.simple_keys) : v.simple_keys[i].possible =>
             i \in 1 .. Len(keys) - 1 /\ v.simple_keys[i] = keys[i]
    BY <2>3, <2>4, InnermostGivenUp
  <2> HIDE DEF v
  <2>6. /\ u.tokens \in Seq(Tokens) /\ v.simple_keys \in Seq(SimpleKeys)
    BY <2>4, <2>5, Fields DEF Sound
  <2>7. Keyed(s.tokens, s.tokens_parsed, keys)
    BY DEF Steady
  <2>8. keys[Len(keys)].possible /\ b = keys[Len(keys)].token_number - s.tokens_parsed
    BY <1>2
  <2>9. \A i \in 1 .. Len(keys) : keys[i].possible => keys[i].mark.line <= s.mark.line
    BY <1>1 DEF Sound, Passed
  <2>10. \A i \in 1 .. Len(v.simple_keys) : v.simple_keys[i].possible =>
           i \in 1 .. Len(keys) - 1 /\ keys[i] = v.simple_keys[i]
    BY <2>5
  <2> DEFINE ks == v.simple_keys
             us == u.tokens
             ts == s.tokens
             p == s.tokens_parsed
             line == s.mark.line
  <2>11. /\ ts \in Seq(Tokens) /\ us \in Seq(Tokens) /\ p \in Nat /\ keys \in Seq(SimpleKeys)
         /\ keys # <<>> /\ keys[Len(keys)].possible /\ ks \in Seq(SimpleKeys) /\ line \in Nat
         /\ b = keys[Len(keys)].token_number - p /\ Keyed(ts, p, keys) /\ Len(ts) <= Len(us)
         /\ Agree(ts, us, b)
    BY <1>1, <1>2, <2>4, <2>6, <2>7, <2>8
  <2>12. /\ \A i \in 1 .. Len(ks) : ks[i].possible => i \in 1 .. Len(keys) - 1 /\ keys[i] = ks[i]
         /\ \A i \in 1 .. Len(keys) : keys[i].possible => keys[i].mark.line <= line
         /\ \A j \in b + 1 .. Len(us) : us[j].kind = "Comment" =>
              line <= us[j].line \/ \E i \in b + 1 .. Len(ts) : ts[i] = us[j]
    BY <2>4, <2>9, <2>10
  <2>13. v.tokens = us /\ v.tokens_parsed = p /\ v.mark = s.mark /\ v.simple_keys = ks
    BY <2>3, <2>4, <2>5 DEF SameButKeys
  <2> HIDE DEF ks, us, ts, p, line, keys, b
  <2>14. Keyed(us, p, ks)
    <3>1. Shed(keys, ks) /\ Above(keys, line) /\ Renewed(ts, us, b, line)
      BY <2>12 DEF Shed, Above, Renewed
    <3>2. QED
      BY <2>11, <3>1, KeyFound
  <2>15. Steady(v)
    BY <2>5, <2>13, <2>14 DEF Steady
  <2>16. QED
    BY <2>1, <2>13, <2>15, AllowSteady
<1>5. QED
  BY <1>3, <1>4

LEMMA ValueOfComplexKeySteady ==
  ASSUME NEW s, Steady(s), NEW at \in Marks, at.line = s.mark.line
  PROVE  Steady(ValueOfComplexKey(s, at)) /\ ValueOfComplexKey(s, at).mark = s.mark
<1> DEFINE p == Push(s, "FlowMappingStart", s.mark)
           r == IF s.implicit_flow_mapping THEN p ELSE s
           t == RollIndent(r, at.col, NextNumber(r), "BlockMappingStart", at)
           u == RollOneCol(t)
<1>1. s \in State /\ s.mark \in Marks /\ s.mark.line \in Nat /\ at.col \in Nat
  BY SteadySound DEF Marks
<1>2. "FlowMappingStart" \in Content /\ "BlockMappingStart" \in Content
  BY DEF Content, Kinds, Openers
<1>3. ValueOfComplexKey(s, at) \in {DisallowKey(r), Failed(s), AllowKey(u)}
  BY DEF ValueOfComplexKey
<1>4. Steady(p) /\ p.mark = s.mark
  BY <1>1, <1>2, PushSteady, FlagMarks
<1> HIDE DEF p
<1>5. Steady(r) /\ r.mark = s.mark
  BY <1>4
<1> HIDE DEF r
<1>6. Steady(t) /\ t.mark = s.mark
  <2>1. at.line <= r.mark.line
    BY <1>1, <1>5
  <2>2. QED
    BY <1>1, <1>2, <1>5, <2>1, RollIndentGrows
<1> HIDE DEF t
<1>7. Steady(u) /\ u.mark = s.mark
  BY <1>6, SteadySound, RollOneColQuiet, SteadyQuiet DEF SameButIndents
<1> HIDE DEF u
<1>8. Failed(s).mark = s.mark
  BY <1>1 DEF Failed, State, Scanners
<1>9. QED
  BY <1>3, <1>5, <1>7, <1>8, AllowSteady

LEMMA ValueSteady ==
  ASSUME NEW s, Steady(s), Near(s), NEW w, NEW r \in Value(s, w)
  PROVE  Steady(r.to)
<1> DEFINE width == IF w = ":" THEN 2 ELSE 1
           a == Past(s, width)
           x == s.flow_level > 0 /\ ~s.flow_mapping_started
           b == [a EXCEPT !.implicit_flow_mapping = x]
           c == ValueOfSimpleKey(b, s.mark)
           d == ValueOfComplexKey(b, s.mark)
           t == IF Last(s.simple_keys).possible THEN c ELSE d
<1>1. r.to = Push(t, "Value", s.mark)
  <2>1. \E next : r = Result(Push(t, "Value", s.mark), next)
    BY Zenon DEF Value
  <2> HIDE DEF t
  <2>2. QED
    BY <2>1 DEF Result
<1>2. /\ s \in State /\ s.mark \in Marks /\ s.mark.line \in Nat
  BY SteadySound
<1>3. width \in Nat /\ x \in BOOLEAN
  OBVIOUS
<1> HIDE DEF width, x
<1>4. SameQueue(s, a) /\ a.mark.line = s.mark.line /\ a \in State
  BY <1>2, <1>3, PastKept, StateKept
<1> HIDE DEF a
<1>5. SameQueue(a, b) /\ b.mark = a.mark
  BY <1>2, <1>3, <1>4, SetFlags
<1> HIDE DEF b
<1>6. Steady(b) /\ b.mark.line = s.mark.line
  BY <1>4, <1>5, SteadySame
<1>7. Near(b) /\ b.simple_keys = s.simple_keys
  BY <1>4, <1>5, <1>6 DEF Near, SameQueue
<1>8. Last(s.simple_keys).possible => Steady(c) /\ c.mark = b.mark
  BY <1>2, <1>6, <1>7, ValueOfSimpleKeySteady
<1>9. Steady(d) /\ d.mark = b.mark
  BY <1>2, <1>6, ValueOfComplexKeySteady
<1> HIDE DEF c, d
<1>10. Steady(t) /\ t.mark.line = s.mark.line
  BY <1>6, <1>8, <1>9
<1> HIDE DEF t
<1>11. "Value" \in Content
  BY DEF Content, Kinds
<1>12. QED
  BY <1>1, <1>2, <1>10, <1>11, PushSteady

(***************************************************************************)
(* The end of the stream.                                                  *)
(***************************************************************************)
AllTokens == [kind : Kinds, line : Nat, col : Nat]

\* The end of the stream is queued, behind everything else and with no key left, until it
\* is delivered.
Finished(s) ==
  /\ s \in Scanners(Seq(AllTokens)) /\ s.stream_start_produced
  /\ Len(s.simple_keys) = s.flow_level + 1 /\ Rising(s)
  /\ \A i \in 1 .. Len(s.simple_keys) : ~s.simple_keys[i].possible
  /\ Ordered(s.tokens, s.mark.line)
  /\ \A i \in 1 .. Len(s.tokens) : s.tokens[i].kind = "StreamEnd" <=> i = Len(s.tokens)
  /\ s.tokens = <<>> => s.stream_end_produced

LEMMA ErrorsKept ==
  ASSUME NEW s \in State, s.error
  PROVE  /\ \A col : UnrollIndent(s, col).error
         /\ \A gone : Forget(s, gone).error
         /\ DisallowKey(s).error
         /\ \A kind, at : Push(s, kind, at).error
<1>1. ASSUME NEW col
      PROVE  UnrollIndent(s, col).error
  <2> DEFINE n == Kept(s, col)
             ends == Cardinality({i \in n + 1 .. Len(s.indents) : s.indents[i].needs_block_end})
             new == [i \in 1 .. ends |-> Token("BlockEnd", s.mark)]
             t == [Closed(s, n) EXCEPT !.tokens = @ \o new]
  <2>1. UnrollIndent(s, col) = IF s.flow_level > 0 THEN s ELSE t
    BY DEF UnrollIndent
  <2> HIDE DEF n, new
  <2>2. t.error
    BY DEF Closed, State, Scanners
  <2> HIDE DEF t
  <2>3. QED
    BY <2>1, <2>2
<1>2. ASSUME NEW gone
      PROVE  Forget(s, gone).error
  <2> DEFINE ks == [i \in DOMAIN s.simple_keys |->
                      IF i \in gone THEN [s.simple_keys[i] EXCEPT !.possible = FALSE]
                                    ELSE s.simple_keys[i]]
  <2>1. Forget(s, gone) \in {Failed(s), [s EXCEPT !.simple_keys = ks]}
    BY DEF Forget
  <2> HIDE DEF ks
  <2>2. Failed(s).error /\ [s EXCEPT !.simple_keys = ks].error
    BY DEF Failed, State, Scanners
  <2>3. QED
    BY <2>1, <2>2
<1>3. DisallowKey(s).error
  BY DEF DisallowKey, State, Scanners
<1>4. ASSUME NEW kind, NEW at
      PROVE  Push(s, kind, at).error
  <2> DEFINE ts == Append(s.tokens, Token(kind, at))
  <2>1. Push(s, kind, at) = [s EXCEPT !.tokens = ts]
    BY DEF Push
  <2> HIDE DEF ts
  <2>2. QED
    BY <2>1 DEF State, Scanners
<1>5. QED
  BY <1>1, <1>2, <1>3, <1>4

LEMMA EndQueued ==
  ASSUME NEW s, Steady(s), \A i \in 1 .. Len(s.simple_keys) : ~s.simple_keys[i].possible
  PROVE  Finished(Push(s, "StreamEnd", s.mark))
<1> DEFINE tok == Token("StreamEnd", s.mark)
           ts == s.tokens
           us == Append(ts, tok)
           t == [s EXCEPT !.tokens = us]
<1>1. /\ s \in State /\ s.mark \in Marks /\ s.mark.line \in Nat /\ ts \in Seq(Tokens)
      /\ Sound(s) /\ Len(ts) \in Nat
  BY SteadySound, Fields
<1>2. Push(s, "StreamEnd", s.mark) = t
  BY DEF Push
<1>3. tok \in AllTokens /\ tok.kind = "StreamEnd" /\ tok.line = s.mark.line
  BY <1>1 DEF Token, AllTokens, Kinds, Marks
<1> HIDE DEF tok
<1>4. ts \in Seq(AllTokens)
  <2>1. \A x \in Tokens : x \in AllTokens
    BY DEF Tokens, AllTokens
  <2> HIDE DEF ts
  <2>2. QED
    BY <1>1, <2>1
<1>5. us \in Seq(AllTokens) /\ Len(us) = Len(ts) + 1 /\ us[Len(us)] = tok
  BY <1>3, <1>4
<1>6. \A i \in 1 .. Len(ts) : us[i] = ts[i]
  BY <1>3, <1>4
<1> HIDE DEF us, ts
<1>7. t \in Scanners(Seq(AllTokens)) /\ t.tokens = us /\ SameButTokens(s, t)
  BY <1>1, <1>5, WithTokens DEF State
<1> HIDE DEF t
<1>8. \A i \in 1 .. Len(us) : us[i].kind = "StreamEnd" <=> i = Len(us)
  <2> SUFFICES ASSUME NEW i \in 1 .. Len(us)
               PROVE  us[i].kind = "StreamEnd" <=> i = Len(us)
    OBVIOUS
  <2>1. CASE i = Len(us)
    BY <1>3, <1>5, <2>1
  <2>2. CASE i # Len(us)
    <3>1. i \in 1 .. Len(ts)
      BY <1>1, <1>5, <2>2
    <3>2. ts[i].kind # "StreamEnd"
      BY <1>1, <3>1, TokenFields
    <3>3. QED
      BY <1>6, <2>2, <3>1, <3>2
  <2>3. QED
    BY <2>1, <2>2
<1>9. Ordered(us, s.mark.line)
  <2>0. Ordered(ts, s.mark.line)
    BY <1>1 DEF Sound, ts
  <2> SUFFICES ASSUME NEW j \in 1 .. Len(us)
               PROVE  /\ us[j].line <= s.mark.line
                      /\ us[j].kind = "Comment" => \A i \in 1 .. j - 1 : us[i].line <= us[j].line
    BY DEF Ordered
  <2>1. CASE j = Len(us)
    BY <1>1, <1>3, <1>5, <2>1
  <2>2. CASE j # Len(us)
    <3>1. j \in 1 .. Len(ts) /\ \A i \in 1 .. j - 1 : i \in 1 .. Len(ts)
      BY <1>1, <1>5, <2>2
    <3>2. QED
      BY <1>6, <2>0, <3>1 DEF Ordered
  <2>3. QED
    BY <2>1, <2>2
<1>10. t.tokens # <<>>
  BY <1>1, <1>5, <1>7
<1>11. Rising(t)
  BY <1>1, <1>7, StillRising DEF SameButTokens, Sound
<1>12. Finished(t)
  BY <1>1, <1>7, <1>8, <1>9, <1>10, <1>11 DEF Finished, SameButTokens, Sound
<1>13. QED
  BY <1>2, <1>12

LEMMA StreamEndFinished ==
  ASSUME NEW s, Steady(s), NEW w, NEW r \in StreamEnd(s, w)
  PROVE  r.to.error \/ Finished(r.to)
<1> DEFINE at == [line |-> s.mark.line + 1, col |-> 0]
           a == IF s.mark.col = 0 THEN s ELSE MoveTo(s, at)
           f == Forget(a, DOMAIN a.simple_keys)
           g == UnrollIndent(f, -1)
           h == RemoveSimpleKey(g)
           k == DisallowKey(h)
<1>1. r.to = Push(k, "StreamEnd", h.mark)
  BY DEF StreamEnd, Result
<1>2. s \in State /\ s.mark.line \in Nat
  BY SteadySound
<1>3. at \in Marks /\ s.mark.line <= at.line
  BY <1>2 DEF Marks
<1> HIDE DEF at
<1>4. Steady(a)
  BY <1>2, <1>3, MoveKept, SteadySame
<1> HIDE DEF a
<1>5. Sound(a) /\ a.simple_keys \in Seq(SimpleKeys)
  BY <1>4, SteadySound, Fields
<1>6. /\ Steady(f) /\ Len(f.simple_keys) = Len(a.simple_keys)
      /\ f.error \/ \A i \in 1 .. Len(a.simple_keys) : ~f.simple_keys[i].possible
  <2> DEFINE gone == DOMAIN a.simple_keys
  <2>1. gone = 1 .. Len(a.simple_keys)
    BY <1>5
  <2>2. f = Forget(a, gone)
    OBVIOUS
  <2> HIDE DEF gone, f
  <2>3. /\ Quiet(a, f) /\ Len(f.simple_keys) = Len(a.simple_keys)
        /\ f.error \/ \A i \in 1 .. Len(a.simple_keys) :
                        IF i \in gone THEN ~f.simple_keys[i].possible
                                      ELSE f.simple_keys[i] = a.simple_keys[i]
    BY <1>5, <2>2, ForgetQuiet
  <2>4. QED
    BY <1>4, <2>1, <2>3, SteadyQuiet
<1> HIDE DEF f
<1>7. Steady(g) /\ g.simple_keys = f.simple_keys
  BY <1>6, UnrollIndentSteady
<1>8. f.error => g.error
  BY <1>6, SteadySound, ErrorsKept
<1> HIDE DEF g
<1>9. Steady(h) /\ Fewer(g.simple_keys, h.simple_keys)
  <2>1. Sound(g)
    BY <1>7, SteadySound
  <2>2. Quiet(g, h)
    BY <2>1, ForgetQuiet DEF RemoveSimpleKey
  <2> HIDE DEF h
  <2>3. QED
    BY <1>7, <2>2, SteadyQuiet DEF Quiet, Grows, After
<1>10. g.error => h.error
  BY <1>7, SteadySound, ErrorsKept DEF RemoveSimpleKey
<1> HIDE DEF h
<1>11. Steady(k) /\ k.mark = h.mark /\ k.simple_keys = h.simple_keys
  BY <1>9, SteadySound, AllowSteady, FlagsKept DEF SameQueue
<1>12. h.error => k.error
  BY <1>9, SteadySound, ErrorsKept
<1> HIDE DEF k
<1>13. CASE f.error
  <2>1. k \in State /\ k.error
    BY <1>8, <1>10, <1>11, <1>12, <1>13, SteadySound
  <2>2. QED
    BY <1>1, <2>1, ErrorsKept
<1>14. CASE ~f.error
  <2>1. \A i \in 1 .. Len(k.simple_keys) : ~k.simple_keys[i].possible
    BY <1>6, <1>7, <1>9, <1>11, <1>14 DEF Fewer
  <2>2. QED
    BY <1>1, <1>11, <2>1, EndQueued
<1>15. QED
  BY <1>13, <1>14

(***************************************************************************)
(* The inductive invariant.                                                *)
(***************************************************************************)
\* Before the start of the stream.
Fresh(s) ==
  /\ s \in State /\ ~s.stream_start_produced
  /\ s.tokens = <<>> /\ s.simple_keys = <<>> /\ s.indents = <<>>
  /\ s.indent = -1 /\ s.flow_level = 0

IInv ==
  /\ text \in Texts /\ left \in Nat
  /\ Fresh(scanner) \/ Steady(scanner) \/ Finished(scanner)

LEMMA Starts == Init => IInv
<1> SUFFICES ASSUME Init PROVE IInv
  OBVIOUS
<1>1. text \in Texts /\ left \in Nat
  BY ScannerConstants DEF Init
<1>2. Start \in Marks
  BY DEF Start, Marks
<1>3. <<>> \in Seq(Tokens) /\ <<>> \in Seq(SimpleKeys) /\ <<>> \in Seq(Indents)
  OBVIOUS
<1>4. scanner \in State
  <2> DEFINE ts == Seq(Tokens)
             ks == Seq(SimpleKeys)
             ds == Seq(Indents)
             none == <<>>
  <2>1. none \in ts /\ none \in ks /\ none \in ds
    BY <1>3
  <2>2. scanner = [mark |-> Start, tokens |-> none, tokens_parsed |-> 0,
                   simple_key_allowed |-> TRUE, simple_keys |-> none,
                   indent |-> -1, indents |-> none, flow_level |-> 0,
                   adjacent_value_allowed_at |-> Start,
                   flow_mapping_started |-> FALSE, implicit_flow_mapping |-> FALSE,
                   stream_start_produced |-> FALSE, stream_end_produced |-> FALSE,
                   error |-> FALSE]
    BY DEF Init
  <2> HIDE DEF none
  <2>3. QED
    BY <1>2, <2>1, <2>2 DEF State, Scanners
<1>5. Fresh(scanner)
  BY <1>4 DEF Init, Fresh
<1>6. QED
  BY <1>1, <1>5 DEF IInv

\* What a fetch function meets.
LEMMA FoundSteady ==
  ASSUME Steady(scanner), text \in Texts, NEW w, NEW gap \in Gaps(Checked, w)
  PROVE  Steady(Found(gap)) /\ (Found(gap).error \/ Near(Found(gap)))
<1> DEFINE a == Skip(Checked, gap)
           b == StaleSimpleKeys(a)
           c == UnrollIndent(b, gap.at.col)
<1>1. Steady(Checked)
  BY SteadySound, ForgetQuiet, SteadyQuiet DEF Checked, StaleSimpleKeys
<1>2. Passes(Checked, gap)
  BY <1>1, SteadySound, GapsPass
<1>3. Steady(a)
  BY <1>1, <1>2, SteadySound, SkipQuiet, SteadyQuiet
<1>4. Found(gap) = IF b.error THEN b ELSE c
  BY DEF Found
<1> HIDE DEF a
<1>5. /\ a \in State /\ Sound(a) /\ a.mark.line \in Nat
      /\ a.simple_keys \in Seq(SimpleKeys) /\ Len(a.simple_keys) \in Nat
  BY <1>3, SteadySound, Fields, KeyFields
<1>6. /\ Quiet(a, b) /\ b.mark = a.mark /\ b.flow_level = a.flow_level
      /\ Len(b.simple_keys) = Len(a.simple_keys)
      /\ b.error \/ \A i \in 1 .. Len(a.simple_keys) :
                      IF i \in Stale(a) THEN ~b.simple_keys[i].possible
                                        ELSE b.simple_keys[i] = a.simple_keys[i]
  BY <1>5, ForgetQuiet DEF StaleSimpleKeys
<1> HIDE DEF b
<1>7. Steady(b)
  BY <1>3, <1>6, SteadyQuiet
<1>8. b.error \/ Near(b)
  <2> SUFFICES ASSUME ~b.error, b.flow_level = 0,
                      NEW i \in 1 .. Len(b.simple_keys), b.simple_keys[i].possible
               PROVE  b.mark.line <= b.simple_keys[i].mark.line
    BY DEF Near
  <2>1. i \in 1 .. Len(a.simple_keys) /\ i \notin Stale(a)
        /\ b.simple_keys[i] = a.simple_keys[i]
    BY <1>6
  <2>2. a.simple_keys[i].mark.line \in Nat /\ i \in DOMAIN a.simple_keys
    BY <1>5, <2>1, KeyFields
  <2>3. ~(a.simple_keys[i].mark.line < a.mark.line)
    BY <1>6, <2>1, <2>2 DEF Stale
  <2>4. QED
    BY <1>5, <1>6, <2>1, <2>2, <2>3
<1>9. /\ Steady(c) /\ c.mark = b.mark /\ c.simple_keys = b.simple_keys
      /\ c.flow_level = b.flow_level
  <2>1. gap.at.col \in Nat \cup {-1}
    BY <1>2 DEF Passes, Marks
  <2>2. QED
    BY <1>7, <2>1, UnrollIndentSteady
<1> HIDE DEF c
<1>10. b.error \/ Near(c)
  BY <1>8, <1>9 DEF Near
<1>11. QED
  BY <1>4, <1>7, <1>9, <1>10

\* Words are fetched only after the start and before the end of the stream.
LEMMA FetchingSteady ==
  ASSUME IInv, Calling, scanner.stream_start_produced, NeedMore(Checked)
  PROVE  Steady(scanner)
<1>1. CASE Fresh(scanner)
  BY <1>1 DEF Fresh
<1>2. CASE Finished(scanner)
  <2> DEFINE keys == scanner.simple_keys
  <2>1. scanner.tokens # <<>>
    BY <1>2 DEF Finished, Calling
  <2>2. keys \in Seq(SimpleKeys) /\ \A i \in DOMAIN keys : ~keys[i].possible
    BY <1>2 DEF Finished, Scanners
  <2>3. Stale(scanner) = {}
    BY <2>2 DEF Stale
  <2> DEFINE ks == [i \in DOMAIN keys |->
                      IF i \in Stale(scanner) THEN [keys[i] EXCEPT !.possible = FALSE] ELSE keys[i]]
  <2>4. Checked = [scanner EXCEPT !.simple_keys = ks]
    BY <2>1, <2>3 DEF Checked, StaleSimpleKeys, Forget
  <2>5. ks = keys
    BY <2>2, <2>3
  <2> HIDE DEF ks
  <2>6. Checked.tokens = scanner.tokens /\ Checked.simple_keys = keys
    BY <1>2, <2>4, <2>5 DEF Finished, Scanners
  <2>7. QED
    BY <2>1, <2>2, <2>6 DEF NeedMore
<1>3. QED
  BY <1>1, <1>2 DEF IInv

(***************************************************************************)
(* Every fetch keeps the invariant.                                        *)
(***************************************************************************)
LEMMA FetchKeeps ==
  ASSUME IInv, Steady(scanner), text' = text, left' = left \/ (left' = left - 1 /\ left > 0),
         scanner' = Failed(scanner) \/ Steady(scanner') \/ Finished(scanner')
  PROVE  IInv'
<1>1. Steady(Failed(scanner))
  BY AllowSteady
<1>2. text' \in Texts /\ left' \in Nat
  BY DEF IInv
<1>3. Steady(scanner') \/ Finished(scanner')
  BY <1>1
<1>4. Steady(scanner)' \/ Finished(scanner)'
  BY <1>3
<1>5. QED
  BY <1>2, <1>4 DEF IInv

LEMMA FlowCollectionStartFetched == IInv /\ FetchFlowCollectionStart => IInv'
<1> SUFFICES ASSUME IInv, FetchFlowCollectionStart PROVE IInv'
  OBVIOUS
<1>1. PICK w \in {"[", "{"} : Fetch(w, FlowCollectionStart)
  BY DEF FetchFlowCollectionStart
<1>2. /\ Calling /\ scanner.stream_start_produced /\ NeedMore(Checked)
      /\ text' = text /\ (left' = left \/ (left' = left - 1 /\ left > 0))
      /\ \E gap \in Gaps(Checked, w) : \E r \in Fetched(Found(gap), w, FlowCollectionStart) :
           scanner' = Failed(scanner) \/ (~r.to.error /\ scanner' = r.to)
  BY <1>1 DEF Fetch
<1>3. Steady(scanner) /\ text \in Texts
  BY <1>2, FetchingSteady DEF IInv
<1>4. PICK gap \in Gaps(Checked, w) : \E r \in Fetched(Found(gap), w, FlowCollectionStart) :
        scanner' = Failed(scanner) \/ (~r.to.error /\ scanner' = r.to)
  BY <1>2
<1>5. PICK r \in Fetched(Found(gap), w, FlowCollectionStart) :
        scanner' = Failed(scanner) \/ (~r.to.error /\ scanner' = r.to)
  BY <1>4
<1> DEFINE s == Found(gap)
<1>6. Steady(s) /\ (s.error \/ Near(s))
  BY <1>3, FoundSteady
<1>7. r \in Error(s) \/ (~s.error /\ r \in FlowCollectionStart(s, w))
  BY DEF Fetched
<1> HIDE DEF s
<1>8. r.to.error \/ Steady(r.to) \/ Finished(r.to)
  BY <1>3, <1>6, <1>7, ErrorSteady, FlowCollectionStartSteady
<1>9. scanner' = Failed(scanner) \/ Steady(scanner') \/ Finished(scanner')
  BY <1>5, <1>8
<1>10. QED
  BY <1>2, <1>3, <1>9, FetchKeeps

LEMMA FlowCollectionEndFetched == IInv /\ FetchFlowCollectionEnd => IInv'
<1> SUFFICES ASSUME IInv, FetchFlowCollectionEnd PROVE IInv'
  OBVIOUS
<1>1. PICK w \in {"]", "}"} : Fetch(w, FlowCollectionEnd)
  BY DEF FetchFlowCollectionEnd
<1>2. /\ Calling /\ scanner.stream_start_produced /\ NeedMore(Checked)
      /\ text' = text /\ (left' = left \/ (left' = left - 1 /\ left > 0))
      /\ \E gap \in Gaps(Checked, w) : \E r \in Fetched(Found(gap), w, FlowCollectionEnd) :
           scanner' = Failed(scanner) \/ (~r.to.error /\ scanner' = r.to)
  BY <1>1 DEF Fetch
<1>3. Steady(scanner) /\ text \in Texts
  BY <1>2, FetchingSteady DEF IInv
<1>4. PICK gap \in Gaps(Checked, w) : \E r \in Fetched(Found(gap), w, FlowCollectionEnd) :
        scanner' = Failed(scanner) \/ (~r.to.error /\ scanner' = r.to)
  BY <1>2
<1>5. PICK r \in Fetched(Found(gap), w, FlowCollectionEnd) :
        scanner' = Failed(scanner) \/ (~r.to.error /\ scanner' = r.to)
  BY <1>4
<1> DEFINE s == Found(gap)
<1>6. Steady(s) /\ (s.error \/ Near(s))
  BY <1>3, FoundSteady
<1>7. r \in Error(s) \/ (~s.error /\ r \in FlowCollectionEnd(s, w))
  BY DEF Fetched
<1> HIDE DEF s
<1>8. r.to.error \/ Steady(r.to) \/ Finished(r.to)
  BY <1>3, <1>6, <1>7, ErrorSteady, FlowCollectionEndSteady
<1>9. scanner' = Failed(scanner) \/ Steady(scanner') \/ Finished(scanner')
  BY <1>5, <1>8
<1>10. QED
  BY <1>2, <1>3, <1>9, FetchKeeps

LEMMA FlowEntryFetched == IInv /\ FetchFlowEntry => IInv'
<1> SUFFICES ASSUME IInv, FetchFlowEntry PROVE IInv'
  OBVIOUS
<1>1. PICK w \in {","} : Fetch(w, FlowEntry)
  BY DEF FetchFlowEntry
<1>2. /\ Calling /\ scanner.stream_start_produced /\ NeedMore(Checked)
      /\ text' = text /\ (left' = left \/ (left' = left - 1 /\ left > 0))
      /\ \E gap \in Gaps(Checked, w) : \E r \in Fetched(Found(gap), w, FlowEntry) :
           scanner' = Failed(scanner) \/ (~r.to.error /\ scanner' = r.to)
  BY <1>1 DEF Fetch
<1>3. Steady(scanner) /\ text \in Texts
  BY <1>2, FetchingSteady DEF IInv
<1>4. PICK gap \in Gaps(Checked, w) : \E r \in Fetched(Found(gap), w, FlowEntry) :
        scanner' = Failed(scanner) \/ (~r.to.error /\ scanner' = r.to)
  BY <1>2
<1>5. PICK r \in Fetched(Found(gap), w, FlowEntry) :
        scanner' = Failed(scanner) \/ (~r.to.error /\ scanner' = r.to)
  BY <1>4
<1> DEFINE s == Found(gap)
<1>6. Steady(s) /\ (s.error \/ Near(s))
  BY <1>3, FoundSteady
<1>7. r \in Error(s) \/ (~s.error /\ r \in FlowEntry(s, w))
  BY DEF Fetched
<1> HIDE DEF s
<1>8. r.to.error \/ Steady(r.to) \/ Finished(r.to)
  BY <1>3, <1>6, <1>7, ErrorSteady, FlowEntrySteady
<1>9. scanner' = Failed(scanner) \/ Steady(scanner') \/ Finished(scanner')
  BY <1>5, <1>8
<1>10. QED
  BY <1>2, <1>3, <1>9, FetchKeeps

LEMMA BlockEntryFetched == IInv /\ FetchBlockEntry => IInv'
<1> SUFFICES ASSUME IInv, FetchBlockEntry PROVE IInv'
  OBVIOUS
<1>1. PICK w \in {"-"} : Fetch(w, BlockEntry)
  BY DEF FetchBlockEntry
<1>2. /\ Calling /\ scanner.stream_start_produced /\ NeedMore(Checked)
      /\ text' = text /\ (left' = left \/ (left' = left - 1 /\ left > 0))
      /\ \E gap \in Gaps(Checked, w) : \E r \in Fetched(Found(gap), w, BlockEntry) :
           scanner' = Failed(scanner) \/ (~r.to.error /\ scanner' = r.to)
  BY <1>1 DEF Fetch
<1>3. Steady(scanner) /\ text \in Texts
  BY <1>2, FetchingSteady DEF IInv
<1>4. PICK gap \in Gaps(Checked, w) : \E r \in Fetched(Found(gap), w, BlockEntry) :
        scanner' = Failed(scanner) \/ (~r.to.error /\ scanner' = r.to)
  BY <1>2
<1>5. PICK r \in Fetched(Found(gap), w, BlockEntry) :
        scanner' = Failed(scanner) \/ (~r.to.error /\ scanner' = r.to)
  BY <1>4
<1> DEFINE s == Found(gap)
<1>6. Steady(s) /\ (s.error \/ Near(s))
  BY <1>3, FoundSteady
<1>7. r \in Error(s) \/ (~s.error /\ r \in BlockEntry(s, w))
  BY DEF Fetched
<1> HIDE DEF s
<1>8. r.to.error \/ Steady(r.to) \/ Finished(r.to)
  BY <1>3, <1>6, <1>7, ErrorSteady, BlockEntrySteady
<1>9. scanner' = Failed(scanner) \/ Steady(scanner') \/ Finished(scanner')
  BY <1>5, <1>8
<1>10. QED
  BY <1>2, <1>3, <1>9, FetchKeeps

LEMMA KeyFetched == IInv /\ FetchKey => IInv'
<1> SUFFICES ASSUME IInv, FetchKey PROVE IInv'
  OBVIOUS
<1>1. PICK w \in {"?"} : Fetch(w, Key)
  BY DEF FetchKey
<1>2. /\ Calling /\ scanner.stream_start_produced /\ NeedMore(Checked)
      /\ text' = text /\ (left' = left \/ (left' = left - 1 /\ left > 0))
      /\ \E gap \in Gaps(Checked, w) : \E r \in Fetched(Found(gap), w, Key) :
           scanner' = Failed(scanner) \/ (~r.to.error /\ scanner' = r.to)
  BY <1>1 DEF Fetch
<1>3. Steady(scanner) /\ text \in Texts
  BY <1>2, FetchingSteady DEF IInv
<1>4. PICK gap \in Gaps(Checked, w) : \E r \in Fetched(Found(gap), w, Key) :
        scanner' = Failed(scanner) \/ (~r.to.error /\ scanner' = r.to)
  BY <1>2
<1>5. PICK r \in Fetched(Found(gap), w, Key) :
        scanner' = Failed(scanner) \/ (~r.to.error /\ scanner' = r.to)
  BY <1>4
<1> DEFINE s == Found(gap)
<1>6. Steady(s) /\ (s.error \/ Near(s))
  BY <1>3, FoundSteady
<1>7. r \in Error(s) \/ (~s.error /\ r \in Key(s, w))
  BY DEF Fetched
<1> HIDE DEF s
<1>8. r.to.error \/ Steady(r.to) \/ Finished(r.to)
  BY <1>3, <1>6, <1>7, ErrorSteady, KeySteady
<1>9. scanner' = Failed(scanner) \/ Steady(scanner') \/ Finished(scanner')
  BY <1>5, <1>8
<1>10. QED
  BY <1>2, <1>3, <1>9, FetchKeeps

LEMMA ValueFetched == IInv /\ FetchValue => IInv'
<1> SUFFICES ASSUME IInv, FetchValue PROVE IInv'
  OBVIOUS
<1>1. PICK w \in {":", "glued"} : Fetch(w, Value)
  BY DEF FetchValue
<1>2. /\ Calling /\ scanner.stream_start_produced /\ NeedMore(Checked)
      /\ text' = text /\ (left' = left \/ (left' = left - 1 /\ left > 0))
      /\ \E gap \in Gaps(Checked, w) : \E r \in Fetched(Found(gap), w, Value) :
           scanner' = Failed(scanner) \/ (~r.to.error /\ scanner' = r.to)
  BY <1>1 DEF Fetch
<1>3. Steady(scanner) /\ text \in Texts
  BY <1>2, FetchingSteady DEF IInv
<1>4. PICK gap \in Gaps(Checked, w) : \E r \in Fetched(Found(gap), w, Value) :
        scanner' = Failed(scanner) \/ (~r.to.error /\ scanner' = r.to)
  BY <1>2
<1>5. PICK r \in Fetched(Found(gap), w, Value) :
        scanner' = Failed(scanner) \/ (~r.to.error /\ scanner' = r.to)
  BY <1>4
<1> DEFINE s == Found(gap)
<1>6. Steady(s) /\ (s.error \/ Near(s))
  BY <1>3, FoundSteady
<1>7. r \in Error(s) \/ (~s.error /\ r \in Value(s, w))
  BY DEF Fetched
<1> HIDE DEF s
<1>8. r.to.error \/ Steady(r.to) \/ Finished(r.to)
  BY <1>3, <1>6, <1>7, ErrorSteady, ValueSteady
<1>9. scanner' = Failed(scanner) \/ Steady(scanner') \/ Finished(scanner')
  BY <1>5, <1>8
<1>10. QED
  BY <1>2, <1>3, <1>9, FetchKeeps

LEMMA PropertyFetched == IInv /\ FetchProperty => IInv'
<1> SUFFICES ASSUME IInv, FetchProperty PROVE IInv'
  OBVIOUS
<1>1. PICK w \in {"anchor", "alias", "tag"} : Fetch(w, Property)
  BY DEF FetchProperty
<1>2. /\ Calling /\ scanner.stream_start_produced /\ NeedMore(Checked)
      /\ text' = text /\ (left' = left \/ (left' = left - 1 /\ left > 0))
      /\ \E gap \in Gaps(Checked, w) : \E r \in Fetched(Found(gap), w, Property) :
           scanner' = Failed(scanner) \/ (~r.to.error /\ scanner' = r.to)
  BY <1>1 DEF Fetch
<1>3. Steady(scanner) /\ text \in Texts
  BY <1>2, FetchingSteady DEF IInv
<1>4. PICK gap \in Gaps(Checked, w) : \E r \in Fetched(Found(gap), w, Property) :
        scanner' = Failed(scanner) \/ (~r.to.error /\ scanner' = r.to)
  BY <1>2
<1>5. PICK r \in Fetched(Found(gap), w, Property) :
        scanner' = Failed(scanner) \/ (~r.to.error /\ scanner' = r.to)
  BY <1>4
<1> DEFINE s == Found(gap)
<1>6. Steady(s) /\ (s.error \/ Near(s))
  BY <1>3, FoundSteady
<1>7. r \in Error(s) \/ (~s.error /\ r \in Property(s, w))
  BY DEF Fetched
<1> HIDE DEF s
<1>8. r.to.error \/ Steady(r.to) \/ Finished(r.to)
  BY <1>3, <1>6, <1>7, ErrorSteady, PropertySteady
<1>9. scanner' = Failed(scanner) \/ Steady(scanner') \/ Finished(scanner')
  BY <1>5, <1>8
<1>10. QED
  BY <1>2, <1>3, <1>9, FetchKeeps

LEMMA BlockScalarFetched == IInv /\ FetchBlockScalar => IInv'
<1> SUFFICES ASSUME IInv, FetchBlockScalar PROVE IInv'
  OBVIOUS
<1>1. PICK w \in {"block"} : Fetch(w, BlockScalar)
  BY DEF FetchBlockScalar
<1>2. /\ Calling /\ scanner.stream_start_produced /\ NeedMore(Checked)
      /\ text' = text /\ (left' = left \/ (left' = left - 1 /\ left > 0))
      /\ \E gap \in Gaps(Checked, w) : \E r \in Fetched(Found(gap), w, BlockScalar) :
           scanner' = Failed(scanner) \/ (~r.to.error /\ scanner' = r.to)
  BY <1>1 DEF Fetch
<1>3. Steady(scanner) /\ text \in Texts
  BY <1>2, FetchingSteady DEF IInv
<1>4. PICK gap \in Gaps(Checked, w) : \E r \in Fetched(Found(gap), w, BlockScalar) :
        scanner' = Failed(scanner) \/ (~r.to.error /\ scanner' = r.to)
  BY <1>2
<1>5. PICK r \in Fetched(Found(gap), w, BlockScalar) :
        scanner' = Failed(scanner) \/ (~r.to.error /\ scanner' = r.to)
  BY <1>4
<1> DEFINE s == Found(gap)
<1>6. Steady(s) /\ (s.error \/ Near(s))
  BY <1>3, FoundSteady
<1>7. r \in Error(s) \/ (~s.error /\ r \in BlockScalar(s, w))
  BY DEF Fetched
<1> HIDE DEF s
<1>8. r.to.error \/ Steady(r.to) \/ Finished(r.to)
  BY <1>3, <1>6, <1>7, ErrorSteady, BlockScalarSteady
<1>9. scanner' = Failed(scanner) \/ Steady(scanner') \/ Finished(scanner')
  BY <1>5, <1>8
<1>10. QED
  BY <1>2, <1>3, <1>9, FetchKeeps

LEMMA PlainScalarFetched == IInv /\ FetchPlainScalar => IInv'
<1> SUFFICES ASSUME IInv, FetchPlainScalar PROVE IInv'
  OBVIOUS
<1>1. PICK w \in {"plain"} : Fetch(w, PlainScalar)
  BY DEF FetchPlainScalar
<1>2. /\ Calling /\ scanner.stream_start_produced /\ NeedMore(Checked)
      /\ text' = text /\ (left' = left \/ (left' = left - 1 /\ left > 0))
      /\ \E gap \in Gaps(Checked, w) : \E r \in Fetched(Found(gap), w, PlainScalar) :
           scanner' = Failed(scanner) \/ (~r.to.error /\ scanner' = r.to)
  BY <1>1 DEF Fetch
<1>3. Steady(scanner) /\ text \in Texts
  BY <1>2, FetchingSteady DEF IInv
<1>4. PICK gap \in Gaps(Checked, w) : \E r \in Fetched(Found(gap), w, PlainScalar) :
        scanner' = Failed(scanner) \/ (~r.to.error /\ scanner' = r.to)
  BY <1>2
<1>5. PICK r \in Fetched(Found(gap), w, PlainScalar) :
        scanner' = Failed(scanner) \/ (~r.to.error /\ scanner' = r.to)
  BY <1>4
<1> DEFINE s == Found(gap)
<1>6. Steady(s) /\ (s.error \/ Near(s))
  BY <1>3, FoundSteady
<1>7. r \in Error(s) \/ (~s.error /\ r \in PlainScalar(s, w))
  BY DEF Fetched
<1> HIDE DEF s
<1>8. r.to.error \/ Steady(r.to) \/ Finished(r.to)
  BY <1>3, <1>6, <1>7, ErrorSteady, PlainScalarSteady
<1>9. scanner' = Failed(scanner) \/ Steady(scanner') \/ Finished(scanner')
  BY <1>5, <1>8
<1>10. QED
  BY <1>2, <1>3, <1>9, FetchKeeps

LEMMA FlowScalarFetched == IInv /\ FetchFlowScalar => IInv'
<1> SUFFICES ASSUME IInv, FetchFlowScalar PROVE IInv'
  OBVIOUS
<1>1. PICK w \in {"quoted"} : Fetch(w, QuotedScalar)
  BY DEF FetchFlowScalar
<1>2. /\ Calling /\ scanner.stream_start_produced /\ NeedMore(Checked)
      /\ text' = text /\ (left' = left \/ (left' = left - 1 /\ left > 0))
      /\ \E gap \in Gaps(Checked, w) : \E r \in Fetched(Found(gap), w, QuotedScalar) :
           scanner' = Failed(scanner) \/ (~r.to.error /\ scanner' = r.to)
  BY <1>1 DEF Fetch
<1>3. Steady(scanner) /\ text \in Texts
  BY <1>2, FetchingSteady DEF IInv
<1>4. PICK gap \in Gaps(Checked, w) : \E r \in Fetched(Found(gap), w, QuotedScalar) :
        scanner' = Failed(scanner) \/ (~r.to.error /\ scanner' = r.to)
  BY <1>2
<1>5. PICK r \in Fetched(Found(gap), w, QuotedScalar) :
        scanner' = Failed(scanner) \/ (~r.to.error /\ scanner' = r.to)
  BY <1>4
<1> DEFINE s == Found(gap)
<1>6. Steady(s) /\ (s.error \/ Near(s))
  BY <1>3, FoundSteady
<1>7. r \in Error(s) \/ (~s.error /\ r \in QuotedScalar(s, w))
  BY DEF Fetched
<1> HIDE DEF s
<1>8. r.to.error \/ Steady(r.to) \/ Finished(r.to)
  BY <1>3, <1>6, <1>7, ErrorSteady, QuotedScalarSteady
<1>9. scanner' = Failed(scanner) \/ Steady(scanner') \/ Finished(scanner')
  BY <1>5, <1>8
<1>10. QED
  BY <1>2, <1>3, <1>9, FetchKeeps

LEMMA DocumentIndicatorFetched == IInv /\ FetchDocumentIndicator => IInv'
<1> SUFFICES ASSUME IInv, FetchDocumentIndicator PROVE IInv'
  OBVIOUS
<1>1. PICK w \in {"---", "..."} : Fetch(w, Marker)
  BY DEF FetchDocumentIndicator
<1>2. /\ Calling /\ scanner.stream_start_produced /\ NeedMore(Checked)
      /\ text' = text /\ (left' = left \/ (left' = left - 1 /\ left > 0))
      /\ \E gap \in Gaps(Checked, w) : \E r \in Fetched(Found(gap), w, Marker) :
           scanner' = Failed(scanner) \/ (~r.to.error /\ scanner' = r.to)
  BY <1>1 DEF Fetch
<1>3. Steady(scanner) /\ text \in Texts
  BY <1>2, FetchingSteady DEF IInv
<1>4. PICK gap \in Gaps(Checked, w) : \E r \in Fetched(Found(gap), w, Marker) :
        scanner' = Failed(scanner) \/ (~r.to.error /\ scanner' = r.to)
  BY <1>2
<1>5. PICK r \in Fetched(Found(gap), w, Marker) :
        scanner' = Failed(scanner) \/ (~r.to.error /\ scanner' = r.to)
  BY <1>4
<1> DEFINE s == Found(gap)
<1>6. Steady(s) /\ (s.error \/ Near(s))
  BY <1>3, FoundSteady
<1>7. r \in Error(s) \/ (~s.error /\ r \in Marker(s, w))
  BY DEF Fetched
<1> HIDE DEF s
<1>8. r.to.error \/ Steady(r.to) \/ Finished(r.to)
  BY <1>3, <1>6, <1>7, ErrorSteady, MarkerSteady
<1>9. scanner' = Failed(scanner) \/ Steady(scanner') \/ Finished(scanner')
  BY <1>5, <1>8
<1>10. QED
  BY <1>2, <1>3, <1>9, FetchKeeps

LEMMA DirectiveFetched == IInv /\ FetchDirective => IInv'
<1> SUFFICES ASSUME IInv, FetchDirective PROVE IInv'
  OBVIOUS
<1>1. PICK w \in {"%"} : Fetch(w, Directive)
  BY DEF FetchDirective
<1>2. /\ Calling /\ scanner.stream_start_produced /\ NeedMore(Checked)
      /\ text' = text /\ (left' = left \/ (left' = left - 1 /\ left > 0))
      /\ \E gap \in Gaps(Checked, w) : \E r \in Fetched(Found(gap), w, Directive) :
           scanner' = Failed(scanner) \/ (~r.to.error /\ scanner' = r.to)
  BY <1>1 DEF Fetch
<1>3. Steady(scanner) /\ text \in Texts
  BY <1>2, FetchingSteady DEF IInv
<1>4. PICK gap \in Gaps(Checked, w) : \E r \in Fetched(Found(gap), w, Directive) :
        scanner' = Failed(scanner) \/ (~r.to.error /\ scanner' = r.to)
  BY <1>2
<1>5. PICK r \in Fetched(Found(gap), w, Directive) :
        scanner' = Failed(scanner) \/ (~r.to.error /\ scanner' = r.to)
  BY <1>4
<1> DEFINE s == Found(gap)
<1>6. Steady(s) /\ (s.error \/ Near(s))
  BY <1>3, FoundSteady
<1>7. r \in Error(s) \/ (~s.error /\ r \in Directive(s, w))
  BY DEF Fetched
<1> HIDE DEF s
<1>8. r.to.error \/ Steady(r.to) \/ Finished(r.to)
  BY <1>3, <1>6, <1>7, ErrorSteady, DirectiveSteady
<1>9. scanner' = Failed(scanner) \/ Steady(scanner') \/ Finished(scanner')
  BY <1>5, <1>8
<1>10. QED
  BY <1>2, <1>3, <1>9, FetchKeeps

LEMMA StreamEndFetched == IInv /\ FetchStreamEnd => IInv'
<1> SUFFICES ASSUME IInv, FetchStreamEnd PROVE IInv'
  OBVIOUS
<1>1. PICK w \in {"end"} : Fetch(w, StreamEnd)
  BY DEF FetchStreamEnd
<1>2. /\ Calling /\ scanner.stream_start_produced /\ NeedMore(Checked)
      /\ text' = text /\ (left' = left \/ (left' = left - 1 /\ left > 0))
      /\ \E gap \in Gaps(Checked, w) : \E r \in Fetched(Found(gap), w, StreamEnd) :
           scanner' = Failed(scanner) \/ (~r.to.error /\ scanner' = r.to)
  BY <1>1 DEF Fetch
<1>3. Steady(scanner) /\ text \in Texts
  BY <1>2, FetchingSteady DEF IInv
<1>4. PICK gap \in Gaps(Checked, w) : \E r \in Fetched(Found(gap), w, StreamEnd) :
        scanner' = Failed(scanner) \/ (~r.to.error /\ scanner' = r.to)
  BY <1>2
<1>5. PICK r \in Fetched(Found(gap), w, StreamEnd) :
        scanner' = Failed(scanner) \/ (~r.to.error /\ scanner' = r.to)
  BY <1>4
<1> DEFINE s == Found(gap)
<1>6. Steady(s) /\ (s.error \/ Near(s))
  BY <1>3, FoundSteady
<1>7. r \in Error(s) \/ (~s.error /\ r \in StreamEnd(s, w))
  BY DEF Fetched
<1> HIDE DEF s
<1>8. r.to.error \/ Steady(r.to) \/ Finished(r.to)
  BY <1>3, <1>6, <1>7, ErrorSteady, StreamEndFinished
<1>9. scanner' = Failed(scanner) \/ Steady(scanner') \/ Finished(scanner')
  BY <1>5, <1>8
<1>10. QED
  BY <1>2, <1>3, <1>9, FetchKeeps

LEMMA GarbageFetched == IInv /\ FetchGarbage => IInv'
<1> SUFFICES ASSUME IInv, FetchGarbage PROVE IInv'
  OBVIOUS
<1>1. PICK w \in {"garbage"} : Fetch(w, Garbage)
  BY DEF FetchGarbage
<1>2. /\ Calling /\ scanner.stream_start_produced /\ NeedMore(Checked)
      /\ text' = text /\ (left' = left \/ (left' = left - 1 /\ left > 0))
      /\ \E gap \in Gaps(Checked, w) : \E r \in Fetched(Found(gap), w, Garbage) :
           scanner' = Failed(scanner) \/ (~r.to.error /\ scanner' = r.to)
  BY <1>1 DEF Fetch
<1>3. Steady(scanner) /\ text \in Texts
  BY <1>2, FetchingSteady DEF IInv
<1>4. PICK gap \in Gaps(Checked, w) : \E r \in Fetched(Found(gap), w, Garbage) :
        scanner' = Failed(scanner) \/ (~r.to.error /\ scanner' = r.to)
  BY <1>2
<1>5. PICK r \in Fetched(Found(gap), w, Garbage) :
        scanner' = Failed(scanner) \/ (~r.to.error /\ scanner' = r.to)
  BY <1>4
<1> DEFINE s == Found(gap)
<1>6. Steady(s) /\ (s.error \/ Near(s))
  BY <1>3, FoundSteady
<1>7. r \in Error(s) \/ (~s.error /\ r \in Garbage(s, w))
  BY DEF Fetched
<1> HIDE DEF s
<1>8. r.to.error \/ Steady(r.to) \/ Finished(r.to)
  BY <1>6, <1>7, ErrorSteady DEF Garbage
<1>9. scanner' = Failed(scanner) \/ Steady(scanner') \/ Finished(scanner')
  BY <1>5, <1>8
<1>10. QED
  BY <1>2, <1>3, <1>9, FetchKeeps

(***************************************************************************)
(* The other actions.                                                      *)
(***************************************************************************)
LEMMA StreamStarted == IInv /\ FetchStreamStart => IInv'
<1> SUFFICES ASSUME IInv, FetchStreamStart PROVE IInv'
  OBVIOUS
<1> DEFINE s == scanner
           a == AllowKey(s)
           tok == Token("StreamStart", s.mark)
           ts == <<tok>>
           keys == <<NoKey>>
           t == [[a EXCEPT !.tokens = ts] EXCEPT !.stream_start_produced = TRUE, !.simple_keys = keys]
<1>1. Fresh(s)
  BY DEF IInv, FetchStreamStart, Steady, Sound, Finished
<1>2. s \in State /\ s.mark \in Marks /\ s.mark.line \in Nat
  BY <1>1, Fields DEF Fresh
<1>3. SameQueue(s, a) /\ a.mark = s.mark /\ a \in State
  BY <1>2, FlagsKept, FlagMarks, StateKept
<1>4. s.tokens = <<>> /\ s.simple_keys = <<>>
  BY <1>1 DEF Fresh
<1>5. scanner' = t
  <2>1. scanner' = [Push(a, "StreamStart", s.mark) EXCEPT
                      !.stream_start_produced = TRUE, !.simple_keys = Append(@, NoKey)]
    BY DEF FetchStreamStart
  <2>2. Append(a.tokens, tok) = ts
    BY <1>3, <1>4 DEF SameQueue
  <2>3. Append(a.simple_keys, NoKey) = keys
    BY <1>3, <1>4 DEF SameQueue
  <2>4. Push(a, "StreamStart", s.mark) = [a EXCEPT !.tokens = ts]
    BY <2>2 DEF Push
  <2> DEFINE p == [a EXCEPT !.tokens = ts]
  <2> HIDE DEF tok, ts
  <2>5. p.simple_keys = a.simple_keys
    BY <1>3 DEF State, Scanners
  <2>6. QED
    BY <2>1, <2>3, <2>4, <2>5
<1>6. tok \in Tokens /\ tok.kind = "StreamStart" /\ tok.line = s.mark.line
  BY <1>2, TokenType DEF Content, Kinds, Token
<1> HIDE DEF tok
<1>7. ts \in Seq(Tokens) /\ Len(ts) = 1 /\ ts[1] = tok
  BY <1>6
<1>8. NoKey \in SimpleKeys /\ ~NoKey.possible
  BY DEF NoKey, SimpleKeys, Marks
<1>9. keys \in Seq(SimpleKeys) /\ Len(keys) = 1 /\ keys[1] = NoKey
  BY <1>8
<1> HIDE DEF ts, keys
<1> HIDE DEF a
<1>10. t \in State
  BY <1>3, <1>7, <1>9 DEF State, Scanners
<1>11. /\ t.tokens = ts /\ t.simple_keys = keys /\ t.stream_start_produced
       /\ t.mark = a.mark /\ t.indent = a.indent /\ t.indents = a.indents
       /\ t.flow_level = a.flow_level /\ t.tokens_parsed = a.tokens_parsed
  BY <1>3 DEF State, Scanners
<1> HIDE DEF t
<1>12. /\ t.mark = s.mark /\ t.indent = -1 /\ t.indents = <<>> /\ t.flow_level = 0
  BY <1>1, <1>3, <1>11 DEF Fresh, SameQueue
<1>13. Rising(t)
  BY <1>12 DEF Rising, Level
<1>a. \A i \in 1 .. 1 : i = 1 /\ 1 .. i - 1 = {}
  OBVIOUS
<1>b. ts[1].line <= s.mark.line
  BY <1>2, <1>6, <1>7
<1>14. Ordered(t.tokens, t.mark.line)
  BY <1>7, <1>11, <1>12, <1>a, <1>b DEF Ordered
<1>15. \A i \in 1 .. Len(t.simple_keys) : ~t.simple_keys[i].possible
  BY <1>8, <1>9, <1>11, <1>a
<1>16. Len(t.simple_keys) = t.flow_level + 1
  BY <1>9, <1>11, <1>12
<1>17. Sound(t)
  BY <1>10, <1>11, <1>13, <1>14, <1>15, <1>16 DEF Sound, Passed
<1>18. Steady(t)
  BY <1>15, <1>17 DEF Steady, Keyed
<1>19. Steady(scanner)'
  BY <1>5, <1>18
<1>20. QED
  BY <1>19 DEF IInv, FetchStreamStart

LEMMA StaleFound == IInv /\ StaleKeyIsRequired => IInv'
<1> SUFFICES ASSUME IInv, StaleKeyIsRequired PROVE IInv'
  OBVIOUS
<1>1. scanner' = Failed(scanner) /\ text' = text /\ left' = left
  BY DEF StaleKeyIsRequired
<1>2. CASE Fresh(scanner)
  <2>1. Checked = scanner /\ ~scanner.error
    BY <1>2 DEF Fresh, Checked, StaleKeyIsRequired, Calling
  <2>2. QED
    BY <2>1 DEF StaleKeyIsRequired
<1>3. CASE Steady(scanner)
  BY <1>1, <1>3, FetchKeeps
<1>4. CASE Finished(scanner)
  <2>1. \A i \in Stale(scanner) : ~scanner.simple_keys[i].possible
    BY <1>4 DEF Stale, Finished, Scanners
  <2> DEFINE ks == [i \in DOMAIN scanner.simple_keys |->
                      IF i \in Stale(scanner)
                      THEN [scanner.simple_keys[i] EXCEPT !.possible = FALSE]
                      ELSE scanner.simple_keys[i]]
  <2>2. Checked \in {scanner, [scanner EXCEPT !.simple_keys = ks]}
    BY <2>1 DEF Checked, StaleSimpleKeys, Forget
  <2> HIDE DEF ks
  <2>3. Checked.error = scanner.error
    BY <1>4, <2>2 DEF Finished, Scanners
  <2>4. QED
    BY <2>3 DEF StaleKeyIsRequired, Calling
<1>5. QED
  BY <1>2, <1>3, <1>4 DEF IInv

\* What stays in order when the head of the queue is delivered.
LEMMA OrderedTail ==
  ASSUME NEW T, NEW ts \in Seq(T), ts # <<>>, NEW line, Ordered(ts, line)
  PROVE  /\ Tail(ts) \in Seq(T) /\ Len(Tail(ts)) = Len(ts) - 1
         /\ \A i \in 1 .. Len(ts) - 1 : Tail(ts)[i] = ts[i + 1]
         /\ Ordered(Tail(ts), line)
<1> DEFINE us == Tail(ts)
<1>1. us \in Seq(T) /\ Len(us) = Len(ts) - 1 /\ Len(ts) \in Nat
  OBVIOUS
<1>2. \A i \in 1 .. Len(ts) - 1 : us[i] = ts[i + 1]
  OBVIOUS
<1> HIDE DEF us
<1>3. ASSUME NEW j \in 1 .. Len(us)
      PROVE  /\ us[j].line <= line
             /\ us[j].kind = "Comment" => \A i \in 1 .. j - 1 : us[i].line <= us[j].line
  <2>1. j + 1 \in 1 .. Len(ts) /\ us[j] = ts[j + 1]
    BY <1>1, <1>2
  <2>2. ts[j + 1].line <= line
    BY <2>1 DEF Ordered
  <2>3. ASSUME us[j].kind = "Comment", NEW i \in 1 .. j - 1
        PROVE  us[i].line <= us[j].line
    <3>1. i + 1 \in 1 .. (j + 1) - 1 /\ us[i] = ts[i + 1]
      BY <1>1, <1>2
    <3>2. QED
      BY <2>1, <2>3, <3>1 DEF Ordered
  <2>4. QED
    BY <2>1, <2>2, <2>3
<1>4. QED
  BY <1>1, <1>2, <1>3 DEF Ordered, us

LEMMA Delivered == IInv /\ Deliver => IInv'
<1> SUFFICES ASSUME IInv, Deliver PROVE IInv'
  OBVIOUS
<1> DEFINE c == Checked
           ends == Head(scanner.tokens).kind = "StreamEnd"
           t == [c EXCEPT !.tokens = Tail(@), !.tokens_parsed = @ + 1,
                          !.stream_end_produced = ends]
<1>1. /\ Calling /\ scanner.tokens # <<>> /\ ~c.error /\ ~NeedMore(c)
      /\ scanner' = t /\ text' = text /\ left' = left
  BY DEF Deliver
<1>2. text' \in Texts /\ left' \in Nat
  BY <1>1 DEF IInv
<1>3. ends \in BOOLEAN
  OBVIOUS
<1>4. CASE Steady(scanner)
  <2>1. Steady(c) /\ c.tokens = scanner.tokens
    BY <1>1, <1>4, SteadySound, ForgetQuiet, SteadyQuiet DEF Checked, StaleSimpleKeys
  <2> HIDE DEF c, ends
  <2> DEFINE ts == c.tokens
             us == Tail(ts)
             keys == c.simple_keys
             p == c.tokens_parsed
  <2>2. /\ c \in State /\ Sound(c) /\ ts \in Seq(Tokens) /\ keys \in Seq(SimpleKeys)
        /\ p \in Nat /\ ts # <<>> /\ Keyed(ts, p, keys) /\ Ordered(ts, c.mark.line)
    BY <1>1, <2>1, SteadySound, Fields DEF Sound, Steady
  <2>3. us \in Seq(Tokens) /\ Ordered(us, c.mark.line)
    BY <2>2, OrderedTail
  <2>4. \A i \in 1 .. Len(keys) : keys[i].possible => keys[i].token_number # p
    BY <1>1, <2>2 DEF NeedMore
  <2>5. Keyed(us, p + 1, keys)
    BY <2>2, <2>4, TokenDelivered
  <2> HIDE DEF us
  <2>6. t = [c EXCEPT !.tokens = us, !.tokens_parsed = p + 1, !.stream_end_produced = ends]
    BY DEF us
  <2> HIDE DEF t
  <2>7. p + 1 \in Nat
    BY <2>2
  <2>8. t \in State
    BY <1>3, <2>2, <2>3, <2>6, <2>7 DEF State, Scanners
  <2>9. /\ t.tokens = us /\ t.tokens_parsed = p + 1 /\ t.simple_keys = keys
        /\ t.mark = c.mark /\ t.indent = c.indent /\ t.indents = c.indents
        /\ t.flow_level = c.flow_level /\ t.stream_start_produced = c.stream_start_produced
    BY <2>2, <2>6 DEF State, Scanners
  <2>10. Rising(t)
    BY <2>2, <2>9, StillRising DEF Sound
  <2>11. Sound(t)
    BY <2>2, <2>3, <2>8, <2>9, <2>10 DEF Sound, Passed
  <2>12. Steady(t)
    BY <2>5, <2>9, <2>11 DEF Steady
  <2>13. Steady(scanner)'
    BY <1>1, <2>12
  <2>14. QED
    BY <1>2, <2>13 DEF IInv
<1>5. CASE Finished(scanner)
  <2> DEFINE keys == scanner.simple_keys
             ks == [i \in DOMAIN keys |->
                      IF i \in Stale(scanner) THEN [keys[i] EXCEPT !.possible = FALSE] ELSE keys[i]]
             ts == scanner.tokens
             us == Tail(ts)
             n == Len(ts)
  <2>1. /\ keys \in Seq(SimpleKeys) /\ \A i \in DOMAIN keys : ~keys[i].possible
        /\ ts \in Seq(AllTokens) /\ n \in Nat /\ ts # <<>>
    BY <1>1, <1>5 DEF Finished, Scanners
  <2>2. Stale(scanner) = {}
    BY <2>1 DEF Stale
  <2>3. c = [scanner EXCEPT !.simple_keys = ks]
    BY <1>1, <2>2 DEF Checked, StaleSimpleKeys, Forget
  <2>4. ks = keys
    BY <2>1, <2>2
  <2> HIDE DEF ks
  <2>5. c = scanner
    BY <1>5, <2>3, <2>4 DEF Finished, Scanners
  <2>6. us \in Seq(AllTokens) /\ Ordered(us, scanner.mark.line) /\ Len(us) = n - 1
        /\ \A i \in 1 .. n - 1 : us[i] = ts[i + 1]
    BY <1>5, <2>1, OrderedTail DEF Finished
  <2>7. \A i \in 1 .. n : ts[i].kind = "StreamEnd" <=> i = n
    BY <1>5 DEF Finished
  <2>8. \A i \in 1 .. Len(us) : us[i].kind = "StreamEnd" <=> i = Len(us)
    <3> SUFFICES ASSUME NEW i \in 1 .. Len(us)
                 PROVE  us[i].kind = "StreamEnd" <=> i = Len(us)
      OBVIOUS
    <3>1. i + 1 \in 1 .. n /\ us[i] = ts[i + 1] /\ (i = Len(us) <=> i + 1 = n)
      BY <2>1, <2>6
    <3>2. QED
      BY <2>7, <3>1
  <2>9. us = <<>> => ends
    <3> SUFFICES ASSUME us = <<>> PROVE ends
      OBVIOUS
    <3>0. Len(us) = 0 /\ Len(us) = n - 1
      BY <2>6
    <3>1. n = 1
      BY <2>1, <3>0
    <3>2. ts[1].kind = "StreamEnd"
      BY <2>7, <3>1
    <3>3. QED
      BY <2>1, <3>2
  <2> HIDE DEF us, ends
  <2>10. t = [scanner EXCEPT !.tokens = us, !.tokens_parsed = @ + 1, !.stream_end_produced = ends]
    BY <2>5 DEF us
  <2> HIDE DEF t
  <2> DEFINE p == scanner.tokens_parsed + 1
  <2>a. p \in Nat /\ ends \in BOOLEAN
    BY <1>3, <1>5 DEF Finished, Scanners
  <2>b. t = [scanner EXCEPT !.tokens = us, !.tokens_parsed = p, !.stream_end_produced = ends]
    BY <2>10
  <2> HIDE DEF p
  <2>c. us \in Seq(AllTokens) /\ scanner \in Scanners(Seq(AllTokens))
    BY <1>5, <2>6 DEF Finished
  <2>11. t \in Scanners(Seq(AllTokens))
    BY <2>a, <2>b, <2>c DEF Scanners
  <2>12. /\ t.tokens = us /\ t.simple_keys = keys /\ t.stream_end_produced = ends
         /\ t.mark = scanner.mark /\ t.indent = scanner.indent /\ t.indents = scanner.indents
         /\ t.flow_level = scanner.flow_level
         /\ t.stream_start_produced = scanner.stream_start_produced
    BY <1>5, <2>10 DEF Finished, Scanners
  <2>13. Rising(t)
    BY <1>5, <2>12, StillRising DEF Finished
  <2>14. Finished(t)
    BY <1>5, <2>6, <2>8, <2>9, <2>11, <2>12, <2>13 DEF Finished
  <2>15. Finished(scanner)'
    BY <1>1, <2>14
  <2>16. QED
    BY <1>2, <2>15 DEF IInv
<1>6. CASE Fresh(scanner)
  BY <1>1, <1>6 DEF Fresh
<1>7. QED
  BY <1>4, <1>5, <1>6 DEF IInv

LEMMA Keeps == IInv /\ [Next]_vars => IInv'
<1> SUFFICES ASSUME IInv, [Next]_vars PROVE IInv'
  OBVIOUS
<1>1. CASE FetchStreamStart
  BY <1>1, StreamStarted
<1>2. CASE FetchStreamEnd
  BY <1>2, StreamEndFetched
<1>3. CASE FetchFlowCollectionStart
  BY <1>3, FlowCollectionStartFetched
<1>4. CASE FetchFlowCollectionEnd
  BY <1>4, FlowCollectionEndFetched
<1>5. CASE FetchFlowEntry
  BY <1>5, FlowEntryFetched
<1>6. CASE FetchBlockEntry
  BY <1>6, BlockEntryFetched
<1>7. CASE FetchKey
  BY <1>7, KeyFetched
<1>8. CASE FetchValue
  BY <1>8, ValueFetched
<1>9. CASE FetchProperty
  BY <1>9, PropertyFetched
<1>10. CASE FetchBlockScalar
  BY <1>10, BlockScalarFetched
<1>11. CASE FetchPlainScalar
  BY <1>11, PlainScalarFetched
<1>12. CASE FetchFlowScalar
  BY <1>12, FlowScalarFetched
<1>13. CASE FetchDocumentIndicator
  BY <1>13, DocumentIndicatorFetched
<1>14. CASE FetchDirective
  BY <1>14, DirectiveFetched
<1>15. CASE FetchGarbage
  BY <1>15, GarbageFetched
<1>16. CASE StaleKeyIsRequired
  BY <1>16, StaleFound
<1>17. CASE Deliver
  BY <1>17, Delivered
<1>18. CASE UNCHANGED vars
  BY <1>18 DEF vars, IInv
<1>19. QED
  BY <1>1, <1>2, <1>3, <1>4, <1>5, <1>6, <1>7, <1>8, <1>9, <1>10, <1>11, <1>12, <1>13,
     <1>14, <1>15, <1>16, <1>17, <1>18 DEF Next

LEMMA Invariance == Spec => []IInv
<1>1. QED
  BY Starts, Keeps, PTL DEF Spec

(***************************************************************************)
(* What the invariant says.                                                *)
(***************************************************************************)
LEMMA ScannerTyped ==
  ASSUME IInv
  PROVE  /\ scanner \in Scanners(Seq(AllTokens))
         /\ Rising(scanner)
         /\ scanner.stream_start_produced => Len(scanner.simple_keys) = scanner.flow_level + 1
         /\ \E line : Ordered(scanner.tokens, line)
<1>1. \A x \in Seq(Tokens) : x \in Seq(AllTokens)
  <2>1. \A x \in Tokens : x \in AllTokens
    BY DEF Tokens, AllTokens
  <2>2. QED
    BY <2>1
<1>2. \A s : s \in State => s \in Scanners(Seq(AllTokens))
  <2> DEFINE T == Seq(Tokens)
             U == Seq(AllTokens)
  <2>1. \A x \in T : x \in U
    BY <1>1
  <2> HIDE DEF T, U
  <2>2. \A s : s \in Scanners(T) => s \in Scanners(U)
    BY <2>1 DEF Scanners
  <2>3. QED
    BY <2>2 DEF T, U, State
<1>3. CASE Fresh(scanner)
  <2>1. Rising(scanner)
    BY <1>3 DEF Fresh, Rising, Level
  <2>2. Ordered(scanner.tokens, 0)
    BY <1>3 DEF Fresh, Ordered
  <2>3. QED
    BY <1>2, <1>3, <2>1, <2>2 DEF Fresh
<1>4. CASE Steady(scanner)
  BY <1>2, <1>4 DEF Steady, Sound
<1>5. CASE Finished(scanner)
  BY <1>5 DEF Finished
<1>6. QED
  BY <1>3, <1>4, <1>5 DEF IInv

\* What leads to a token leads to it in the words of the property.
LEMMA LeadsToIt ==
  ASSUME NEW ts, NEW n, NEW at, Leads(ts, n, Len(ts), at)
  PROVE  LeadsTo(ts, n, at)
BY DEF Leads, LeadsTo, Comments

LEMMA KeysLead == IInv => KeysAreQueued
<1> SUFFICES ASSUME IInv PROVE KeysAreQueued
  OBVIOUS
<1> DEFINE keys == scanner.simple_keys
           ts == scanner.tokens
           p == scanner.tokens_parsed
<1>1. /\ keys \in Seq(SimpleKeys) /\ ts \in Seq(AllTokens) /\ p \in Nat
      /\ DOMAIN keys = 1 .. Len(keys) /\ DOMAIN ts = 1 .. Len(ts)
  <2>1. keys \in Seq(SimpleKeys) /\ ts \in Seq(AllTokens) /\ p \in Nat
    BY ScannerTyped DEF Scanners
  <2> HIDE DEF keys, ts
  <2>2. QED
    BY <2>1
<1>2. ASSUME NEW i \in DOMAIN keys, keys[i].possible
      PROVE  /\ keys[i].token_number >= p
             /\ LeadsTo(ts, keys[i].token_number - p, keys[i].mark)
  <2>1. Steady(scanner)
    BY <1>1, <1>2 DEF IInv, Fresh, Finished
  <2>2. /\ keys[i].token_number - p \in 0 .. Len(ts)
        /\ Leads(ts, keys[i].token_number - p, Len(ts), keys[i].mark)
    BY <1>1, <1>2, <2>1 DEF Steady, Keyed
  <2>3. keys[i].token_number \in Nat
    BY <1>1, KeyFields
  <2>4. keys[i].token_number >= p
    BY <1>1, <2>2, <2>3
  <2>5. QED
    BY <2>2, <2>4, LeadsToIt
<1>3. ASSUME NEW i \in DOMAIN ts, ts[i].kind = "StreamEnd"
      PROVE  i = Len(ts) /\ \A k \in DOMAIN keys : ~keys[k].possible
  <2>1. CASE Fresh(scanner)
    BY <1>1, <2>1 DEF Fresh
  <2>2. CASE Steady(scanner)
    <3>1. ts \in Seq(Tokens)
      BY <2>2, SteadySound, Fields
    <3>2. QED
      BY <1>1, <1>3, <3>1, TokenFields
  <2>3. CASE Finished(scanner)
    BY <1>1, <1>3, <2>3 DEF Finished
  <2>4. QED
    BY <2>1, <2>2, <2>3 DEF IInv
<1>4. QED
  BY <1>2, <1>3 DEF KeysAreQueued

LEMMA CommentsOrdered == IInv => CommentsInOrder
<1> SUFFICES ASSUME IInv PROVE CommentsInOrder
  OBVIOUS
<1> DEFINE ts == scanner.tokens
<1>1. PICK line : Ordered(ts, line)
  BY ScannerTyped
<1>2. ts \in Seq(AllTokens)
  BY ScannerTyped DEF Scanners
<1> HIDE DEF ts
<1>3. \A i, j \in DOMAIN ts : i < j => j \in 1 .. Len(ts) /\ i \in 1 .. j - 1
  BY <1>2
<1>4. QED
  BY <1>1, <1>3 DEF CommentsInOrder, Ordered, ts

(***************************************************************************)
(* The theorems.                                                           *)
(***************************************************************************)
\* struct Scanner keeps its types through every call of next_token: no mark, indentation
\* or token number leaves its range, whatever the text.
THEOREM TypeCorrect == Spec => []TypeOK
<1>1. IInv => TypeOK
  <2> SUFFICES ASSUME IInv PROVE TypeOK
    OBVIOUS
  <2>1. text \in Texts /\ left \in Nat
    BY DEF IInv
  <2>2. scanner \in Scanners(Seq(AllTokens))
    BY ScannerTyped
  <2>3. QED
    BY <2>1, <2>2
    DEF TypeOK, Scanners, AllTokens, SimpleKeys, Indents, Marks, Positions
<1>2. QED
  BY <1>1, Invariance, PTL

\* The stacks that the scanner unwraps agree at every step: a simple key per flow level
\* and one for the block, and indentations that deepen from level to level.
THEOREM StacksAgree == Spec => []StacksConsistent
<1>1. IInv => StacksConsistent
  BY ScannerTyped DEF StacksConsistent, Rising
<1>2. QED
  BY <1>1, Invariance, PTL

\* A simple key that is still possible finds the token it was saved for, or the comments
\* before it, whatever insert_token and next_token have done to the queue since.
THEOREM KeysStayQueued == Spec => []KeysAreQueued
<1>1. QED
  BY KeysLead, Invariance, PTL

\* No comment is queued behind a token of a later line, also when Key and the start of a
\* collection are inserted before tokens that wait.
THEOREM CommentsStayInOrder == Spec => []CommentsInOrder
<1>1. QED
  BY CommentsOrdered, Invariance, PTL

-----------------------------------------------------------------------------
\* Required keys: a node at the indentation of the open block mapping must become a key.

\* What the keys are looked at with: only fields, whatever the types of the others.
Scan(s) ==
  /\ {"mark", "tokens", "simple_keys", "flow_level", "error", "simple_key_allowed", "indent",
      "indents", "implicit_flow_mapping", "flow_mapping_started",
      "adjacent_value_allowed_at", "tokens_parsed"} \subseteq DOMAIN s
  /\ s.mark \in Marks /\ s.simple_keys \in Seq(SimpleKeys)
  /\ s.flow_level \in Nat /\ Len(s.simple_keys) = s.flow_level + 1

\* The mark moves on; the simple keys stay, and whether one may be saved may change.
Moves(s, t) ==
  /\ Scan(t) /\ t.simple_keys = s.simple_keys /\ t.flow_level = s.flow_level
  /\ t.error = s.error /\ s.mark.line <= t.mark.line

\* ... and whether one may be saved stays, too.
Onward(s, t) == Moves(s, t) /\ t.simple_key_allowed = s.simple_key_allowed

LEMMA SoundScan ==
  ASSUME NEW s, Sound(s)
  PROVE  Scan(s)
BY DEF State, Scanners, Sound, Scan

LEMMA ScanLine ==
  ASSUME NEW s, Scan(s)
  PROVE  s.mark.line \in Nat /\ s.mark.col \in Nat /\ s.mark \in Marks
BY DEF Scan, Marks

LEMMA OnwardSame ==
  ASSUME NEW s, Scan(s)
  PROVE  Onward(s, s)
<1>1. s.mark.line \in Nat
  BY ScanLine
<1>2. QED
  BY <1>1 DEF Onward, Moves

LEMMA MovesOn ==
  ASSUME NEW s, NEW t, NEW u, Scan(s), Moves(s, t), Moves(t, u)
  PROVE  /\ Moves(s, u)
         /\ t.simple_key_allowed = s.simple_key_allowed /\ u.simple_key_allowed = t.simple_key_allowed
              => Onward(s, u)
<1>1. s.mark.line \in Nat /\ t.mark.line \in Nat /\ u.mark.line \in Nat
  BY ScanLine DEF Moves
<1>2. QED
  BY <1>1 DEF Moves, Onward

LEMMA OnwardOn ==
  ASSUME NEW s, NEW t, NEW u, Scan(s), Onward(s, t), Onward(t, u)
  PROVE  Onward(s, u)
BY MovesOn DEF Onward

\* Tokens are queued.
LEMMA PushOnward ==
  ASSUME NEW s, Scan(s), NEW kind, NEW at
  PROVE  Onward(s, Push(s, kind, at))
<1> DEFINE ts == Append(s.tokens, Token(kind, at))
<1>0. s.mark.line \in Nat
  BY ScanLine
<1>1. Push(s, kind, at) = [s EXCEPT !.tokens = ts]
  BY DEF Push
<1> HIDE DEF ts
<1>2. QED
  BY <1>0, <1>1 DEF Scan, Onward, Moves

LEMMA InsertOnward ==
  ASSUME NEW s, Scan(s), NEW number, NEW kind, NEW at
  PROVE  Onward(s, Insert(s, number, kind, at))
<1> DEFINE ts == InsertAt(s.tokens, number - s.tokens_parsed + 1, Token(kind, at))
<1>0. s.mark.line \in Nat
  BY ScanLine
<1>1. Insert(s, number, kind, at) = [s EXCEPT !.tokens = ts]
  BY DEF Insert
<1> HIDE DEF ts
<1>2. QED
  BY <1>0, <1>1 DEF Scan, Onward, Moves

\* Indentation.
LEMMA ClosedOnward ==
  ASSUME NEW s, Scan(s), NEW n
  PROVE  Onward(s, Closed(s, n))
<1> DEFINE part == SubSeq(s.indents, 1, n)
           l == Level(s, n)
<1>0. s.mark.line \in Nat
  BY ScanLine
<1>1. Closed(s, n) = [s EXCEPT !.indent = l, !.indents = part]
  BY DEF Closed
<1> HIDE DEF part, l
<1>2. QED
  BY <1>0, <1>1 DEF Scan, Onward, Moves

LEMMA OpenedOnward ==
  ASSUME NEW s, Scan(s), NEW block, NEW indent
  PROVE  Onward(s, Opened(s, block, indent))
<1> DEFINE more == Append(s.indents, [indent |-> s.indent, needs_block_end |-> block])
<1>0. s.mark.line \in Nat
  BY ScanLine
<1>1. Opened(s, block, indent) = [s EXCEPT !.indents = more, !.indent = indent]
  BY DEF Opened
<1> HIDE DEF more
<1>2. QED
  BY <1>0, <1>1 DEF Scan, Onward, Moves

LEMMA RollOneColOnward ==
  ASSUME NEW s, Scan(s)
  PROVE  Onward(s, RollOneCol(s))
BY OnwardSame, OpenedOnward DEF RollOneCol

LEMMA UnrollNonBlockOnward ==
  ASSUME NEW s, Scan(s)
  PROVE  Onward(s, UnrollNonBlock(s))
BY OnwardSame, ClosedOnward DEF UnrollNonBlock

LEMMA RollIndentOnward ==
  ASSUME NEW s, Scan(s), NEW col, NEW number, NEW kind, NEW at
  PROVE  Onward(s, RollIndent(s, col, number, kind, at))
<1> DEFINE r == IF s.indent <= col THEN UnrollNonBlock(s) ELSE s
           o == Opened(r, TRUE, col)
           i == Insert(o, number, kind, at)
<1>1. RollIndent(s, col, number, kind, at) \in {s, r, i}
  BY Zenon DEF RollIndent
<1>2. Onward(s, s) /\ Onward(s, r)
  BY OnwardSame, UnrollNonBlockOnward
<1> HIDE DEF r
<1>3. Scan(r)
  BY <1>2 DEF Onward, Moves
<1>4. Onward(r, o)
  BY <1>3, OpenedOnward
<1> HIDE DEF o
<1>5. Scan(o)
  BY <1>4 DEF Onward, Moves
<1>6. Onward(o, i)
  BY <1>5, InsertOnward
<1> HIDE DEF i
<1>7. Onward(s, i)
  BY <1>2, <1>4, <1>6, <1>3, OnwardOn
<1>8. QED
  BY <1>1, <1>2, <1>7

LEMMA UnrollIndentOnward ==
  ASSUME NEW s, Scan(s), NEW col
  PROVE  Onward(s, UnrollIndent(s, col))
<1> DEFINE n == Kept(s, col)
           ends == Cardinality({i \in n + 1 .. Len(s.indents) : s.indents[i].needs_block_end})
           c == Closed(s, n)
           ts == c.tokens \o [i \in 1 .. ends |-> Token("BlockEnd", s.mark)]
           t == [c EXCEPT !.tokens = ts]
<1>1. UnrollIndent(s, col) = IF s.flow_level > 0 THEN s ELSE t
  BY DEF UnrollIndent
<1>2. Onward(s, c)
  BY ClosedOnward
<1> HIDE DEF c, ts
<1>3. Onward(c, t)
  <2>1. Scan(c)
    BY <1>2 DEF Onward, Moves
  <2>2. c.mark.line \in Nat
    BY <2>1, ScanLine
  <2>3. QED
    BY <2>1, <2>2 DEF Scan, Onward, Moves
<1> HIDE DEF t
<1>4. Onward(s, t)
  BY <1>2, <1>3, OnwardOn
<1>5. QED
  BY <1>1, <1>4, OnwardSame

LEMMA EndImplicitOnward ==
  ASSUME NEW s, Scan(s)
  PROVE  Onward(s, EndImplicitMapping(s))
<1> DEFINE r == [s EXCEPT !.implicit_flow_mapping = FALSE, !.flow_mapping_started = FALSE]
<1>0. s.mark.line \in Nat
  BY ScanLine
<1>1. EndImplicitMapping(s) = IF s.implicit_flow_mapping THEN Push(r, "FlowMappingEnd", s.mark) ELSE s
  BY DEF EndImplicitMapping
<1>2. Onward(s, r)
  BY <1>0 DEF Scan, Onward, Moves
<1> HIDE DEF r
<1>3. Onward(r, Push(r, "FlowMappingEnd", s.mark))
  BY <1>2, PushOnward DEF Onward, Moves
<1>4. Onward(s, Push(r, "FlowMappingEnd", s.mark))
  BY <1>2, <1>3, OnwardOn
<1>5. QED
  BY <1>1, <1>4, OnwardSame

\* The mark.
LEMMA MarkOnward ==
  ASSUME NEW s, Scan(s)
  PROVE  /\ \A at \in Marks : s.mark.line <= at.line => Onward(s, MoveTo(s, at)) /\ MoveTo(s, at).mark = at
         /\ \A width \in Nat : Onward(s, Past(s, width)) /\ Past(s, width).mark.line = s.mark.line
<1>1. ASSUME NEW at \in Marks, s.mark.line <= at.line
      PROVE  Onward(s, MoveTo(s, at)) /\ MoveTo(s, at).mark = at
  BY <1>1 DEF MoveTo, Scan, Onward, Moves
<1>2. ASSUME NEW width \in Nat
      PROVE  Onward(s, Past(s, width)) /\ Past(s, width).mark.line = s.mark.line
  <2> DEFINE at == [s.mark EXCEPT !.col = @ + width]
  <2>1. at \in Marks /\ at.line = s.mark.line
    BY DEF Scan, Marks
  <2>2. Past(s, width) = MoveTo(s, at)
    BY DEF Past, MoveTo
  <2> HIDE DEF at
  <2>3. s.mark.line \in Nat
    BY ScanLine
  <2>4. QED
    BY <1>1, <2>1, <2>2, <2>3
<1>3. QED
  BY <1>1, <1>2

\* Whether a key may be saved.
LEMMA AllowMoves ==
  ASSUME NEW s, Scan(s)
  PROVE  /\ Moves(s, AllowKey(s)) /\ AllowKey(s).mark = s.mark
         /\ Moves(s, DisallowKey(s)) /\ DisallowKey(s).mark = s.mark
         /\ DisallowKey(s).simple_key_allowed = FALSE
<1>0. s.mark.line \in Nat
  BY ScanLine
<1>1. Moves(s, AllowKey(s)) /\ AllowKey(s).mark = s.mark
  BY <1>0 DEF AllowKey, Moves, Scan
<1>2. /\ Moves(s, DisallowKey(s)) /\ DisallowKey(s).mark = s.mark
      /\ DisallowKey(s).simple_key_allowed = FALSE
  BY <1>0 DEF DisallowKey, Moves, Scan
<1>3. QED
  BY <1>1, <1>2

LEMMA SkipMoves ==
  ASSUME NEW s, Scan(s), NEW gap, Passes(s, gap)
  PROVE  /\ Moves(s, Skip(s, gap))
         /\ Skip(s, gap).simple_key_allowed =
              (s.simple_key_allowed \/ (Skip(s, gap).mark.line > s.mark.line /\ s.flow_level = 0))
<1> DEFINE us == s.tokens \o Notes(gap.notes)
           x == s.simple_key_allowed \/ (gap.at.line > s.mark.line /\ s.flow_level = 0)
           t == [s EXCEPT !.mark = gap.at, !.tokens = us, !.simple_key_allowed = x]
<1>1. Skip(s, gap) = t
  BY DEF Skip, MoveTo, Scan
<1> HIDE DEF us
<1>2. gap.at \in Marks /\ s.mark.line <= gap.at.line
  BY DEF Passes
<1>3. t.mark = gap.at /\ t.simple_key_allowed = x
  BY DEF Scan
<1>4. Moves(s, t)
  BY <1>2 DEF Moves, Scan
<1>5. QED
  BY <1>1, <1>3, <1>4

\* The simple key of a level is still possible and required.
Presses(s, i) == s.simple_keys[i].possible /\ s.simple_keys[i].required

\* Those keys of s are in t.
Held(s, t) ==
  \A i \in 1 .. Len(s.simple_keys) :
    Presses(s, i) => i \in 1 .. Len(t.simple_keys) /\ t.simple_keys[i] = s.simple_keys[i]

\* Only the block level has one, and the mark is not before it.
Outermost(s) ==
  \A i \in 1 .. Len(s.simple_keys) :
    Presses(s, i) => i = 1 /\ s.simple_keys[i].mark.line <= s.mark.line

\* A step that is still to clear its way gives no required key up.
Carries(s, t) == Scan(t) /\ (t.error \/ (Held(s, t) /\ Outermost(t)))

\* No key can be saved in its place.
Free(s) ==
  \A i \in 1 .. Len(s.simple_keys) :
    Presses(s, i) => ~(s.flow_level = 0 /\ s.simple_key_allowed)

\* No key can be saved in its place before it is found to be stale.
Due(s) ==
  \A i \in 1 .. Len(s.simple_keys) :
    Presses(s, i) =>
      /\ i = 1 /\ s.simple_keys[i].mark.line <= s.mark.line
      /\ s.flow_level = 0 /\ s.simple_key_allowed => s.simple_keys[i].mark.line < s.mark.line

LEMMA ScanKeys ==
  ASSUME NEW s, Scan(s)
  PROVE  /\ s.simple_keys \in Seq(SimpleKeys) /\ Len(s.simple_keys) \in Nat /\ s.flow_level \in Nat
         /\ Len(s.simple_keys) = s.flow_level + 1 /\ s.mark \in Marks
         /\ s.mark.line \in Nat /\ 1 \in 1 .. Len(s.simple_keys)
         /\ DOMAIN s.simple_keys = 1 .. Len(s.simple_keys)
         /\ Len(s.simple_keys) \in 1 .. Len(s.simple_keys)
         /\ \A i \in 1 .. Len(s.simple_keys) :
              s.simple_keys[i] \in SimpleKeys /\ s.simple_keys[i].mark.line \in Nat
<1>1. /\ s.simple_keys \in Seq(SimpleKeys) /\ s.flow_level \in Nat
      /\ Len(s.simple_keys) = s.flow_level + 1 /\ s.mark \in Marks /\ s.mark.line \in Nat
  BY ScanLine DEF Scan
<1>2. Len(s.simple_keys) \in Nat /\ 1 \in 1 .. Len(s.simple_keys)
      /\ Len(s.simple_keys) \in 1 .. Len(s.simple_keys)
      /\ DOMAIN s.simple_keys = 1 .. Len(s.simple_keys)
  BY <1>1
<1>3. QED
  BY <1>1, <1>2, KeyFields

LEMMA CarriesOn ==
  ASSUME NEW s, NEW t, NEW u, Carries(s, t), Moves(t, u)
  PROVE  Carries(s, u)
<1>1. Scan(t) /\ Scan(u) /\ u.simple_keys = t.simple_keys /\ u.error = t.error
      /\ t.mark.line <= u.mark.line
  BY DEF Carries, Moves
<1>2. t.mark.line \in Nat /\ u.mark.line \in Nat
      /\ \A i \in 1 .. Len(t.simple_keys) : t.simple_keys[i].mark.line \in Nat
  BY <1>1, ScanKeys
<1>3. Held(s, t) => Held(s, u)
  BY <1>1 DEF Held
<1>4. Outermost(t) => Outermost(u)
  BY <1>1, <1>2 DEF Outermost, Presses
<1>5. QED
  BY <1>1, <1>3, <1>4 DEF Carries

LEMMA CarriesOnward ==
  ASSUME NEW s, NEW t, NEW u, Carries(s, t), Onward(t, u)
  PROVE  /\ Carries(s, u) /\ u.simple_key_allowed = t.simple_key_allowed
         /\ u.flow_level = t.flow_level /\ t.mark.line <= u.mark.line
BY CarriesOn DEF Onward, Moves

LEMMA CarriesSame ==
  ASSUME NEW s, Scan(s), Due(s)
  PROVE  Carries(s, s)
<1>1. Held(s, s)
  BY DEF Held
<1>2. Outermost(s)
  BY DEF Outermost, Due
<1>3. QED
  BY <1>1, <1>2 DEF Carries

\* A simple key is saved.
LEMMA SaveCarries ==
  ASSUME NEW s, Steady(s), Due(s), Free(s)
  PROVE  LET t == SaveSimpleKey(s)
         IN  /\ Carries(s, t) /\ t.mark = s.mark /\ t.flow_level = s.flow_level
             /\ t.simple_key_allowed = s.simple_key_allowed
<1> DEFINE keys == s.simple_keys
           l == Len(keys)
           number == s.tokens_parsed + Len(s.tokens)
           need == s.flow_level = 0 /\ s.indent = s.mark.col /\ Last(s.indents).needs_block_end
           key == [possible |-> TRUE, required |-> need, token_number |-> number,
                   mark |-> s.mark]
           ks == [keys EXCEPT ![l] = key]
           t == [s EXCEPT !.simple_keys = ks]
<1>0. Scan(s) /\ Sound(s) /\ s \in State /\ Carries(s, s)
  BY SteadySound, SoundScan, CarriesSame
<1>1. CASE ~s.simple_key_allowed
  <2>1. SaveSimpleKey(s) = s
    BY <1>1 DEF SaveSimpleKey
  <2>2. QED
    BY <1>0, <2>1
<1>2. CASE s.simple_key_allowed
  <2>1. SaveSimpleKey(s) = t
    BY <1>2, <1>0 DEF SaveSimpleKey, State, Scanners
  <2>2. need \in BOOLEAN /\ number \in Nat /\ s.mark \in Marks
    BY <1>0, Fields
  <2>3. need => s.flow_level = 0
    OBVIOUS
  <2> HIDE DEF need, number
  <2>4. key \in SimpleKeys
    BY <2>2 DEF SimpleKeys
  <2>5. key.mark = s.mark /\ key.required = need
    OBVIOUS
  <2> HIDE DEF key
  <2>6. /\ keys \in Seq(SimpleKeys) /\ l \in Nat /\ l \in 1 .. l /\ l = s.flow_level + 1
        /\ s.mark.line \in Nat /\ s.flow_level \in Nat
    BY <1>0, ScanKeys
  <2>7. /\ ks \in Seq(SimpleKeys) /\ Len(ks) = l
        /\ \A i \in 1 .. l : ks[i] = IF i = l THEN key ELSE keys[i]
    BY <2>4, <2>6, ExceptSeq
  <2> HIDE DEF ks
  <2>8. /\ t.simple_keys = ks /\ t.mark = s.mark /\ t.flow_level = s.flow_level
        /\ t.simple_key_allowed = s.simple_key_allowed
    BY <1>0 DEF State, Scanners
  <2>9. Scan(t)
    <3>1. t \in State
      BY <1>0, <2>7 DEF State, Scanners
    <3> HIDE DEF t
    <3>2. QED
      BY <2>6, <2>7, <2>8, <3>1 DEF Scan, State, Scanners
  <2> HIDE DEF t
  <2>10. Held(s, t)
    <3> SUFFICES ASSUME NEW i \in 1 .. l, Presses(s, i)
                 PROVE  i \in 1 .. Len(ks) /\ ks[i] = keys[i]
      BY <2>8 DEF Held
    <3>1. i = 1 /\ ~(s.flow_level = 0)
      BY <1>2 DEF Due, Free
    <3>2. i # l
      BY <2>6, <3>1
    <3>3. QED
      BY <2>7, <3>2
  <2>11. Outermost(t)
    <3> SUFFICES ASSUME NEW i \in 1 .. l, ks[i].possible, ks[i].required
                 PROVE  i = 1 /\ ks[i].mark.line <= s.mark.line
      BY <2>7, <2>8 DEF Outermost, Presses
    <3>1. CASE i = l
      <4>1. ks[i] = key
        BY <2>7, <3>1
      <4>2. s.flow_level = 0
        BY <2>3, <2>5, <4>1
      <4>3. QED
        BY <2>5, <2>6, <3>1, <4>1, <4>2
    <3>2. CASE i # l
      <4>1. ks[i] = keys[i]
        BY <2>7, <3>2
      <4>2. QED
        BY <4>1 DEF Due, Presses
    <3>3. QED
      BY <3>1, <3>2
  <2>12. QED
    BY <2>1, <2>8, <2>9, <2>10, <2>11 DEF Carries
<1>3. QED
  BY <1>1, <1>2

\* Keys are given up; a required one is an error.
LEMMA ForgetCarries ==
  ASSUME NEW s, NEW u, Carries(s, u), NEW gone
  PROVE  LET t == Forget(u, gone)
         IN  /\ Carries(s, t) /\ t.mark = u.mark /\ t.flow_level = u.flow_level
             /\ t.simple_key_allowed = u.simple_key_allowed
             /\ t.error \/ \A i \in 1 .. Len(u.simple_keys) : i \in gone => ~Presses(t, i)
             /\ \A i \in 1 .. Len(t.simple_keys) :
                  Presses(t, i) => i \in 1 .. Len(u.simple_keys) /\ t.simple_keys[i] = u.simple_keys[i]
<1> DEFINE keys == u.simple_keys
           l == Len(keys)
           ks == [i \in DOMAIN keys |-> IF i \in gone THEN [keys[i] EXCEPT !.possible = FALSE]
                                                     ELSE keys[i]]
           t == [u EXCEPT !.simple_keys = ks]
           f == Failed(u)
<1>0. Scan(u)
  BY DEF Carries
<1>1. /\ keys \in Seq(SimpleKeys) /\ l \in Nat /\ DOMAIN keys = 1 .. l
      /\ l = u.flow_level + 1 /\ u.flow_level \in Nat /\ u.mark \in Marks
      /\ \A i \in 1 .. l : keys[i] \in SimpleKeys
  BY <1>0, ScanKeys
<1>2. CASE \E i \in gone : u.simple_keys[i].possible /\ u.simple_keys[i].required
  <2>1. Forget(u, gone) = f
    BY <1>2 DEF Forget
  <2>2. /\ f.mark = u.mark /\ f.flow_level = u.flow_level /\ f.error
        /\ f.simple_key_allowed = u.simple_key_allowed /\ f.simple_keys = keys
        /\ DOMAIN f = DOMAIN u
    BY <1>0 DEF Failed, Scan
  <2> HIDE DEF f
  <2>3. Scan(f)
    BY <1>0, <2>2 DEF Scan
  <2>4. ~(\A i \in 1 .. l : i \in gone => ~Presses(f, i)) => f.error
    BY <2>2
  <2>5. \A i \in 1 .. Len(f.simple_keys) : i \in 1 .. l /\ f.simple_keys[i] = keys[i]
    BY <2>2
  <2>6. QED
    BY <2>1, <2>2, <2>3, <2>4, <2>5 DEF Carries
<1>3. CASE ~(\E i \in gone : u.simple_keys[i].possible /\ u.simple_keys[i].required)
  <2>1. Forget(u, gone) = t
    BY <1>3 DEF Forget
  <2>2. \A x \in SimpleKeys : [x EXCEPT !.possible = FALSE] \in SimpleKeys
                              /\ [x EXCEPT !.possible = FALSE].possible = FALSE
    BY DEF SimpleKeys
  <2>3. /\ ks \in Seq(SimpleKeys) /\ Len(ks) = l
        /\ \A i \in 1 .. l : ks[i] = IF i \in gone THEN [keys[i] EXCEPT !.possible = FALSE]
                                                   ELSE keys[i]
    <3>1. keys \in Seq(SimpleKeys) /\ l \in Nat /\ DOMAIN keys = 1 .. l
      BY <1>1
    <3>2. \A i \in 1 .. l : keys[i] \in SimpleKeys
      BY <1>1
    <3>3. QED
      BY <2>2, <3>1, <3>2
  <2> HIDE DEF ks
  <2>4. \A i \in 1 .. l : IF i \in gone THEN ks[i].possible = FALSE ELSE ks[i] = keys[i]
    BY <1>1, <2>2, <2>3
  <2>5. /\ t.simple_keys = ks /\ t.mark = u.mark /\ t.flow_level = u.flow_level
        /\ t.simple_key_allowed = u.simple_key_allowed /\ t.error = u.error
    BY <1>0 DEF Scan
  <2>6. DOMAIN t = DOMAIN u
    BY <1>0 DEF Scan
  <2> HIDE DEF t
  <2>7. Scan(t)
    BY <1>0, <1>1, <2>3, <2>5, <2>6 DEF Scan
  <2>8. \A i \in 1 .. l : Presses(u, i) => i \notin gone
    BY <1>3 DEF Presses
  <2>9. \A i \in 1 .. l : (Presses(t, i) => i \notin gone /\ Presses(u, i) /\ ks[i] = keys[i])
                          /\ (Presses(u, i) => ks[i] = keys[i])
    BY <2>4, <2>5, <2>8 DEF Presses
  <2>10. Held(s, u) => Held(s, t)
    <3> SUFFICES ASSUME Held(s, u), NEW i \in 1 .. Len(s.simple_keys), Presses(s, i)
                 PROVE  i \in 1 .. l /\ ks[i] = s.simple_keys[i]
      BY <2>3, <2>5 DEF Held
    <3>1. i \in 1 .. l /\ keys[i] = s.simple_keys[i]
      BY DEF Held
    <3>2. Presses(u, i)
      BY <3>1 DEF Presses
    <3>3. QED
      BY <2>9, <3>1, <3>2
  <2>11. Outermost(u) => Outermost(t)
    BY <2>3, <2>5, <2>9 DEF Outermost
  <2>12. Carries(s, t)
    BY <2>5, <2>7, <2>10, <2>11 DEF Carries
  <2>13. QED
    BY <2>1, <2>3, <2>5, <2>9, <2>12
<1>4. QED
  BY <1>2, <1>3

\* A flow collection opens a level with no key, or the last one is closed.
LEMMA LevelUpCarries ==
  ASSUME NEW s, NEW u, Carries(s, u), NEW x,
         NEW t, t = [u EXCEPT !.simple_keys = Append(@, NoKey), !.flow_level = @ + 1,
                              !.flow_mapping_started = x]
  PROVE  Carries(s, t) /\ t.flow_level > 0 /\ t.mark = u.mark
<1> DEFINE keys == u.simple_keys
           l == Len(keys)
           ks == Append(keys, NoKey)
           up == u.flow_level + 1
<1>0. Scan(u)
  BY DEF Carries
<1>1. keys \in Seq(SimpleKeys) /\ l \in Nat /\ l = u.flow_level + 1 /\ u.flow_level \in Nat
  BY <1>0, ScanKeys
<1>2. NoKey \in SimpleKeys /\ NoKey.possible = FALSE
  BY DEF NoKey, SimpleKeys, Marks
<1>3. /\ ks \in Seq(SimpleKeys) /\ Len(ks) = l + 1 /\ ks[l + 1] = NoKey
      /\ \A i \in 1 .. l : ks[i] = keys[i]
  BY <1>1, <1>2, AppendProperties
<1>4. up \in Nat /\ up > 0 /\ Len(ks) = up + 1
  BY <1>1, <1>3
<1>5. \A i \in 1 .. Len(ks) : i \in 1 .. l \/ i = l + 1
  BY <1>1, <1>3
<1>6. \A i \in 1 .. l : i \in 1 .. Len(ks)
  BY <1>1, <1>3
<1> HIDE DEF ks, up
<1>7. /\ t.simple_keys = ks /\ t.flow_level = up /\ t.mark = u.mark /\ t.error = u.error
      /\ DOMAIN t = DOMAIN u
  BY <1>0 DEF ks, up, Scan
<1>8. Scan(t)
  BY <1>0, <1>3, <1>4, <1>7 DEF Scan
<1>9. \A i \in 1 .. Len(ks) : Presses(t, i) => i \in 1 .. l /\ ks[i] = keys[i]
  BY <1>2, <1>3, <1>5, <1>7 DEF Presses
<1>10. Held(s, u) => Held(s, t)
  BY <1>3, <1>6, <1>7 DEF Held
<1>11. Outermost(u) => Outermost(t)
  BY <1>7, <1>9 DEF Outermost, Presses
<1>12. QED
  BY <1>4, <1>7, <1>8, <1>10, <1>11 DEF Carries

LEMMA LevelDownCarries ==
  ASSUME NEW s, NEW u, Carries(s, u)
  PROVE  /\ Carries(s, DecreaseFlowLevel(u)) /\ DecreaseFlowLevel(u).mark = u.mark
<1> DEFINE keys == u.simple_keys
           l == Len(keys)
           m == l - 1
           ks == SubSeq(keys, 1, m)
           down == u.flow_level - 1
           t == [u EXCEPT !.flow_level = down, !.simple_keys = ks]
<1>0. Scan(u)
  BY DEF Carries
<1>1. keys \in Seq(SimpleKeys) /\ l \in Nat /\ l = u.flow_level + 1 /\ u.flow_level \in Nat
  BY <1>0, ScanKeys
<1>2. CASE u.flow_level = 0
  <2>1. DecreaseFlowLevel(u) = u
    BY <1>2 DEF DecreaseFlowLevel
  <2>2. QED
    BY <2>1
<1>3. CASE u.flow_level # 0
  <2>1. DecreaseFlowLevel(u) = t
    BY <1>0, <1>3 DEF DecreaseFlowLevel, Front, Scan
  <2>2. m \in 0 .. l /\ down \in Nat /\ m = down + 1 /\ 1 \in 1 .. m
    BY <1>1, <1>3
  <2>3. ks \in Seq(SimpleKeys) /\ Len(ks) = m /\ \A i \in 1 .. m : ks[i] = keys[i]
    <3> HIDE DEF m
    <3>1. QED
      BY <1>1, <2>2, CutInTwo
  <2>4. \A i \in 1 .. m : i \in 1 .. l
    BY <1>1
  <2> HIDE DEF m, ks, down
  <2>5. /\ t.simple_keys = ks /\ t.flow_level = down /\ t.mark = u.mark /\ t.error = u.error
        /\ DOMAIN t = DOMAIN u
    BY <1>0 DEF Scan
  <2> HIDE DEF t
  <2>6. Scan(t)
    BY <1>0, <2>2, <2>3, <2>5 DEF Scan
  <2>7. Held(s, u) /\ Outermost(u) => Held(s, t)
    <3> SUFFICES ASSUME Held(s, u), Outermost(u), NEW i \in 1 .. Len(s.simple_keys), Presses(s, i)
                 PROVE  i \in 1 .. m /\ ks[i] = s.simple_keys[i]
      BY <2>3, <2>5 DEF Held
    <3>1. i \in 1 .. l /\ keys[i] = s.simple_keys[i]
      BY DEF Held
    <3>2. Presses(u, i)
      BY <3>1 DEF Presses
    <3>3. i = 1
      BY <3>1, <3>2 DEF Outermost
    <3>4. QED
      BY <2>2, <2>3, <3>1, <3>3
  <2>8. Outermost(u) => Outermost(t)
    BY <2>3, <2>4, <2>5 DEF Outermost, Presses
  <2>9. QED
    BY <2>1, <2>5, <2>6, <2>7, <2>8 DEF Carries
<1>4. QED
  BY <1>2, <1>3

\* When the key that presses is safe until the scanner looks for stale keys again.
LEMMA DueWhen ==
  ASSUME NEW s, NEW t, Carries(s, t),
         \/ t.error \/ t.simple_key_allowed = FALSE \/ t.flow_level > 0
         \/ \A i \in 1 .. Len(t.simple_keys) : ~Presses(t, i)
  PROVE  t.error \/ (Due(t) /\ Held(s, t))
<1>1. t.flow_level > 0 => t.flow_level # 0
  BY ScanKeys DEF Carries
<1>2. QED
  BY <1>1 DEF Carries, Due, Outermost

LEMMA DueMoved ==
  ASSUME NEW s, NEW u, NEW t, Carries(s, u), Moves(u, t), u.mark.line < t.mark.line
  PROVE  t.error \/ (Due(t) /\ Held(s, t))
<1>1. Carries(s, t)
  BY CarriesOn
<1>2. Scan(u) /\ Scan(t) /\ t.simple_keys = u.simple_keys /\ t.error = u.error
  BY DEF Carries, Moves
<1>3. u.mark.line \in Nat /\ t.mark.line \in Nat
      /\ \A i \in 1 .. Len(u.simple_keys) : u.simple_keys[i].mark.line \in Nat
  BY <1>2, ScanKeys
<1>4. Outermost(u) => Due(t)
  BY <1>2, <1>3 DEF Outermost, Due, Presses
<1>5. QED
  BY <1>1, <1>2, <1>4 DEF Carries

\* What a fetch function meets.
LEMMA FoundFree ==
  ASSUME Steady(scanner), Due(scanner), text \in Texts, NEW w, NEW gap \in Gaps(Checked, w)
  PROVE  Found(gap).error \/ (Due(Found(gap)) /\ Free(Found(gap)) /\ Held(scanner, Found(gap)))
<1> DEFINE q == Checked
           a == Skip(q, gap)
           b == StaleSimpleKeys(a)
           c == UnrollIndent(b, gap.at.col)
           keys == scanner.simple_keys
<1>0. Carries(scanner, scanner) /\ Scan(scanner)
  BY SteadySound, SoundScan, CarriesSame
<1>1. /\ Carries(scanner, q) /\ q.mark = scanner.mark /\ q.flow_level = scanner.flow_level
      /\ q.simple_key_allowed = scanner.simple_key_allowed
      /\ \A i \in 1 .. Len(q.simple_keys) :
           Presses(q, i) => i \in 1 .. Len(keys) /\ q.simple_keys[i] = keys[i]
  <2>1. CASE scanner.tokens = <<>>
    BY <1>0, <2>1 DEF Checked
  <2>2. CASE scanner.tokens # <<>>
    BY <1>0, <2>2, ForgetCarries DEF Checked, StaleSimpleKeys
  <2>3. QED
    BY <2>1, <2>2
<1>2. Passes(q, gap)
  <2>1. Steady(Checked)
    BY SteadySound, ForgetQuiet, SteadyQuiet DEF Checked, StaleSimpleKeys
  <2>2. QED
    BY <2>1, SteadySound, GapsPass
<1> HIDE DEF q
<1>3. /\ Moves(q, a)
      /\ a.simple_key_allowed = (q.simple_key_allowed \/ (a.mark.line > q.mark.line /\ q.flow_level = 0))
  BY <1>1, <1>2, SkipMoves DEF Carries
<1> HIDE DEF a
<1>4. Carries(scanner, a) /\ a.simple_keys = q.simple_keys /\ Scan(a)
  BY <1>1, <1>3, CarriesOn DEF Moves
<1>5. /\ Carries(scanner, b) /\ b.mark = a.mark /\ b.flow_level = a.flow_level
      /\ b.simple_key_allowed = a.simple_key_allowed
      /\ b.error \/ \A i \in 1 .. Len(a.simple_keys) : i \in Stale(a) => ~Presses(b, i)
      /\ \A i \in 1 .. Len(b.simple_keys) :
           Presses(b, i) => i \in 1 .. Len(a.simple_keys) /\ b.simple_keys[i] = a.simple_keys[i]
  BY <1>4, ForgetCarries DEF StaleSimpleKeys
<1> HIDE DEF b
<1>6. Onward(b, c)
  BY <1>5, UnrollIndentOnward DEF Carries
<1>7. Found(gap) = IF b.error THEN b ELSE c
  BY DEF Found, a, b, q
<1> HIDE DEF c
<1>8. ASSUME ~b.error, NEW i \in 1 .. Len(b.simple_keys), Presses(b, i),
             b.flow_level = 0, b.simple_key_allowed
      PROVE  FALSE
  <2>1. i \in 1 .. Len(a.simple_keys) /\ b.simple_keys[i] = a.simple_keys[i]
    BY <1>5, <1>8
  <2>2. i \in 1 .. Len(q.simple_keys) /\ Presses(q, i)
    BY <1>4, <1>8, <2>1 DEF Presses
  <2>3. i \in 1 .. Len(keys) /\ b.simple_keys[i] = keys[i]
    BY <1>1, <1>4, <2>1, <2>2
  <2>4. Presses(scanner, i)
    BY <1>8, <2>3 DEF Presses
  <2>5. /\ keys[i].mark.line <= scanner.mark.line
        /\ scanner.flow_level = 0 /\ scanner.simple_key_allowed => keys[i].mark.line < scanner.mark.line
    BY <2>3, <2>4 DEF Due
  <2>6. a.flow_level = 0 /\ scanner.flow_level = 0
    BY <1>1, <1>3, <1>5, <1>8 DEF Moves
  <2>7. scanner.simple_key_allowed \/ a.mark.line > scanner.mark.line
    BY <1>1, <1>3, <1>5, <1>8
  <2>8. scanner.mark.line <= a.mark.line
    BY <1>1, <1>3 DEF Moves
  <2>9. keys[i].mark.line \in Nat /\ scanner.mark.line \in Nat /\ a.mark.line \in Nat
    BY <1>0, <1>4, <2>3, ScanKeys
  <2>10. keys[i].mark.line < a.mark.line
    BY <2>5, <2>6, <2>7, <2>8, <2>9
  <2>11. i \in DOMAIN a.simple_keys
    BY <1>4, <2>1, ScanKeys
  <2>12. a.simple_keys[i].possible /\ a.simple_keys[i].mark.line < a.mark.line
    BY <1>8, <2>1, <2>3, <2>10 DEF Presses
  <2>13. i \in Stale(a)
    BY <2>6, <2>11, <2>12 DEF Stale
  <2>14. QED
    BY <1>5, <1>8, <2>1, <2>13
<1>9. Carries(scanner, c) /\ c.simple_keys = b.simple_keys /\ c.flow_level = b.flow_level
      /\ c.simple_key_allowed = b.simple_key_allowed /\ c.error = b.error
  BY <1>5, <1>6, CarriesOnward DEF Onward, Moves
<1>10. ~b.error => Free(c)
  BY <1>8, <1>9 DEF Free, Presses
<1>11. ~b.error => Due(c)
  BY <1>9, <1>10 DEF Carries, Outermost, Due, Free
<1>12. QED
  BY <1>7, <1>9, <1>10, <1>11 DEF Carries

\* The state between the fetches of tokens, when no key may replace a required one.
Settled(s) == Steady(s) /\ Due(s) /\ Free(s)

\* No key presses where one could be saved.
Cleared(s) ==
  s.error \/ s.flow_level > 0 \/ \A i \in 1 .. Len(s.simple_keys) : ~Presses(s, i)

\* A step keeps the required keys or fails.
Safe(s, t) == t.error \/ (Due(t) /\ Held(s, t))

LEMMA SettledCarries ==
  ASSUME NEW s, Settled(s)
  PROVE  Carries(s, s) /\ Scan(s) /\ s \in State /\ s.mark \in Marks /\ s.mark.line \in Nat
BY SteadySound, SoundScan, CarriesSame DEF Settled

LEMMA ClearedSafe ==
  ASSUME NEW s, NEW t, Carries(s, t), Cleared(t)
  PROVE  Safe(s, t)
BY DueWhen DEF Safe, Cleared

LEMMA DisallowedSafe ==
  ASSUME NEW s, NEW t, Carries(s, t), t.simple_key_allowed = FALSE
  PROVE  Safe(s, t)
BY DueWhen DEF Safe

LEMMA ClearedOn ==
  ASSUME NEW t, NEW u, Cleared(t), Moves(t, u)
  PROVE  Cleared(u)
BY DEF Cleared, Moves, Presses

LEMMA RemoveCarries ==
  ASSUME NEW s, NEW u, Carries(s, u)
  PROVE  LET t == RemoveSimpleKey(u)
         IN  /\ Carries(s, t) /\ Cleared(t) /\ t.mark = u.mark /\ t.flow_level = u.flow_level
             /\ t.simple_key_allowed = u.simple_key_allowed
<1> DEFINE t == RemoveSimpleKey(u)
           gone == {Len(u.simple_keys)}
<1>1. /\ Carries(s, t) /\ t.mark = u.mark /\ t.flow_level = u.flow_level
      /\ t.simple_key_allowed = u.simple_key_allowed
      /\ t.error \/ \A i \in 1 .. Len(u.simple_keys) : i \in gone => ~Presses(t, i)
  <2>1. t = Forget(u, gone)
    BY DEF RemoveSimpleKey
  <2> HIDE DEF t, gone
  <2>2. QED
    BY <2>1, ForgetCarries
<1> HIDE DEF t
<1>2. Scan(u) /\ Scan(t)
  BY <1>1 DEF Carries
<1>3. Cleared(t)
  <2> SUFFICES ASSUME ~t.error, ~(t.flow_level > 0), NEW i \in 1 .. Len(t.simple_keys), Presses(t, i)
               PROVE  FALSE
    BY DEF Cleared
  <2>1. i = 1
    BY <1>1 DEF Carries, Outermost
  <2>2. Len(u.simple_keys) = 1
    BY <1>1, <1>2, ScanKeys
  <2>3. QED
    BY <1>1, <2>1, <2>2
<1>4. QED
  BY <1>1, <1>3 DEF t

LEMMA AllowCarries ==
  ASSUME NEW s, NEW u, Carries(s, u)
  PROVE  /\ Carries(s, AllowKey(u)) /\ AllowKey(u).mark = u.mark
         /\ AllowKey(u).flow_level = u.flow_level /\ (Cleared(u) => Cleared(AllowKey(u)))
         /\ Carries(s, DisallowKey(u)) /\ DisallowKey(u).mark = u.mark
         /\ DisallowKey(u).flow_level = u.flow_level /\ DisallowKey(u).simple_key_allowed = FALSE
<1>1. Scan(u)
  BY DEF Carries
<1>2. /\ Moves(u, AllowKey(u)) /\ AllowKey(u).mark = u.mark
      /\ Moves(u, DisallowKey(u)) /\ DisallowKey(u).mark = u.mark
      /\ DisallowKey(u).simple_key_allowed = FALSE
  BY <1>1, AllowMoves
<1>3. QED
  BY <1>2, CarriesOn, ClearedOn DEF Moves

\* The keys are carried on, and what made them safe still does.
LEMMA OnwardCarries ==
  ASSUME NEW s, NEW t, NEW u, Carries(s, t), Onward(t, u)
  PROVE  /\ Carries(s, u) /\ Scan(u) /\ u.simple_key_allowed = t.simple_key_allowed
         /\ u.flow_level = t.flow_level /\ t.mark.line <= u.mark.line
         /\ Cleared(t) => Cleared(u)
<1>1. Moves(t, u)
  BY DEF Onward
<1>2. QED
  BY <1>1, CarriesOnward, ClearedOn DEF Carries

LEMMA NoteOnward ==
  ASSUME NEW s, Scan(s)
  PROVE  /\ \A line : Onward(s, [s EXCEPT !.tokens = Append(@, Note(line))])
         /\ \A notes : Onward(s, [s EXCEPT !.tokens = @ \o Notes(notes)])
<1>0. s.mark.line \in Nat
  BY ScanLine
<1>1. ASSUME NEW line
      PROVE  Onward(s, [s EXCEPT !.tokens = Append(@, Note(line))])
  <2> DEFINE ts == Append(s.tokens, Note(line))
             t == [s EXCEPT !.tokens = ts]
  <2>1. t = [s EXCEPT !.tokens = Append(@, Note(line))]
    BY DEF Scan
  <2> HIDE DEF ts
  <2>2. Onward(s, t)
    BY <1>0 DEF Scan, Onward, Moves
  <2>3. QED
    BY <2>1, <2>2
<1>2. ASSUME NEW notes
      PROVE  Onward(s, [s EXCEPT !.tokens = @ \o Notes(notes)])
  <2> DEFINE ts == s.tokens \o Notes(notes)
             t == [s EXCEPT !.tokens = ts]
  <2>1. t = [s EXCEPT !.tokens = @ \o Notes(notes)]
    BY DEF Scan
  <2> HIDE DEF ts
  <2>2. Onward(s, t)
    BY <1>0 DEF Scan, Onward, Moves
  <2>3. QED
    BY <2>1, <2>2
<1>3. QED
  BY <1>1, <1>2

LEMMA SweptLineOnward ==
  ASSUME NEW s, Scan(s), NEW kind, NEW at, NEW r \in SweptLine(s, kind, at)
  PROVE  Onward(s, r.to)
<1> DEFINE n == [s EXCEPT !.tokens = Append(@, Note(s.mark.line))]
<1>1. r.to = Push(s, kind, at) \/ r.to = Push(n, kind, at)
  <2>1. r \in {Result(Push(s, kind, at), "swept"), Result(Push(n, kind, at), "eol")}
    BY Zenon DEF SweptLine
  <2> HIDE DEF n
  <2>2. QED
    BY <2>1 DEF Result
<1>2. Onward(s, n)
  BY NoteOnward
<1> HIDE DEF n
<1>3. Onward(n, Push(n, kind, at))
  BY <1>2, PushOnward DEF Onward, Moves
<1>4. Onward(s, Push(s, kind, at)) /\ Onward(s, Push(n, kind, at))
  BY <1>2, <1>3, PushOnward, OnwardOn
<1>5. QED
  BY <1>1, <1>4

LEMMA FlowCollectionStartSafe ==
  ASSUME NEW s, Settled(s), NEW w, NEW r \in FlowCollectionStart(s, w)
  PROVE  Safe(s, r.to)
<1> DEFINE a == SaveSimpleKey(s)
           b == RollOneCol(a)
           x == b.flow_mapping_started \/ w = "{"
           c == [b EXCEPT !.simple_keys = Append(@, NoKey), !.flow_level = @ + 1,
                          !.flow_mapping_started = x]
           d == Past(AllowKey(c), 1)
           kind == IF w = "[" THEN "FlowSequenceStart" ELSE "FlowMappingStart"
<1>1. Carries(s, a) /\ Scan(a)
  BY SaveCarries DEF Settled, Carries
<1> HIDE DEF a
<1>2. Onward(a, b)
  BY <1>1, RollOneColOnward
<1>3. Carries(s, b) /\ Scan(b)
  BY <1>1, <1>2, OnwardCarries
<1>4. r \in SweptLine(d, kind, s.mark)
  <2>1. c = [b EXCEPT !.simple_keys = Append(@, NoKey), !.flow_level = @ + 1,
                      !.flow_mapping_started = @ \/ w = "{"]
    BY <1>3 DEF Scan
  <2> HIDE DEF c
  <2>2. QED
    BY <2>1 DEF FlowCollectionStart, a
<1> HIDE DEF b, x, kind
<1>5. Carries(s, c) /\ c.flow_level > 0
  BY <1>3, LevelUpCarries
<1> HIDE DEF c
<1>6. Carries(s, AllowKey(c)) /\ AllowKey(c).flow_level > 0
  BY <1>5, AllowCarries
<1>7. Onward(AllowKey(c), d)
  BY <1>6, MarkOnward DEF Carries
<1>8. Carries(s, d) /\ d.flow_level > 0
  BY <1>6, <1>7, OnwardCarries
<1> HIDE DEF d
<1>9. Onward(d, r.to)
  BY <1>4, <1>8, SweptLineOnward DEF Carries
<1>10. Carries(s, r.to) /\ Cleared(r.to)
  BY <1>8, <1>9, OnwardCarries DEF Cleared
<1>11. QED
  BY <1>10, ClearedSafe

LEMMA FlowCollectionEndSafe ==
  ASSUME NEW s, Settled(s), NEW w, NEW r \in FlowCollectionEnd(s, w)
  PROVE  Safe(s, r.to)
<1> DEFINE a == RemoveSimpleKey(s)
           b == DisallowKey(DecreaseFlowLevel(a))
           c == EndImplicitMapping(b)
           kind == IF w = "]" THEN "FlowSequenceEnd" ELSE "FlowMappingEnd"
           p == Push(c, kind, s.mark)
           t == Past(p, 1)
           u == IF t.flow_level > 0 THEN [t EXCEPT !.adjacent_value_allowed_at = t.mark] ELSE t
           v == [u EXCEPT !.tokens = Append(@, Note(s.mark.line))]
<1>1. r.to = u \/ r.to = v
  <2>1. r \in {Result(u, "swept"), Result(v, "eol")}
    BY Zenon DEF FlowCollectionEnd
  <2> HIDE DEF u, v
  <2>2. Result(u, "swept").to = u /\ Result(v, "eol").to = v
    BY DEF Result
  <2>3. QED
    BY <2>1, <2>2
<1> HIDE DEF kind
<1>2. Carries(s, a)
  BY SettledCarries, RemoveCarries
<1> HIDE DEF a
<1>3. Carries(s, b) /\ b.simple_key_allowed = FALSE
  BY <1>2, LevelDownCarries, AllowCarries
<1> HIDE DEF b
<1>4. Carries(s, c) /\ c.simple_key_allowed = FALSE
  BY <1>3, EndImplicitOnward, OnwardCarries DEF Carries
<1> HIDE DEF c
<1>5. Carries(s, p) /\ p.simple_key_allowed = FALSE
  BY <1>4, PushOnward, OnwardCarries DEF Carries
<1> HIDE DEF p
<1>6. Carries(s, t) /\ t.simple_key_allowed = FALSE /\ Scan(t)
  BY <1>5, MarkOnward, OnwardCarries DEF Carries
<1> HIDE DEF t
<1>7. Onward(t, u)
  <2> DEFINE f == [t EXCEPT !.adjacent_value_allowed_at = t.mark]
  <2>1. t.mark.line \in Nat
    BY <1>6, ScanLine
  <2>2. Onward(t, f)
    BY <1>6, <2>1 DEF Scan, Onward, Moves
  <2>3. Onward(t, t)
    BY <1>6, OnwardSame
  <2> HIDE DEF f
  <2>4. u = f \/ u = t
    BY DEF f
  <2>5. QED
    BY <2>2, <2>3, <2>4
<1> HIDE DEF u
<1>8. Carries(s, u) /\ u.simple_key_allowed = FALSE /\ Scan(u)
  BY <1>6, <1>7, OnwardCarries
<1>9. Onward(u, v)
  BY <1>8, NoteOnward
<1> HIDE DEF v
<1>10. Carries(s, v) /\ v.simple_key_allowed = FALSE
  BY <1>8, <1>9, OnwardCarries
<1>11. QED
  BY <1>1, <1>8, <1>10, DisallowedSafe

LEMMA FlowEntrySafe ==
  ASSUME NEW s, Settled(s), NEW w, NEW r \in FlowEntry(s, w)
  PROVE  Safe(s, r.to)
<1> DEFINE a == RemoveSimpleKey(s)
           b == AllowKey(a)
           c == EndImplicitMapping(b)
           d == Past(c, 1)
<1>1. r \in SweptLine(d, "FlowEntry", s.mark)
  BY DEF FlowEntry
<1>2. Carries(s, a) /\ Cleared(a)
  BY SettledCarries, RemoveCarries
<1> HIDE DEF a
<1>3. Carries(s, b) /\ Cleared(b) /\ Scan(b)
  BY <1>2, AllowCarries DEF Carries
<1> HIDE DEF b
<1>4. Carries(s, c) /\ Cleared(c) /\ Scan(c)
  BY <1>3, EndImplicitOnward, OnwardCarries
<1> HIDE DEF c
<1>5. Onward(c, d)
  BY <1>4, MarkOnward
<1> HIDE DEF d
<1>6. Carries(s, d) /\ Cleared(d) /\ Scan(d)
  BY <1>4, <1>5, OnwardCarries
<1>7. Onward(d, r.to)
  BY <1>1, <1>6, SweptLineOnward
<1>8. QED
  BY <1>6, <1>7, OnwardCarries, ClearedSafe

LEMMA ErrorSafe ==
  ASSUME NEW s, Scan(s), NEW r \in Error(s)
  PROVE  r.to.error
BY DEF Error, Result, Failed, Scan

LEMMA BlockEntrySafe ==
  ASSUME NEW s, Settled(s), NEW w, NEW r \in BlockEntry(s, w)
  PROVE  Safe(s, r.to)
<1> DEFINE p == Past(s, 2)
           number == NextNumber(s)
           q == RollIndent(p, s.mark.col, number, "BlockSequenceStart", s.mark)
           n == [q EXCEPT !.tokens = Append(@, Note(s.mark.line))]
           Done(t) == Push(AllowKey(RemoveSimpleKey(t)), "BlockEntry", t.mark)
<1>1. r \in Error(s) \/ r.to \in {Done(q), Done(RollOneCol(q)), Done(RollOneCol(n))}
  BY DEF BlockEntry, Result
<1>2. CASE r \in Error(s)
  BY <1>2, SettledCarries, ErrorSafe DEF Safe
<1>3. ASSUME NEW t, Carries(s, t)
      PROVE  Safe(s, Done(t))
  <2> DEFINE a == RemoveSimpleKey(t)
             b == AllowKey(a)
  <2>1. Carries(s, a) /\ Cleared(a)
    BY <1>3, RemoveCarries
  <2> HIDE DEF a
  <2>2. Carries(s, b) /\ Cleared(b) /\ Scan(b)
    BY <2>1, AllowCarries DEF Carries
  <2> HIDE DEF b
  <2>3. Onward(b, Push(b, "BlockEntry", t.mark))
    BY <2>2, PushOnward
  <2>4. Safe(s, Push(b, "BlockEntry", t.mark))
    BY <2>2, <2>3, OnwardCarries, ClearedSafe
  <2>5. QED
    BY <2>4 DEF b, a
<1>4. Carries(s, p) /\ Scan(p)
  BY SettledCarries, MarkOnward, OnwardCarries
<1> HIDE DEF p, number
<1>5. Carries(s, q) /\ Scan(q)
  BY <1>4, RollIndentOnward, OnwardCarries
<1> HIDE DEF q
<1>6. Carries(s, n) /\ Scan(n)
  BY <1>5, NoteOnward, OnwardCarries
<1> HIDE DEF n
<1>7. Carries(s, RollOneCol(q)) /\ Carries(s, RollOneCol(n))
  BY <1>5, <1>6, RollOneColOnward, OnwardCarries
<1>8. Safe(s, Done(q)) /\ Safe(s, Done(RollOneCol(q))) /\ Safe(s, Done(RollOneCol(n)))
  BY <1>3, <1>5, <1>7
<1> HIDE DEF Done
<1>9. QED
  BY <1>1, <1>2, <1>8

LEMMA SkipSafe ==
  ASSUME NEW s, NEW t, Carries(s, t), NEW gap, Passes(t, gap),
         t.simple_key_allowed = FALSE \/ Cleared(t),
         NEW u, Onward(Skip(t, gap), u)
  PROVE  Safe(s, u)
<1> DEFINE k == Skip(t, gap)
<1>1. Scan(t) /\ t.mark.line \in Nat
  BY ScanLine DEF Carries
<1>2. /\ Moves(t, k)
      /\ k.simple_key_allowed = (t.simple_key_allowed \/ (k.mark.line > t.mark.line /\ t.flow_level = 0))
  BY <1>1, SkipMoves
<1> HIDE DEF k
<1>3. Onward(k, u) /\ Scan(k) /\ Scan(u)
  BY <1>2 DEF Onward, Moves, k
<1>4. /\ Moves(t, u) /\ u.simple_key_allowed = k.simple_key_allowed
      /\ k.mark.line <= u.mark.line /\ k.mark.line \in Nat /\ u.mark.line \in Nat
  BY <1>1, <1>2, <1>3, MovesOn, ScanLine DEF Onward, Moves
<1>5. Carries(s, u)
  BY <1>4, CarriesOn
<1>6. CASE Cleared(t)
  BY <1>4, <1>5, <1>6, ClearedOn, ClearedSafe
<1>7. CASE t.simple_key_allowed = FALSE /\ ~(k.mark.line > t.mark.line)
  <2>1. u.simple_key_allowed = FALSE
    BY <1>2, <1>4, <1>7
  <2>2. QED
    BY <1>5, <2>1, DisallowedSafe
<1>8. CASE k.mark.line > t.mark.line
  <2>1. t.mark.line < u.mark.line
    BY <1>1, <1>4, <1>8
  <2>2. QED
    BY <1>4, <2>1, DueMoved DEF Safe
<1>9. QED
  BY <1>6, <1>7, <1>8

LEMMA KeySafe ==
  ASSUME NEW s, Settled(s), text \in Texts, NEW w, NEW r \in Key(s, w)
  PROVE  Safe(s, r.to)
<1> DEFINE a == RollIndent(s, s.mark.col, NextNumber(s), "BlockMappingStart", s.mark)
           b == AllowKey(RemoveSimpleKey(a))
           c == [s EXCEPT !.flow_mapping_started = TRUE]
           d == DisallowKey(RemoveSimpleKey(c))
           e == IF s.flow_level = 0 THEN b ELSE d
           t == Past(e, 2)
<1>0. Carries(s, s) /\ Scan(s)
  BY SettledCarries
<1>1. \/ r \in Error(s) \/ r.to = Push(t, "Key", s.mark)
      \/ \E gap \in Blanks(t, TRUE, TRUE) : r.to = Push(Skip(t, gap), "Key", s.mark)
  <2>1. r \in Error(s) \cup {Result(Push(t, "Key", s.mark), "word")}
               \cup {Result(Push(Skip(t, gap), "Key", s.mark), "word") :
                       gap \in Blanks(t, TRUE, TRUE)}
    BY Zenon DEF Key
  <2> HIDE DEF t
  <2>2. \A x : Result(x, "word").to = x
    BY DEF Result
  <2>3. QED
    BY <2>1, <2>2
<1>2. CASE r \in Error(s)
  BY <1>2, <1>0, ErrorSafe DEF Safe
<1>3. Carries(s, a)
  BY <1>0, RollIndentOnward, OnwardCarries
<1> HIDE DEF a
<1>4. Carries(s, b) /\ Cleared(b)
  BY <1>3, RemoveCarries, AllowCarries
<1> HIDE DEF b
<1>5. Carries(s, c)
  <2>1. s.mark.line \in Nat
    BY <1>0, ScanLine
  <2>2. Onward(s, c)
    BY <1>0, <2>1 DEF Scan, Onward, Moves
  <2> HIDE DEF c
  <2>3. QED
    BY <1>0, <2>2, OnwardCarries
<1> HIDE DEF c
<1>6. Carries(s, d) /\ d.simple_key_allowed = FALSE
  BY <1>5, RemoveCarries, AllowCarries
<1> HIDE DEF d
<1>7. Carries(s, e) /\ Scan(e) /\ (Cleared(e) \/ e.simple_key_allowed = FALSE)
  BY <1>4, <1>6 DEF Carries
<1> HIDE DEF e
<1>8. Carries(s, t) /\ Scan(t) /\ (Cleared(t) \/ t.simple_key_allowed = FALSE)
  BY <1>7, MarkOnward, OnwardCarries
<1> HIDE DEF t
<1>9. CASE r.to = Push(t, "Key", s.mark)
  <2>1. Onward(t, r.to)
    BY <1>8, <1>9, PushOnward
  <2>2. Carries(s, r.to) /\ (Cleared(r.to) \/ r.to.simple_key_allowed = FALSE)
    BY <1>8, <2>1, OnwardCarries
  <2>3. QED
    BY <2>2, ClearedSafe, DisallowedSafe
<1>10. CASE \E gap \in Blanks(t, TRUE, TRUE) : r.to = Push(Skip(t, gap), "Key", s.mark)
  <2>1. PICK gap \in Blanks(t, TRUE, TRUE) : r.to = Push(Skip(t, gap), "Key", s.mark)
    BY <1>10
  <2>2. t.mark.line \in Nat
    BY <1>8, ScanLine
  <2>3. Passes(t, gap)
    BY <2>2, BlanksPass
  <2>4. Scan(Skip(t, gap))
    BY <1>8, <2>3, SkipMoves DEF Moves
  <2>5. Onward(Skip(t, gap), r.to)
    BY <2>1, <2>4, PushOnward
  <2>6. QED
    BY <1>8, <2>3, <2>5, SkipSafe
<1>11. QED
  BY <1>1, <1>2, <1>9, <1>10

LEMMA PropertySafe ==
  ASSUME NEW s, Settled(s), NEW w \in {"anchor", "alias", "tag"}, NEW r \in Property(s, w)
  PROVE  Safe(s, r.to)
<1> DEFINE kind == CASE w = "anchor" -> "Anchor" [] w = "alias" -> "Alias" [] w = "tag" -> "Tag"
           a == SaveSimpleKey(s)
           b == DisallowKey(a)
           c == Past(b, 2)
<1>1. r.to = Push(c, kind, s.mark)
  BY DEF Property, Result
<1> HIDE DEF kind
<1>2. Carries(s, a)
  BY SaveCarries DEF Settled
<1> HIDE DEF a
<1>3. Carries(s, b) /\ Scan(b) /\ b.simple_key_allowed = FALSE
  BY <1>2, AllowCarries DEF Carries
<1> HIDE DEF b
<1>4. Carries(s, c) /\ Scan(c) /\ c.simple_key_allowed = FALSE
  BY <1>3, MarkOnward, OnwardCarries
<1> HIDE DEF c
<1>5. Onward(c, r.to)
  BY <1>1, <1>4, PushOnward
<1>6. QED
  BY <1>4, <1>5, OnwardCarries, DisallowedSafe

LEMMA BlockScalarSafe ==
  ASSUME NEW s, Settled(s), text \in Texts, NEW w, NEW r \in BlockScalar(s, w)
  PROVE  Safe(s, r.to)
<1> DEFINE o == SaveSimpleKey(s)
           a == AllowKey(o)
           b == UnrollNonBlock(a)
           N(notes) == [b EXCEPT !.tokens = @ \o Notes(notes)]
           places == NextPlaces(s.mark.line + 1) \cup NextPlaces(s.mark.line + 2)
           commented == IF s.flow_level = 0 THEN {<<>>, <<s.mark.line>>} ELSE {}
           F(notes, at) == Result(Push(MoveTo(N(notes), at), "Scalar", s.mark), "here")
<1>1. s.mark \in Marks /\ s.mark.line \in Nat
  BY SettledCarries
<1>2. PICK notes \in commented, at \in places :
        r.to = Push(MoveTo(N(notes), at), "Scalar", s.mark)
  <2>1. BlockScalar(s, w) = {F(notes, at) : notes \in commented, at \in places}
    BY DEF BlockScalar
  <2> HIDE DEF commented, places, F, N
  <2>2. PICK notes \in commented, at \in places : r = F(notes, at)
    BY <2>1
  <2>3. r.to = Push(MoveTo(N(notes), at), "Scalar", s.mark)
    BY <2>2 DEF F, Result
  <2>4. QED
    BY <2>3
<1> HIDE DEF F, commented
<1>3. Carries(s, o) /\ Scan(o) /\ o.mark = s.mark
  BY SaveCarries DEF Settled, Carries
<1> HIDE DEF o
<1>4. Moves(o, a) /\ a.mark = s.mark /\ Scan(a)
  BY <1>3, AllowMoves DEF Moves
<1> HIDE DEF a
<1>5. Onward(a, b) /\ Scan(b) /\ Moves(a, b)
  BY <1>4, UnrollNonBlockOnward DEF Onward, Moves
<1>6. b.mark = s.mark
  <2>1. b.mark = a.mark
    BY <1>4 DEF UnrollNonBlock, Closed, Scan
  <2>2. QED
    BY <1>4, <2>1
<1> HIDE DEF b
<1> DEFINE c == N(notes)
           d == MoveTo(c, at)
<1>7. Onward(b, c) /\ c.mark = s.mark
  <2>1. Onward(b, c)
    BY <1>5, NoteOnward
  <2>2. c.mark = b.mark
    BY <1>5 DEF Scan
  <2>3. QED
    BY <1>6, <2>1, <2>2
<1> HIDE DEF N, c
<1>8. Scan(c) /\ Moves(b, c)
  BY <1>7 DEF Onward, Moves
<1>9. at \in Marks /\ s.mark.line <= at.line /\ s.mark.line < at.line
  <2>1. s.mark.line + 1 \in Nat /\ s.mark.line + 2 \in Nat
    BY <1>1
  <2>2. at \in Marks /\ (at.line = s.mark.line + 1 \/ at.line = s.mark.line + 2)
    BY <1>2, <2>1, PlacesPass
  <2>3. QED
    BY <1>1, <2>2
<1>10. Onward(c, d) /\ d.mark = at /\ Scan(d) /\ Moves(c, d)
  BY <1>7, <1>8, <1>9, MarkOnward DEF Onward, Moves
<1> HIDE DEF d
<1>11. r.to = Push(d, "Scalar", s.mark)
  BY <1>2 DEF d, c
<1>12. Moves(d, r.to)
  BY <1>10, <1>11, PushOnward DEF Onward
<1>13. Moves(o, b)
  BY <1>3, <1>4, <1>5, MovesOn
<1>14. Moves(o, c)
  BY <1>3, <1>13, <1>8, MovesOn
<1>15. Moves(o, d)
  BY <1>3, <1>14, <1>10, MovesOn
<1>16. Moves(o, r.to)
  BY <1>3, <1>15, <1>12, MovesOn
<1>17. o.mark.line < r.to.mark.line
  <2>1. d.mark.line <= r.to.mark.line /\ Scan(r.to)
    BY <1>12 DEF Moves
  <2>2. r.to.mark.line \in Nat /\ at.line \in Nat
    BY <1>9, <2>1, ScanLine DEF Marks
  <2>3. QED
    BY <1>1, <1>3, <1>9, <1>10, <2>1, <2>2
<1>18. QED
  BY <1>3, <1>16, <1>17, DueMoved DEF Safe

\* A key is saved and none may follow it.
LEMMA SaveDisallowed ==
  ASSUME NEW s, Settled(s)
  PROVE  LET a == DisallowKey(SaveSimpleKey(s))
         IN  /\ Carries(s, a) /\ Scan(a) /\ a.mark = s.mark /\ a.flow_level = s.flow_level
             /\ a.simple_key_allowed = FALSE
<1>1. LET o == SaveSimpleKey(s) IN Carries(s, o) /\ o.mark = s.mark /\ o.flow_level = s.flow_level
  BY SaveCarries DEF Settled
<1> DEFINE o == SaveSimpleKey(s)
<1>2. Carries(s, o) /\ o.mark = s.mark /\ o.flow_level = s.flow_level
  BY <1>1
<1> HIDE DEF o
<1>3. /\ Carries(s, DisallowKey(o)) /\ DisallowKey(o).mark = o.mark
      /\ DisallowKey(o).flow_level = o.flow_level /\ DisallowKey(o).simple_key_allowed = FALSE
  BY <1>2, AllowCarries
<1>4. QED
  BY <1>2, <1>3 DEF o, Carries

LEMMA UnrollNonBlockMark ==
  ASSUME NEW s, Scan(s)
  PROVE  UnrollNonBlock(s).mark = s.mark
BY DEF UnrollNonBlock, Closed, Scan

LEMMA PushSafe ==
  ASSUME NEW s, NEW t, Carries(s, t), t.simple_key_allowed = FALSE, NEW kind, NEW at
  PROVE  Safe(s, Push(t, kind, at)) /\ Carries(s, Push(t, kind, at))
         /\ Push(t, kind, at).simple_key_allowed = FALSE
<1>1. Scan(t)
  BY DEF Carries
<1>2. Onward(t, Push(t, kind, at))
  BY <1>1, PushOnward
<1>3. QED
  BY <1>2, OnwardCarries, DisallowedSafe

LEMMA PlainScalarSafe ==
  ASSUME NEW s, Settled(s), text \in Texts, NEW w, NEW r \in PlainScalar(s, w)
  PROVE  Safe(s, r.to)
<1> DEFINE a == DisallowKey(SaveSimpleKey(s))
           b == UnrollNonBlock(a)
           line == s.mark.line
           Scalar(t) == Push(t, "Scalar", s.mark)
<1>1. s.mark \in Marks /\ line \in Nat /\ Scan(s)
  BY SettledCarries
<1>2. \/ r \in Error(s)
      \/ \E width \in {1, KeyLimit + 1} : r.to = Scalar(Past(b, width))
      \/ \E l \in {line + 1} : r.to = Scalar(MoveTo(b, [line |-> l, col |-> 2]))
      \/ \E at \in NextPlaces(line + 1) \cup NextPlaces(line + 2) :
           r.to = Scalar(AllowKey(MoveTo(b, at)))
  <2>1. \/ r \in Error(s)
        \/ \E width \in {1, KeyLimit + 1} : r = Result(Scalar(Past(b, width)), "plain")
        \/ \E l \in {line + 1} \cap 1 .. text.lines :
             r = Result(Scalar(MoveTo(b, [line |-> l, col |-> 2])), "plain")
        \/ \E at \in NextPlaces(line + 1) \cup NextPlaces(line + 2) :
             r = Result(Scalar(AllowKey(MoveTo(b, at))), "margin")
    BY DEF PlainScalar
  <2> HIDE DEF Scalar, b
  <2>2. CASE r \in Error(s)
    BY <2>2
  <2>3. CASE \E width \in {1, KeyLimit + 1} : r = Result(Scalar(Past(b, width)), "plain")
    BY <2>3 DEF Result
  <2>4. CASE \E l \in {line + 1} \cap 1 .. text.lines :
               r = Result(Scalar(MoveTo(b, [line |-> l, col |-> 2])), "plain")
    BY <2>4 DEF Result
  <2>5. CASE \E at \in NextPlaces(line + 1) \cup NextPlaces(line + 2) :
               r = Result(Scalar(AllowKey(MoveTo(b, at))), "margin")
    BY <2>5 DEF Result
  <2>6. QED
    BY <2>1, <2>2, <2>3, <2>4, <2>5
<1>3. Carries(s, a) /\ Scan(a) /\ a.mark = s.mark /\ a.simple_key_allowed = FALSE
  BY SaveDisallowed
<1> HIDE DEF a
<1>4. Carries(s, b) /\ Scan(b) /\ b.mark = s.mark /\ b.simple_key_allowed = FALSE
  BY <1>3, UnrollNonBlockOnward, UnrollNonBlockMark, OnwardCarries
<1> HIDE DEF b
<1>5. ASSUME NEW width \in {1, KeyLimit + 1}
      PROVE  Safe(s, Scalar(Past(b, width)))
  <2>1. width \in Nat
    BY ScannerConstants
  <2>2. Onward(b, Past(b, width))
    BY <1>4, <2>1, MarkOnward
  <2>3. Carries(s, Past(b, width)) /\ Past(b, width).simple_key_allowed = FALSE
    BY <1>4, <2>2, OnwardCarries
  <2>4. QED
    BY <2>3, PushSafe
<1>6. ASSUME NEW l \in {line + 1}
      PROVE  Safe(s, Scalar(MoveTo(b, [line |-> l, col |-> 2])))
  <2> DEFINE at == [line |-> l, col |-> 2]
  <2>1. at \in Marks /\ s.mark.line <= at.line
    BY <1>1 DEF Marks
  <2> HIDE DEF at
  <2>2. Onward(b, MoveTo(b, at))
    BY <1>4, <2>1, MarkOnward
  <2>3. Carries(s, MoveTo(b, at)) /\ MoveTo(b, at).simple_key_allowed = FALSE
    BY <1>4, <2>2, OnwardCarries
  <2>4. Safe(s, Scalar(MoveTo(b, at)))
    BY <2>3, PushSafe
  <2>5. QED
    BY <2>4 DEF at
<1>7. ASSUME NEW at \in NextPlaces(line + 1) \cup NextPlaces(line + 2)
      PROVE  Safe(s, Scalar(AllowKey(MoveTo(b, at))))
  <2>1. line + 1 \in Nat /\ line + 2 \in Nat
    BY <1>1
  <2>2. at \in Marks /\ (at.line = line + 1 \/ at.line = line + 2)
    BY <2>1, PlacesPass
  <2>3. s.mark.line <= at.line /\ s.mark.line < at.line
    BY <1>1, <2>2
  <2> DEFINE c == MoveTo(b, at)
             d == AllowKey(c)
             e == Scalar(d)
  <2>4. Moves(b, c) /\ c.mark = at /\ Scan(c)
    BY <1>4, <2>2, <2>3, MarkOnward DEF Onward, Moves
  <2> HIDE DEF c
  <2>5. Moves(c, d) /\ d.mark = at /\ Scan(d)
    BY <2>4, AllowMoves DEF Moves
  <2> HIDE DEF d
  <2>6. Moves(d, e) /\ Scan(e) /\ d.mark.line <= e.mark.line
    BY <2>5, PushOnward DEF Onward, Moves
  <2> HIDE DEF e
  <2>7. Moves(b, d)
    BY <1>4, <2>4, <2>5, MovesOn
  <2>8. Moves(b, e)
    BY <1>4, <2>7, <2>6, MovesOn
  <2>9. b.mark.line < e.mark.line
    <3>1. e.mark.line \in Nat /\ at.line \in Nat
      BY <2>2, <2>6, ScanLine DEF Marks
    <3>2. QED
      BY <1>1, <1>4, <2>3, <2>5, <2>6, <3>1
  <2>10. Safe(s, e)
    BY <1>4, <2>8, <2>9, DueMoved DEF Safe
  <2>11. QED
    BY <2>10 DEF e, d, c
<1> HIDE DEF Scalar
<1>8. CASE r \in Error(s)
  BY <1>1, <1>8, ErrorSafe DEF Safe
<1>9. QED
  BY <1>2, <1>5, <1>6, <1>7, <1>8

LEMMA QuotedScalarSafe ==
  ASSUME NEW s, Settled(s), text \in Texts, NEW w, NEW r \in QuotedScalar(s, w)
  PROVE  Safe(s, r.to)
<1> DEFINE a == DisallowKey(SaveSimpleKey(s))
           one == Past(a, 2)
           two == {MoveTo(a, [line |-> l, col |-> 2]) : l \in {s.mark.line + 1}}
           Scalar(t) == Push([t EXCEPT !.adjacent_value_allowed_at = t.mark], "Scalar", s.mark)
<1>1. s.mark \in Marks /\ s.mark.line \in Nat
  BY SettledCarries
<1>2. \E t \in {one} \cup two :
        \/ r.to = Scalar(t)
        \/ \E gap \in Blanks(t, TRUE, TRUE) : r.to = Scalar(Skip(t, gap))
  <2> DEFINE three == {MoveTo(a, [line |-> l, col |-> 2]) :
                         l \in {s.mark.line + 1} \cap 1 .. text.lines}
  <2>1. \/ \E t \in {one} \cup IF s.flow_level > 0 THEN three ELSE {} :
             r = Result(Scalar(t), "quoted")
        \/ \E t \in {one} \cup three : \E gap \in Blanks(t, TRUE, TRUE) :
             r = Result(Scalar(Skip(t, gap)), "word")
    BY Zenon DEF QuotedScalar
  <2>2. three \subseteq two
    BY Zenon
  <2> HIDE DEF Scalar, one, two, three
  <2>3. CASE \E t \in {one} \cup IF s.flow_level > 0 THEN three ELSE {} :
               r = Result(Scalar(t), "quoted")
    <3>1. PICK t \in {one} \cup three : r = Result(Scalar(t), "quoted")
      BY <2>3
    <3>2. QED
      BY <2>2, <3>1 DEF Result
  <2>4. CASE \E t \in {one} \cup three : \E gap \in Blanks(t, TRUE, TRUE) :
               r = Result(Scalar(Skip(t, gap)), "word")
    <3>1. PICK t \in {one} \cup three :
            \E gap \in Blanks(t, TRUE, TRUE) : r = Result(Scalar(Skip(t, gap)), "word")
      BY <2>4
    <3>2. PICK gap \in Blanks(t, TRUE, TRUE) : r = Result(Scalar(Skip(t, gap)), "word")
      BY <3>1
    <3>3. r.to = Scalar(Skip(t, gap))
      BY <3>2 DEF Result
    <3>4. QED
      BY <2>2, <3>3
  <2>5. QED
    BY <2>1, <2>3, <2>4
<1>3. Carries(s, a) /\ Scan(a) /\ a.mark = s.mark /\ a.simple_key_allowed = FALSE
  BY SaveDisallowed
<1> HIDE DEF a
<1>4. ASSUME NEW t \in {one} \cup two
      PROVE  Carries(s, t) /\ Scan(t) /\ t.simple_key_allowed = FALSE
  <2>1. CASE t = one
    BY <1>3, <2>1, MarkOnward, OnwardCarries
  <2>2. CASE t \in two
    <3> DEFINE at == [line |-> s.mark.line + 1, col |-> 2]
    <3>1. t = MoveTo(a, at)
      BY <2>2
    <3>2. at \in Marks /\ a.mark.line <= at.line
      BY <1>1, <1>3 DEF Marks
    <3> HIDE DEF at
    <3>3. Onward(a, t)
      BY <1>3, <3>1, <3>2, MarkOnward
    <3>4. QED
      BY <1>3, <3>3, OnwardCarries
  <2>3. QED
    BY <2>1, <2>2
<1> HIDE DEF one, two
<1>5. ASSUME NEW t, Scan(t)
      PROVE  Onward(t, Scalar(t))
  <2> DEFINE u == [t EXCEPT !.adjacent_value_allowed_at = t.mark]
  <2>1. t.mark.line \in Nat
    BY <1>5, ScanLine
  <2>2. Onward(t, u) /\ Scan(u)
    BY <1>5, <2>1 DEF Scan, Onward, Moves
  <2> HIDE DEF u
  <2>3. Onward(u, Push(u, "Scalar", s.mark))
    BY <2>2, PushOnward
  <2>4. Onward(t, Push(u, "Scalar", s.mark))
    BY <1>5, <2>2, <2>3, OnwardOn
  <2>5. QED
    BY <2>4 DEF u
<1> HIDE DEF Scalar
<1>6. PICK t \in {one} \cup two :
        \/ r.to = Scalar(t)
        \/ \E gap \in Blanks(t, TRUE, TRUE) : r.to = Scalar(Skip(t, gap))
  BY <1>2
<1>7. CASE r.to = Scalar(t)
  <2>1. Onward(t, r.to)
    BY <1>4, <1>5, <1>7
  <2> DEFINE u == r.to
  <2>2. Carries(s, t) /\ Onward(t, u) /\ t.simple_key_allowed = FALSE
    BY <1>4, <2>1
  <2> HIDE DEF u
  <2>3. Carries(s, u) /\ u.simple_key_allowed = FALSE
    BY <2>2, OnwardCarries
  <2>4. QED
    BY <2>3, DisallowedSafe DEF u
<1>8. CASE \E gap \in Blanks(t, TRUE, TRUE) : r.to = Scalar(Skip(t, gap))
  <2>1. PICK gap \in Blanks(t, TRUE, TRUE) : r.to = Scalar(Skip(t, gap))
    BY <1>8
  <2>2. Scan(t) /\ t.mark.line \in Nat
    BY <1>4, ScanLine
  <2>3. Passes(t, gap)
    BY <2>2, BlanksPass
  <2>4. Scan(Skip(t, gap))
    BY <2>2, <2>3, SkipMoves DEF Moves
  <2>5. Onward(Skip(t, gap), r.to)
    BY <1>5, <2>1, <2>4
  <2>6. QED
    BY <1>4, <2>3, <2>5, SkipSafe
<1>9. QED
  BY <1>6, <1>7, <1>8

LEMMA MarkerSafe ==
  ASSUME NEW s, Settled(s), NEW w, NEW r \in Marker(s, w)
  PROVE  Safe(s, r.to)
<1> DEFINE a == UnrollIndent(s, -1)
           b == DisallowKey(RemoveSimpleKey(a))
           c == Past(b, 4)
           d == Push(c, "DocumentStart", s.mark)
           e == Push(c, "DocumentEnd", s.mark)
           N(notes) == [e EXCEPT !.tokens = @ \o Notes(notes)]
<1>1. r.to = d \/ \E notes \in {<<>>, <<s.mark.line>>} : r.to = N(notes)
  <2>1. r = Result(d, "any") \/ \E notes \in {<<>>, <<s.mark.line>>} : r = Result(N(notes), "eol")
    BY DEF Marker
  <2> HIDE DEF d, N
  <2>2. QED
    BY <2>1 DEF Result
<1>2. Carries(s, a)
  BY SettledCarries, UnrollIndentOnward, OnwardCarries
<1> HIDE DEF a
<1>3. Carries(s, b) /\ Scan(b) /\ b.simple_key_allowed = FALSE
  BY <1>2, RemoveCarries, AllowCarries DEF Carries
<1> HIDE DEF b
<1>4. Carries(s, c) /\ c.simple_key_allowed = FALSE
  BY <1>3, MarkOnward, OnwardCarries
<1> HIDE DEF c
<1>5. Safe(s, d) /\ Carries(s, e) /\ e.simple_key_allowed = FALSE
  BY <1>4, PushSafe
<1> HIDE DEF d, e
<1>6. ASSUME NEW notes
      PROVE  Safe(s, N(notes))
  <2>1. Onward(e, N(notes))
    BY <1>5, NoteOnward DEF Carries
  <2> HIDE DEF N
  <2>2. QED
    BY <1>5, <2>1, OnwardCarries, DisallowedSafe
<1> HIDE DEF N
<1>7. QED
  BY <1>1, <1>5, <1>6

LEMMA DirectiveSafe ==
  ASSUME NEW s, Settled(s), text \in Texts, NEW w, NEW r \in Directive(s, w)
  PROVE  Safe(s, r.to)
<1> DEFINE a == UnrollIndent(s, -1)
           b == DisallowKey(RemoveSimpleKey(a))
           N(notes) == [b EXCEPT !.tokens = @ \o Notes(notes)]
           places == NextPlaces(s.mark.line + 1)
           F(notes, at) == Result(Push(MoveTo(N(notes), at), "Directive", s.mark), "here")
<1>1. s.mark \in Marks /\ s.mark.line \in Nat /\ s \in State /\ Steady(s)
  BY SettledCarries DEF Settled
<1>2. PICK notes \in {<<>>, <<s.mark.line>>}, at \in places :
        r.to = Push(MoveTo(N(notes), at), "Directive", s.mark)
  <2>1. Directive(s, w) = {F(notes, at) : notes \in {<<>>, <<s.mark.line>>}, at \in places}
    BY DEF Directive
  <2> HIDE DEF places, F, N
  <2>2. PICK notes \in {<<>>, <<s.mark.line>>}, at \in places : r = F(notes, at)
    BY <2>1
  <2>3. r.to = Push(MoveTo(N(notes), at), "Directive", s.mark)
    BY <2>2 DEF F, Result
  <2>4. QED
    BY <2>3
<1> HIDE DEF F
<1>3. Steady(b) /\ b.mark = s.mark
  <2>1. Steady(a) /\ a.mark = s.mark
    BY <1>1, UnrollIndentSteady
  <2> HIDE DEF a
  <2>2. QED
    BY <2>1, RemoveSteady, AllowSteady
<1>4. Carries(s, a)
  BY SettledCarries, UnrollIndentOnward, OnwardCarries
<1> HIDE DEF a
<1>5. Carries(s, b) /\ Scan(b) /\ b.simple_key_allowed = FALSE
  BY <1>4, RemoveCarries, AllowCarries DEF Carries
<1> HIDE DEF b
<1> DEFINE c == N(notes)
<1>6. Onward(b, c) /\ c.mark = s.mark
  <2>1. Onward(b, c)
    BY <1>5, NoteOnward
  <2>2. c.mark = b.mark
    BY <1>5 DEF Scan
  <2>3. QED
    BY <1>3, <2>1, <2>2
<1>7. r.to = Push(MoveTo(c, at), "Directive", s.mark)
  BY <1>2
<1> HIDE DEF N, c
<1>8. Carries(s, c) /\ Scan(c) /\ c.simple_key_allowed = FALSE
  BY <1>5, <1>6, OnwardCarries
<1>9. at \in Marks /\ c.mark.line <= at.line
  <2>1. s.mark.line + 1 \in Nat
    BY <1>1
  <2>2. at \in Marks /\ at.line = s.mark.line + 1
    BY <1>2, <2>1, PlacesPass
  <2>3. QED
    BY <1>1, <1>6, <2>2
<1>10. Carries(s, MoveTo(c, at)) /\ MoveTo(c, at).simple_key_allowed = FALSE
  BY <1>8, <1>9, MarkOnward, OnwardCarries
<1> DEFINE d == MoveTo(c, at)
<1> HIDE DEF d
<1>11. Safe(s, Push(d, "Directive", s.mark))
  BY <1>10, PushSafe DEF d
<1>12. QED
  BY <1>7, <1>11 DEF d

LEMMA StreamEndSafe ==
  ASSUME NEW s, Settled(s), NEW w, NEW r \in StreamEnd(s, w)
  PROVE  Safe(s, r.to)
<1> DEFINE at == [line |-> s.mark.line + 1, col |-> 0]
           a == IF s.mark.col = 0 THEN s ELSE MoveTo(s, at)
           f == Forget(a, DOMAIN a.simple_keys)
           g == UnrollIndent(f, -1)
           h == RemoveSimpleKey(g)
           k == DisallowKey(h)
<1>1. r.to = Push(k, "StreamEnd", h.mark)
  BY DEF StreamEnd, Result
<1>2. Carries(s, s) /\ Scan(s) /\ s.mark.line \in Nat
  BY SettledCarries
<1>3. at \in Marks /\ s.mark.line <= at.line
  BY <1>2 DEF Marks
<1> HIDE DEF at
<1>4. Carries(s, a)
  BY <1>2, <1>3, MarkOnward, OnwardCarries
<1> HIDE DEF a
<1>5. Carries(s, f) /\ Scan(f)
  BY <1>4, ForgetCarries DEF Carries
<1> HIDE DEF f
<1>6. Carries(s, g)
  BY <1>5, UnrollIndentOnward, OnwardCarries
<1> HIDE DEF g
<1>7. Carries(s, k) /\ k.simple_key_allowed = FALSE
  BY <1>6, RemoveCarries, AllowCarries
<1> HIDE DEF k
<1>8. Safe(s, Push(k, "StreamEnd", h.mark))
  BY <1>7, PushSafe
<1>9. QED
  BY <1>1, <1>8

LEMMA StillContains ==
  ASSUME NEW ts \in Seq(Tokens), NEW tok \in Tokens, NEW b \in 0 .. Len(ts), NEW k,
         Contains(ts, k)
  PROVE  LET us == InsertAt(ts, b + 1, tok)
         IN  us \in Seq(Tokens) /\ b \in 0 .. Len(us) /\ Contains(us, k)
<1> DEFINE us == InsertAt(ts, b + 1, tok)
<1>1. /\ us \in Seq(Tokens) /\ Len(us) = Len(ts) + 1
      /\ \A i \in 1 .. b : us[i] = ts[i]
      /\ \A i \in b + 2 .. Len(ts) + 1 : us[i] = ts[i - 1]
  BY InsertedAre
<1> HIDE DEF us
<1>2. Len(ts) \in Nat /\ b \in Nat
  OBVIOUS
<1>3. PICK i \in 1 .. Len(ts) : ts[i] = k
  BY DEF Contains
<1>0. us \in Seq(Tokens) /\ b \in 0 .. Len(us)
  BY <1>1, <1>2
<1>4. ASSUME i \in 1 .. b
      PROVE  Contains(us, k)
  <2>1. i \in 1 .. Len(us)
    BY <1>1, <1>2
  <2>2. us[i] = k
    BY <1>1, <1>3, <1>4
  <2>3. QED
    BY <2>1, <2>2 DEF Contains
<1>5. ASSUME i \notin 1 .. b
      PROVE  Contains(us, k)
  <2> DEFINE j == i + 1
  <2>1. j \in b + 2 .. Len(ts) + 1 /\ j - 1 = i /\ j \in 1 .. Len(us)
    BY <1>1, <1>2, <1>5
  <2> HIDE DEF j
  <2>2. us[j] = k
    BY <1>1, <1>3, <2>1
  <2>3. QED
    BY <2>1, <2>2 DEF Contains
<1>6. QED
  BY <1>0, <1>4, <1>5 DEF us

LEMMA InsertTokens ==
  ASSUME NEW s, Scan(s), NEW number, NEW kind, NEW at
  PROVE  LET t == Insert(s, number, kind, at)
         IN  /\ t.tokens = InsertAt(s.tokens, number - s.tokens_parsed + 1, Token(kind, at))
             /\ t.tokens_parsed = s.tokens_parsed /\ Scan(t)
<1>1. Onward(s, Insert(s, number, kind, at))
  BY InsertOnward
<1>2. Scan(Insert(s, number, kind, at))
  BY <1>1 DEF Onward, Moves
<1>3. QED
  BY <1>2 DEF Insert, Scan

\* The number of a place in the queue.
Place(s, b, number) ==
  /\ Scan(s) /\ s.tokens \in Seq(Tokens) /\ b \in 0 .. Len(s.tokens)
  /\ s.tokens_parsed \in Nat /\ number = s.tokens_parsed + b

LEMMA PlaceInserted ==
  ASSUME NEW s, NEW b, NEW number, Place(s, b, number), NEW kind \in Content, NEW at \in Marks
  PROVE  LET t == Insert(s, number, kind, at)
         IN  /\ Place(t, b, number)
             /\ Contains(t.tokens, Token(kind, at))
             /\ \A k : Contains(s.tokens, k) => Contains(t.tokens, k)
<1> DEFINE t == Insert(s, number, kind, at)
           tok == Token(kind, at)
           ts == s.tokens
           us == InsertAt(ts, b + 1, tok)
<1>0. /\ Scan(s) /\ ts \in Seq(Tokens) /\ b \in 0 .. Len(ts)
      /\ s.tokens_parsed \in Nat /\ number = s.tokens_parsed + b
  BY DEF Place
<1>1. tok \in Tokens
  BY TokenType DEF Content
<1> HIDE DEF tok
<1>2. number - s.tokens_parsed + 1 = b + 1
  BY <1>0
<1>3. Scan(t) /\ t.tokens = us /\ t.tokens_parsed = s.tokens_parsed
  BY <1>0, <1>2, InsertTokens DEF tok
<1> HIDE DEF t
<1>4. us \in Seq(Tokens) /\ Len(us) = Len(ts) + 1 /\ us[b + 1] = tok
  BY <1>0, <1>1, InsertedAre
<1> HIDE DEF us
<1>5. Len(ts) \in Nat /\ b \in Nat /\ b <= Len(ts)
  BY <1>0
<1>6. b \in 0 .. Len(us) /\ b + 1 \in 1 .. Len(us)
  BY <1>4, <1>5
<1>7. Contains(us, tok)
  BY <1>4, <1>6 DEF Contains
<1>8. ASSUME NEW k, Contains(ts, k)
      PROVE  Contains(us, k)
  BY <1>0, <1>1, <1>8, StillContains DEF us
<1>9. Place(t, b, number)
  BY <1>0, <1>3, <1>4, <1>6 DEF Place
<1>10. QED
  BY <1>3, <1>7, <1>8, <1>9 DEF t, tok

LEMMA IndentsTokens ==
  ASSUME NEW s, Scan(s)
  PROVE  /\ Scan(UnrollNonBlock(s)) /\ UnrollNonBlock(s).tokens = s.tokens
         /\ UnrollNonBlock(s).tokens_parsed = s.tokens_parsed
         /\ RollOneCol(s).tokens = s.tokens
<1>1. Scan(UnrollNonBlock(s))
  BY UnrollNonBlockOnward DEF Onward, Moves
<1>2. UnrollNonBlock(s).tokens = s.tokens /\ UnrollNonBlock(s).tokens_parsed = s.tokens_parsed
  BY DEF UnrollNonBlock, Closed, Scan
<1>3. RollOneCol(s).tokens = s.tokens
  BY DEF RollOneCol, Opened, Scan
<1>4. QED
  BY <1>1, <1>2, <1>3

LEMMA OpenedTokens ==
  ASSUME NEW s, Scan(s), NEW block, NEW indent
  PROVE  LET o == Opened(s, block, indent)
         IN  Scan(o) /\ o.tokens = s.tokens /\ o.tokens_parsed = s.tokens_parsed
<1>1. Onward(s, Opened(s, block, indent))
  BY OpenedOnward
<1>2. Scan(Opened(s, block, indent))
  BY <1>1 DEF Onward, Moves
<1>3. QED
  BY <1>2 DEF Opened, Scan

LEMMA RollIndentContains ==
  ASSUME NEW s, NEW b, NEW number, Place(s, b, number),
         NEW col, NEW kind \in Content, NEW at \in Marks, NEW k, Contains(s.tokens, k)
  PROVE  LET t == RollIndent(s, col, number, kind, at)
         IN  t.tokens \in Seq(Tokens) /\ Contains(t.tokens, k)
<1> DEFINE r == IF s.indent <= col THEN UnrollNonBlock(s) ELSE s
           o == Opened(r, TRUE, col)
           i == Insert(o, number, kind, at)
<1>1. RollIndent(s, col, number, kind, at) \in {s, r, i}
  BY Zenon DEF RollIndent
<1>2. Scan(r) /\ r.tokens = s.tokens /\ r.tokens_parsed = s.tokens_parsed
  BY IndentsTokens DEF Place
<1> HIDE DEF r
<1>3. Scan(o) /\ o.tokens = s.tokens /\ o.tokens_parsed = s.tokens_parsed
  BY <1>2, OpenedTokens
<1> HIDE DEF o
<1>4. i.tokens \in Seq(Tokens) /\ Contains(i.tokens, k)
  <2>1. Place(o, b, number) /\ Contains(o.tokens, k)
    BY <1>3 DEF Place
  <2>2. Place(i, b, number) /\ Contains(i.tokens, k)
    BY <2>1, PlaceInserted
  <2>3. QED
    BY <2>2 DEF Place
<1> HIDE DEF i
<1>5. s.tokens \in Seq(Tokens)
  BY DEF Place
<1>6. QED
  BY <1>1, <1>2, <1>4, <1>5

\* The key of the innermost simple key is queued.
LEMMA KeyContained ==
  ASSUME NEW s, Steady(s), NEW at \in Marks, Last(s.simple_keys).possible
  PROVE  LET key == Last(s.simple_keys)
             r == Insert(s, key.token_number, "Key", key.mark)
             t == IF s.implicit_flow_mapping
                  THEN Insert(r, key.token_number, "FlowMappingStart", s.mark) ELSE r
             u == RollOneCol(RollIndent(t, key.mark.col, key.token_number, "BlockMappingStart", at))
         IN  /\ Contains(u.tokens, Token("Key", key.mark)) /\ Onward(s, u)
             /\ u.tokens \in Seq(Tokens)
<1> DEFINE key == Last(s.simple_keys)
           number == key.token_number
           b == number - s.tokens_parsed
           r == Insert(s, number, "Key", key.mark)
           q == Insert(r, number, "FlowMappingStart", s.mark)
           t == IF s.implicit_flow_mapping THEN q ELSE r
           v == RollIndent(t, key.mark.col, number, "BlockMappingStart", at)
           u == RollOneCol(v)
           k == Token("Key", key.mark)
<1>1. /\ s \in State /\ Scan(s) /\ s.tokens \in Seq(Tokens) /\ s.tokens_parsed \in Nat
      /\ s.mark \in Marks
  BY SteadySound, SoundScan, Fields
<1>2. /\ key.mark \in Marks /\ b \in 0 .. Len(s.tokens) /\ number = s.tokens_parsed + b
  BY InnermostKey
<1>3. "Key" \in Content /\ "FlowMappingStart" \in Content /\ "BlockMappingStart" \in Content
  BY DEF Content, Kinds, Openers
<1> HIDE DEF key, b, number
<1>4. Place(s, b, number)
  BY <1>1, <1>2 DEF Place
<1>5. Place(r, b, number) /\ Contains(r.tokens, k)
  BY <1>2, <1>3, <1>4, PlaceInserted
<1>6. Onward(s, r) /\ Scan(r)
  BY <1>1, InsertOnward DEF Onward, Moves
<1> HIDE DEF r, k
<1>7. Place(q, b, number) /\ Contains(q.tokens, k)
  BY <1>1, <1>3, <1>5, PlaceInserted
<1>8. Onward(s, q) /\ Scan(q)
  BY <1>1, <1>6, InsertOnward, OnwardOn DEF Onward, Moves
<1> HIDE DEF q
<1>9. Place(t, b, number) /\ Contains(t.tokens, k) /\ Onward(s, t) /\ Scan(t)
  BY <1>5, <1>6, <1>7, <1>8
<1> HIDE DEF t
<1>10. Contains(v.tokens, k) /\ v.tokens \in Seq(Tokens)
  BY <1>3, <1>9, RollIndentContains
<1>11. Onward(s, v) /\ Scan(v)
  BY <1>1, <1>9, RollIndentOnward, OnwardOn DEF Onward, Moves
<1> HIDE DEF v
<1>12. Contains(u.tokens, k) /\ Onward(s, u) /\ u.tokens \in Seq(Tokens)
  BY <1>1, <1>10, <1>11, IndentsTokens, RollOneColOnward, OnwardOn
<1>13. QED
  BY <1>12 DEF u, v, t, q, r, k, number, key

\* The required keys are there, or their Key is queued.
Turned(s, t) ==
  \A i \in 1 .. Len(s.simple_keys) :
    Presses(s, i) =>
      \/ i \in 1 .. Len(t.simple_keys) /\ t.simple_keys[i] = s.simple_keys[i]
      \/ Contains(t.tokens, Token("Key", s.simple_keys[i].mark))

\* A step keeps the required keys, queues their Key or fails.
Met(s, t) == t.error \/ (Due(t) /\ Turned(s, t))

LEMMA SafeMet ==
  ASSUME NEW s, NEW t, Safe(s, t)
  PROVE  Met(s, t)
BY DEF Safe, Met, Held, Turned

LEMMA GivenUpKeys ==
  ASSUME NEW s, NEW u, Carries(s, u),
         NEW v, v = [u EXCEPT !.simple_keys[Len(u.simple_keys)].possible = FALSE]
  PROVE  /\ Scan(v) /\ v.tokens = u.tokens /\ Len(v.simple_keys) = Len(u.simple_keys)
         /\ v.error = u.error /\ v.mark = u.mark /\ (v.error \/ Outermost(v))
         /\ \A i \in 1 .. Len(u.simple_keys) - 1 : v.simple_keys[i] = u.simple_keys[i]
<1> DEFINE keys == u.simple_keys
           n == Len(keys)
           new == [keys[n] EXCEPT !.possible = FALSE]
           ks == [keys EXCEPT ![n] = new]
           t == [u EXCEPT !.simple_keys = ks]
<1>0. Scan(u)
  BY DEF Carries
<1>1. /\ keys \in Seq(SimpleKeys) /\ n \in Nat /\ n \in 1 .. n /\ keys[n] \in SimpleKeys
      /\ n = u.flow_level + 1 /\ u.flow_level \in Nat /\ DOMAIN keys = 1 .. n
  BY <1>0, ScanKeys
<1>2. v = t
  BY <1>0, <1>1 DEF Scan
<1>3. new \in SimpleKeys /\ new.possible = FALSE
  BY <1>1 DEF SimpleKeys
<1> HIDE DEF new
<1>4. /\ ks \in Seq(SimpleKeys) /\ Len(ks) = n
      /\ \A i \in 1 .. n : ks[i] = IF i = n THEN new ELSE keys[i]
  BY <1>1, <1>3, ExceptSeq
<1> HIDE DEF ks
<1>5. /\ t.simple_keys = ks /\ t.tokens = u.tokens /\ t.mark = u.mark /\ t.error = u.error
      /\ t.flow_level = u.flow_level /\ DOMAIN t = DOMAIN u
  BY <1>0 DEF Scan
<1> HIDE DEF t
<1>6. Scan(t)
  BY <1>0, <1>1, <1>4, <1>5 DEF Scan
<1>7. Outermost(u) => Outermost(t)
  <2>1. \A i \in 1 .. n : Presses(t, i) => Presses(u, i) /\ ks[i] = keys[i]
    BY <1>3, <1>4, <1>5 DEF Presses
  <2>2. QED
    BY <1>4, <1>5, <2>1 DEF Outermost
<1>8. \A i \in 1 .. n - 1 : i \in 1 .. n /\ i # n
  BY <1>1
<1>9. QED
  BY <1>2, <1>4, <1>5, <1>6, <1>7, <1>8 DEF Carries

LEMMA ValueOfComplexKeyCarries ==
  ASSUME NEW s, NEW b, Carries(s, b), Cleared(b), NEW at
  PROVE  LET d == ValueOfComplexKey(b, at)
         IN  Carries(s, d) /\ (Cleared(d) \/ d.simple_key_allowed = FALSE)
<1> DEFINE p == Push(b, "FlowMappingStart", b.mark)
           q == IF b.implicit_flow_mapping THEN p ELSE b
           o == RollIndent(q, at.col, NextNumber(q), "BlockMappingStart", at)
           u == RollOneCol(o)
           f == Failed(b)
<1>1. ValueOfComplexKey(b, at) \in {DisallowKey(q), f, AllowKey(u)}
  BY DEF ValueOfComplexKey
<1>2. Scan(b)
  BY DEF Carries
<1>3. Carries(s, p) /\ Cleared(p) /\ Scan(p)
  BY <1>2, PushOnward, OnwardCarries
<1> HIDE DEF p
<1>4. Carries(s, q) /\ Cleared(q) /\ Scan(q)
  BY <1>2, <1>3
<1> HIDE DEF q
<1>5. Carries(s, o) /\ Cleared(o) /\ Scan(o)
  BY <1>4, RollIndentOnward, OnwardCarries
<1> HIDE DEF o
<1>6. Carries(s, u) /\ Cleared(u)
  BY <1>5, RollOneColOnward, OnwardCarries
<1> HIDE DEF u
<1>7. Carries(s, DisallowKey(q)) /\ DisallowKey(q).simple_key_allowed = FALSE
  BY <1>4, AllowCarries
<1>8. Carries(s, AllowKey(u)) /\ Cleared(AllowKey(u))
  BY <1>6, AllowCarries
<1>9. f.error /\ Carries(s, f)
  <2>1. /\ f.error /\ f.mark = b.mark /\ f.simple_keys = b.simple_keys
        /\ f.flow_level = b.flow_level /\ DOMAIN f = DOMAIN b
    BY <1>2 DEF Failed, Scan
  <2> HIDE DEF f
  <2>2. Scan(f)
    BY <1>2, <2>1 DEF Scan
  <2>3. QED
    BY <2>1, <2>2 DEF Carries
<1> HIDE DEF f
<1>10. QED
  BY <1>1, <1>7, <1>8, <1>9 DEF Cleared

LEMMA ValueMet ==
  ASSUME NEW s, Settled(s), NEW w, NEW r \in Value(s, w)
  PROVE  Met(s, r.to)
<1> DEFINE width == IF w = ":" THEN 2 ELSE 1
           a == Past(s, width)
           x == s.flow_level > 0 /\ ~s.flow_mapping_started
           b == [a EXCEPT !.implicit_flow_mapping = x]
           c == ValueOfSimpleKey(b, s.mark)
           d == ValueOfComplexKey(b, s.mark)
           t == IF Last(s.simple_keys).possible THEN c ELSE d
           key == Last(s.simple_keys)
           k == Token("Key", key.mark)
<1>1. r.to = Push(t, "Value", s.mark)
  <2>1. \E next : r = Result(Push(t, "Value", s.mark), next)
    BY Zenon DEF Value
  <2> HIDE DEF t
  <2>2. QED
    BY <2>1 DEF Result
<1>2. /\ s \in State /\ s.mark \in Marks /\ s.mark.line \in Nat /\ Scan(s) /\ Carries(s, s)
      /\ Steady(s)
  BY SettledCarries DEF Settled
<1>3. width \in Nat /\ x \in BOOLEAN
  OBVIOUS
<1> HIDE DEF width, x
<1>4. SameQueue(s, a) /\ a.mark.line = s.mark.line /\ a \in State
  BY <1>2, <1>3, PastKept, StateKept
<1>5. Onward(s, a) /\ Scan(a)
  BY <1>2, <1>3, MarkOnward DEF Onward, Moves
<1> HIDE DEF a
<1>6. Steady(b) /\ b.simple_keys = s.simple_keys
  <2>1. SameQueue(a, b) /\ b.mark = a.mark
    BY <1>2, <1>3, <1>4, SetFlags
  <2> HIDE DEF b
  <2>2. QED
    BY <1>2, <1>4, <2>1, SteadySame DEF SameQueue
<1>7. Onward(a, b)
  <2>1. a.mark.line \in Nat
    BY <1>5, ScanLine
  <2>2. QED
    BY <1>5, <2>1 DEF Scan, Onward, Moves
<1> HIDE DEF b
<1>8. Carries(s, b) /\ Scan(b) /\ b.flow_level = s.flow_level
  BY <1>2, <1>5, <1>7, OnwardCarries
<1>9. CASE ~Last(s.simple_keys).possible
  <2>1. Cleared(b)
    <3> SUFFICES ASSUME ~(b.flow_level > 0), ~b.error, NEW i \in 1 .. Len(b.simple_keys), Presses(b, i)
                 PROVE  FALSE
      BY DEF Cleared
    <3>0. b.flow_level \in Nat /\ Len(b.simple_keys) = b.flow_level + 1
      BY <1>8, ScanKeys
    <3>1. b.flow_level = 0 /\ Len(b.simple_keys) = 1
      BY <3>0
    <3>2. i = Len(b.simple_keys)
      BY <3>1
    <3>3. QED
      BY <1>6, <1>9, <3>2 DEF Last, Presses
  <2>2. Carries(s, d) /\ (Cleared(d) \/ d.simple_key_allowed = FALSE)
    BY <1>8, <2>1, ValueOfComplexKeyCarries
  <2> HIDE DEF d
  <2>3. t = d
    BY <1>9
  <2>4. Onward(d, Push(d, "Value", s.mark))
    BY <2>2, PushOnward DEF Carries
  <2> DEFINE e == Push(d, "Value", s.mark)
  <2>5. Carries(s, e) /\ (Cleared(e) \/ e.simple_key_allowed = FALSE)
    BY <2>2, <2>4, OnwardCarries
  <2> HIDE DEF e
  <2>6. Safe(s, e)
    BY <2>5, ClearedSafe, DisallowedSafe
  <2>7. QED
    BY <1>1, <2>3, <2>6, SafeMet DEF e
<1>10. CASE Last(s.simple_keys).possible
  <2> DEFINE j == Insert(b, key.token_number, "Key", key.mark)
             q == IF b.implicit_flow_mapping
                  THEN Insert(j, key.token_number, "FlowMappingStart", b.mark) ELSE j
             u == RollOneCol(RollIndent(q, key.mark.col, key.token_number, "BlockMappingStart", s.mark))
             v == [u EXCEPT !.simple_keys[Len(u.simple_keys)].possible = FALSE]
             f == Failed(b)
  <2>1. c = f \/ c = DisallowKey(v)
    BY <1>6, Zenon DEF ValueOfSimpleKey
  <2>2. Contains(u.tokens, k) /\ Onward(b, u) /\ u.tokens \in Seq(Tokens)
    <3>1. Last(b.simple_keys) = key /\ Last(b.simple_keys).possible
      BY <1>6, <1>10
    <3>2. QED
      BY <1>2, <1>6, <3>1, KeyContained
  <2>3. key = s.simple_keys[Len(s.simple_keys)]
    BY DEF Last
  <2> HIDE DEF u, k, key
  <2>4. Carries(s, u)
    BY <1>8, <2>2, OnwardCarries
  <2>5. /\ Scan(v) /\ v.tokens = u.tokens /\ Len(v.simple_keys) = Len(u.simple_keys)
        /\ v.error = u.error /\ v.mark = u.mark /\ (v.error \/ Outermost(v))
        /\ \A i \in 1 .. Len(u.simple_keys) - 1 : v.simple_keys[i] = u.simple_keys[i]
    BY <2>4, GivenUpKeys
  <2> HIDE DEF v
  <2> DEFINE g == DisallowKey(v)
             e == Push(g, "Value", s.mark)
  <2>6. /\ Moves(v, g) /\ g.simple_key_allowed = FALSE /\ g.tokens = v.tokens
    BY <2>5, AllowMoves DEF DisallowKey, Scan
  <2> HIDE DEF g
  <2>7. Scan(g)
    BY <2>6 DEF Moves
  <2>8. Onward(g, e) /\ e.tokens = Append(g.tokens, Token("Value", s.mark))
    BY <2>7, PushOnward DEF Push, Scan
  <2> HIDE DEF e
  <2>9. /\ e.simple_keys = v.simple_keys /\ e.error = u.error /\ e.simple_key_allowed = FALSE
        /\ Moves(v, e) /\ Scan(e)
    <3>1. Moves(v, e)
      BY <2>5, <2>6, <2>8, MovesOn DEF Onward
    <3>2. QED
      BY <2>5, <2>6, <2>8, <3>1 DEF Onward, Moves
  <2>10. Contains(e.tokens, k)
    <3>1. PICK i \in 1 .. Len(u.tokens) : u.tokens[i] = k
      BY <2>2 DEF Contains
    <3> DEFINE tok == Token("Value", s.mark)
               ts == u.tokens
    <3>2. tok \in Tokens
      BY <1>2, TokenType DEF Content, Kinds
    <3> HIDE DEF tok
    <3>3. ts \in Seq(Tokens) /\ e.tokens = Append(ts, tok)
      BY <2>2, <2>5, <2>6, <2>8 DEF tok
    <3> HIDE DEF ts
    <3>4. i \in 1 .. Len(Append(ts, tok)) /\ Append(ts, tok)[i] = ts[i]
      BY <3>1, <3>2, <3>3 DEF ts
    <3>5. QED
      BY <3>1, <3>3, <3>4 DEF Contains, ts
  <2>11. ASSUME ~e.error
         PROVE  Due(e) /\ Turned(s, e)
    <3>1. Held(s, u) /\ Outermost(v)
      BY <2>4, <2>5, <2>9, <2>11 DEF Carries
    <3>2. Carries(v, e)
      <4>1. Held(v, v)
        BY DEF Held
      <4>2. Carries(v, v)
        BY <2>5, <3>1, <4>1 DEF Carries
      <4>3. QED
        BY <2>9, <4>2, CarriesOn
    <3>3. Due(e)
      BY <2>9, <2>11, <3>2, DisallowedSafe DEF Safe
    <3>4. Turned(s, e)
      <4> SUFFICES ASSUME NEW i \in 1 .. Len(s.simple_keys), Presses(s, i)
                   PROVE  \/ i \in 1 .. Len(e.simple_keys) /\ e.simple_keys[i] = s.simple_keys[i]
                          \/ Contains(e.tokens, Token("Key", s.simple_keys[i].mark))
        BY DEF Turned
      <4>1. i \in 1 .. Len(u.simple_keys) /\ u.simple_keys[i] = s.simple_keys[i]
        BY <3>1 DEF Held
      <4>2. Len(u.simple_keys) \in Nat /\ u.simple_keys = s.simple_keys
        <5>1. u.simple_keys = s.simple_keys
          BY <1>6, <2>2 DEF Onward, Moves
        <5>2. QED
          BY <1>2, <5>1, ScanKeys
      <4>3. CASE i = Len(u.simple_keys)
        <5>1. Token("Key", s.simple_keys[i].mark) = k
          BY <2>3, <4>2, <4>3 DEF k
        <5>2. QED
          BY <2>10, <5>1
      <4>4. CASE i # Len(u.simple_keys)
        <5>1. i \in 1 .. Len(u.simple_keys) - 1
          BY <4>1, <4>2, <4>4
        <5>2. QED
          BY <2>5, <2>9, <4>1, <5>1
      <4>5. QED
        BY <4>3, <4>4
    <3>5. QED
      BY <3>3, <3>4
  <2>12. CASE c = f
    <3> DEFINE h == Push(f, "Value", s.mark)
    <3>1. f.error
      BY <1>8 DEF Failed, Scan
    <3>2. h.error
      BY <1>8, <3>1 DEF Push, Failed, Scan
    <3> HIDE DEF h, f
    <3>3. r.to = Push(f, "Value", s.mark)
      BY <1>1, <1>10, <2>12
    <3>4. QED
      BY <3>2, <3>3 DEF h, Met
  <2>13. CASE c = g
    <3> HIDE DEF f, c
    <3>1. r.to = e
      BY <1>1, <1>10, <2>13 DEF e
    <3>2. QED
      BY <2>11, <3>1 DEF Met
  <2>14. QED
    BY <2>1, <2>12, <2>13 DEF g
<1>11. QED
  BY <1>9, <1>10

\* The invariant, with what holds of the required keys.
KInv == IInv /\ (scanner.error \/ Due(scanner))

LEMMA KeysStart == Init => KInv
<1> SUFFICES ASSUME Init PROVE KInv
  OBVIOUS
<1>1. scanner.simple_keys = <<>>
  BY DEF Init
<1>2. Due(scanner)
  BY <1>1 DEF Due
<1>3. QED
  BY <1>2, Starts DEF KInv

LEMMA FetchingSettled ==
  ASSUME KInv, Calling, scanner.stream_start_produced, NeedMore(Checked), NEW w,
         NEW gap \in Gaps(Checked, w)
  PROVE  LET s == Found(gap)
         IN  Scan(s) /\ (s.error \/ (Settled(s) /\ Held(scanner, s)))
<1>1. Steady(scanner) /\ Due(scanner) /\ text \in Texts
  BY FetchingSteady DEF KInv, IInv, Calling
<1> DEFINE s == Found(gap)
<1>2. Steady(s) /\ (s.error \/ (Due(s) /\ Free(s) /\ Held(scanner, s)))
  BY <1>1, FoundSteady, FoundFree
<1> HIDE DEF s
<1>3. QED
  BY <1>2, SteadySound, SoundScan DEF Settled, s

LEMMA FetchMet ==
  ASSUME KInv, Calling, NEW s, NEW t, t.error \/ (Held(scanner, s) /\ Met(s, t)),
         scanner' = Failed(scanner) \/ (~t.error /\ scanner' = t)
  PROVE  Met(scanner, scanner')
<1>1. CASE scanner' = Failed(scanner)
  <2>1. "error" \in DOMAIN scanner
    BY DEF KInv, IInv, Fresh, Steady, Sound, Finished, State, Scanners
  <2>2. Failed(scanner).error
    BY <2>1 DEF Failed
  <2>3. QED
    BY <1>1, <2>2 DEF Met
<1>2. CASE ~t.error /\ scanner' = t
  <2>1. Held(scanner, s) /\ Due(t) /\ Turned(s, t)
    BY <1>2 DEF Met
  <2>2. Turned(scanner, t)
    <3> SUFFICES ASSUME NEW i \in 1 .. Len(scanner.simple_keys), Presses(scanner, i)
                 PROVE  \/ i \in 1 .. Len(t.simple_keys) /\ t.simple_keys[i] = scanner.simple_keys[i]
                        \/ Contains(t.tokens, Token("Key", scanner.simple_keys[i].mark))
      BY DEF Turned
    <3>1. i \in 1 .. Len(s.simple_keys) /\ s.simple_keys[i] = scanner.simple_keys[i]
      BY <2>1 DEF Held
    <3>2. Presses(s, i)
      BY <3>1 DEF Presses
    <3>3. \/ i \in 1 .. Len(t.simple_keys) /\ t.simple_keys[i] = s.simple_keys[i]
          \/ Contains(t.tokens, Token("Key", s.simple_keys[i].mark))
      BY <2>1, <3>1, <3>2 DEF Turned
    <3>4. QED
      BY <3>1, <3>3
  <2>3. QED
    BY <1>2, <2>1, <2>2 DEF Met
<1>3. QED
  BY <1>1, <1>2

LEMMA FlowCollectionStartMeets == KInv /\ FetchFlowCollectionStart => Met(scanner, scanner')
<1> SUFFICES ASSUME KInv, FetchFlowCollectionStart PROVE Met(scanner, scanner')
  OBVIOUS
<1>1. PICK w \in {"[", "{"} : Fetch(w, FlowCollectionStart)
  BY DEF FetchFlowCollectionStart
<1>2. /\ Calling /\ scanner.stream_start_produced /\ NeedMore(Checked)
      /\ \E gap \in Gaps(Checked, w) : \E r \in Fetched(Found(gap), w, FlowCollectionStart) :
           scanner' = Failed(scanner) \/ (~r.to.error /\ scanner' = r.to)
  BY <1>1 DEF Fetch
<1>3. PICK gap \in Gaps(Checked, w) : \E r \in Fetched(Found(gap), w, FlowCollectionStart) :
        scanner' = Failed(scanner) \/ (~r.to.error /\ scanner' = r.to)
  BY <1>2
<1>4. PICK r \in Fetched(Found(gap), w, FlowCollectionStart) :
        scanner' = Failed(scanner) \/ (~r.to.error /\ scanner' = r.to)
  BY <1>3
<1> DEFINE s == Found(gap)
<1>5. Scan(s) /\ (s.error \/ (Settled(s) /\ Held(scanner, s))) /\ text \in Texts
  BY <1>2, FetchingSettled DEF KInv, IInv
<1>6. r \in Error(s) \/ (~s.error /\ r \in FlowCollectionStart(s, w))
  BY DEF Fetched
<1> HIDE DEF s
<1>7. r.to.error \/ (Held(scanner, s) /\ Met(s, r.to))
  BY <1>5, <1>6, ErrorSafe, FlowCollectionStartSafe, SafeMet
<1>8. QED
  BY <1>2, <1>4, <1>7, FetchMet

LEMMA FlowCollectionEndMeets == KInv /\ FetchFlowCollectionEnd => Met(scanner, scanner')
<1> SUFFICES ASSUME KInv, FetchFlowCollectionEnd PROVE Met(scanner, scanner')
  OBVIOUS
<1>1. PICK w \in {"]", "}"} : Fetch(w, FlowCollectionEnd)
  BY DEF FetchFlowCollectionEnd
<1>2. /\ Calling /\ scanner.stream_start_produced /\ NeedMore(Checked)
      /\ \E gap \in Gaps(Checked, w) : \E r \in Fetched(Found(gap), w, FlowCollectionEnd) :
           scanner' = Failed(scanner) \/ (~r.to.error /\ scanner' = r.to)
  BY <1>1 DEF Fetch
<1>3. PICK gap \in Gaps(Checked, w) : \E r \in Fetched(Found(gap), w, FlowCollectionEnd) :
        scanner' = Failed(scanner) \/ (~r.to.error /\ scanner' = r.to)
  BY <1>2
<1>4. PICK r \in Fetched(Found(gap), w, FlowCollectionEnd) :
        scanner' = Failed(scanner) \/ (~r.to.error /\ scanner' = r.to)
  BY <1>3
<1> DEFINE s == Found(gap)
<1>5. Scan(s) /\ (s.error \/ (Settled(s) /\ Held(scanner, s))) /\ text \in Texts
  BY <1>2, FetchingSettled DEF KInv, IInv
<1>6. r \in Error(s) \/ (~s.error /\ r \in FlowCollectionEnd(s, w))
  BY DEF Fetched
<1> HIDE DEF s
<1>7. r.to.error \/ (Held(scanner, s) /\ Met(s, r.to))
  BY <1>5, <1>6, ErrorSafe, FlowCollectionEndSafe, SafeMet
<1>8. QED
  BY <1>2, <1>4, <1>7, FetchMet

LEMMA FlowEntryMeets == KInv /\ FetchFlowEntry => Met(scanner, scanner')
<1> SUFFICES ASSUME KInv, FetchFlowEntry PROVE Met(scanner, scanner')
  OBVIOUS
<1> DEFINE w == ","
<1>1. Fetch(w, FlowEntry)
  BY DEF FetchFlowEntry
<1> HIDE DEF w
<1>2. /\ Calling /\ scanner.stream_start_produced /\ NeedMore(Checked)
      /\ \E gap \in Gaps(Checked, w) : \E r \in Fetched(Found(gap), w, FlowEntry) :
           scanner' = Failed(scanner) \/ (~r.to.error /\ scanner' = r.to)
  BY <1>1 DEF Fetch
<1>3. PICK gap \in Gaps(Checked, w) : \E r \in Fetched(Found(gap), w, FlowEntry) :
        scanner' = Failed(scanner) \/ (~r.to.error /\ scanner' = r.to)
  BY <1>2
<1>4. PICK r \in Fetched(Found(gap), w, FlowEntry) :
        scanner' = Failed(scanner) \/ (~r.to.error /\ scanner' = r.to)
  BY <1>3
<1> DEFINE s == Found(gap)
<1>5. Scan(s) /\ (s.error \/ (Settled(s) /\ Held(scanner, s))) /\ text \in Texts
  BY <1>2, FetchingSettled DEF KInv, IInv
<1>6. r \in Error(s) \/ (~s.error /\ r \in FlowEntry(s, w))
  BY DEF Fetched
<1> HIDE DEF s
<1>7. r.to.error \/ (Held(scanner, s) /\ Met(s, r.to))
  BY <1>5, <1>6, ErrorSafe, FlowEntrySafe, SafeMet
<1>8. QED
  BY <1>2, <1>4, <1>7, FetchMet

LEMMA BlockEntryMeets == KInv /\ FetchBlockEntry => Met(scanner, scanner')
<1> SUFFICES ASSUME KInv, FetchBlockEntry PROVE Met(scanner, scanner')
  OBVIOUS
<1> DEFINE w == "-"
<1>1. Fetch(w, BlockEntry)
  BY DEF FetchBlockEntry
<1> HIDE DEF w
<1>2. /\ Calling /\ scanner.stream_start_produced /\ NeedMore(Checked)
      /\ \E gap \in Gaps(Checked, w) : \E r \in Fetched(Found(gap), w, BlockEntry) :
           scanner' = Failed(scanner) \/ (~r.to.error /\ scanner' = r.to)
  BY <1>1 DEF Fetch
<1>3. PICK gap \in Gaps(Checked, w) : \E r \in Fetched(Found(gap), w, BlockEntry) :
        scanner' = Failed(scanner) \/ (~r.to.error /\ scanner' = r.to)
  BY <1>2
<1>4. PICK r \in Fetched(Found(gap), w, BlockEntry) :
        scanner' = Failed(scanner) \/ (~r.to.error /\ scanner' = r.to)
  BY <1>3
<1> DEFINE s == Found(gap)
<1>5. Scan(s) /\ (s.error \/ (Settled(s) /\ Held(scanner, s))) /\ text \in Texts
  BY <1>2, FetchingSettled DEF KInv, IInv
<1>6. r \in Error(s) \/ (~s.error /\ r \in BlockEntry(s, w))
  BY DEF Fetched
<1> HIDE DEF s
<1>7. r.to.error \/ (Held(scanner, s) /\ Met(s, r.to))
  BY <1>5, <1>6, ErrorSafe, BlockEntrySafe, SafeMet
<1>8. QED
  BY <1>2, <1>4, <1>7, FetchMet

LEMMA KeyMeets == KInv /\ FetchKey => Met(scanner, scanner')
<1> SUFFICES ASSUME KInv, FetchKey PROVE Met(scanner, scanner')
  OBVIOUS
<1> DEFINE w == "?"
<1>1. Fetch(w, Key)
  BY DEF FetchKey
<1> HIDE DEF w
<1>2. /\ Calling /\ scanner.stream_start_produced /\ NeedMore(Checked)
      /\ \E gap \in Gaps(Checked, w) : \E r \in Fetched(Found(gap), w, Key) :
           scanner' = Failed(scanner) \/ (~r.to.error /\ scanner' = r.to)
  BY <1>1 DEF Fetch
<1>3. PICK gap \in Gaps(Checked, w) : \E r \in Fetched(Found(gap), w, Key) :
        scanner' = Failed(scanner) \/ (~r.to.error /\ scanner' = r.to)
  BY <1>2
<1>4. PICK r \in Fetched(Found(gap), w, Key) :
        scanner' = Failed(scanner) \/ (~r.to.error /\ scanner' = r.to)
  BY <1>3
<1> DEFINE s == Found(gap)
<1>5. Scan(s) /\ (s.error \/ (Settled(s) /\ Held(scanner, s))) /\ text \in Texts
  BY <1>2, FetchingSettled DEF KInv, IInv
<1>6. r \in Error(s) \/ (~s.error /\ r \in Key(s, w))
  BY DEF Fetched
<1> HIDE DEF s
<1>7. r.to.error \/ (Held(scanner, s) /\ Met(s, r.to))
  BY <1>5, <1>6, ErrorSafe, KeySafe, SafeMet
<1>8. QED
  BY <1>2, <1>4, <1>7, FetchMet

LEMMA ValueMeets == KInv /\ FetchValue => Met(scanner, scanner')
<1> SUFFICES ASSUME KInv, FetchValue PROVE Met(scanner, scanner')
  OBVIOUS
<1>1. PICK w \in {":", "glued"} : Fetch(w, Value)
  BY DEF FetchValue
<1>2. /\ Calling /\ scanner.stream_start_produced /\ NeedMore(Checked)
      /\ \E gap \in Gaps(Checked, w) : \E r \in Fetched(Found(gap), w, Value) :
           scanner' = Failed(scanner) \/ (~r.to.error /\ scanner' = r.to)
  BY <1>1 DEF Fetch
<1>3. PICK gap \in Gaps(Checked, w) : \E r \in Fetched(Found(gap), w, Value) :
        scanner' = Failed(scanner) \/ (~r.to.error /\ scanner' = r.to)
  BY <1>2
<1>4. PICK r \in Fetched(Found(gap), w, Value) :
        scanner' = Failed(scanner) \/ (~r.to.error /\ scanner' = r.to)
  BY <1>3
<1> DEFINE s == Found(gap)
<1>5. Scan(s) /\ (s.error \/ (Settled(s) /\ Held(scanner, s))) /\ text \in Texts
  BY <1>2, FetchingSettled DEF KInv, IInv
<1>6. r \in Error(s) \/ (~s.error /\ r \in Value(s, w))
  BY DEF Fetched
<1> HIDE DEF s
<1>7. r.to.error \/ (Held(scanner, s) /\ Met(s, r.to))
  BY <1>5, <1>6, ErrorSafe, ValueMet
<1>8. QED
  BY <1>2, <1>4, <1>7, FetchMet

LEMMA PropertyMeets == KInv /\ FetchProperty => Met(scanner, scanner')
<1> SUFFICES ASSUME KInv, FetchProperty PROVE Met(scanner, scanner')
  OBVIOUS
<1>1. PICK w \in {"anchor", "alias", "tag"} : Fetch(w, Property)
  BY DEF FetchProperty
<1>2. /\ Calling /\ scanner.stream_start_produced /\ NeedMore(Checked)
      /\ \E gap \in Gaps(Checked, w) : \E r \in Fetched(Found(gap), w, Property) :
           scanner' = Failed(scanner) \/ (~r.to.error /\ scanner' = r.to)
  BY <1>1 DEF Fetch
<1>3. PICK gap \in Gaps(Checked, w) : \E r \in Fetched(Found(gap), w, Property) :
        scanner' = Failed(scanner) \/ (~r.to.error /\ scanner' = r.to)
  BY <1>2
<1>4. PICK r \in Fetched(Found(gap), w, Property) :
        scanner' = Failed(scanner) \/ (~r.to.error /\ scanner' = r.to)
  BY <1>3
<1> DEFINE s == Found(gap)
<1>5. Scan(s) /\ (s.error \/ (Settled(s) /\ Held(scanner, s))) /\ text \in Texts
  BY <1>2, FetchingSettled DEF KInv, IInv
<1>6. r \in Error(s) \/ (~s.error /\ r \in Property(s, w))
  BY DEF Fetched
<1> HIDE DEF s
<1>7. r.to.error \/ (Held(scanner, s) /\ Met(s, r.to))
  BY <1>5, <1>6, ErrorSafe, PropertySafe, SafeMet
<1>8. QED
  BY <1>2, <1>4, <1>7, FetchMet

LEMMA BlockScalarMeets == KInv /\ FetchBlockScalar => Met(scanner, scanner')
<1> SUFFICES ASSUME KInv, FetchBlockScalar PROVE Met(scanner, scanner')
  OBVIOUS
<1> DEFINE w == "block"
<1>1. Fetch(w, BlockScalar)
  BY DEF FetchBlockScalar
<1> HIDE DEF w
<1>2. /\ Calling /\ scanner.stream_start_produced /\ NeedMore(Checked)
      /\ \E gap \in Gaps(Checked, w) : \E r \in Fetched(Found(gap), w, BlockScalar) :
           scanner' = Failed(scanner) \/ (~r.to.error /\ scanner' = r.to)
  BY <1>1 DEF Fetch
<1>3. PICK gap \in Gaps(Checked, w) : \E r \in Fetched(Found(gap), w, BlockScalar) :
        scanner' = Failed(scanner) \/ (~r.to.error /\ scanner' = r.to)
  BY <1>2
<1>4. PICK r \in Fetched(Found(gap), w, BlockScalar) :
        scanner' = Failed(scanner) \/ (~r.to.error /\ scanner' = r.to)
  BY <1>3
<1> DEFINE s == Found(gap)
<1>5. Scan(s) /\ (s.error \/ (Settled(s) /\ Held(scanner, s))) /\ text \in Texts
  BY <1>2, FetchingSettled DEF KInv, IInv
<1>6. r \in Error(s) \/ (~s.error /\ r \in BlockScalar(s, w))
  BY DEF Fetched
<1> HIDE DEF s
<1>7. r.to.error \/ (Held(scanner, s) /\ Met(s, r.to))
  BY <1>5, <1>6, ErrorSafe, BlockScalarSafe, SafeMet
<1>8. QED
  BY <1>2, <1>4, <1>7, FetchMet

LEMMA PlainScalarMeets == KInv /\ FetchPlainScalar => Met(scanner, scanner')
<1> SUFFICES ASSUME KInv, FetchPlainScalar PROVE Met(scanner, scanner')
  OBVIOUS
<1> DEFINE w == "plain"
<1>1. Fetch(w, PlainScalar)
  BY DEF FetchPlainScalar
<1> HIDE DEF w
<1>2. /\ Calling /\ scanner.stream_start_produced /\ NeedMore(Checked)
      /\ \E gap \in Gaps(Checked, w) : \E r \in Fetched(Found(gap), w, PlainScalar) :
           scanner' = Failed(scanner) \/ (~r.to.error /\ scanner' = r.to)
  BY <1>1 DEF Fetch
<1>3. PICK gap \in Gaps(Checked, w) : \E r \in Fetched(Found(gap), w, PlainScalar) :
        scanner' = Failed(scanner) \/ (~r.to.error /\ scanner' = r.to)
  BY <1>2
<1>4. PICK r \in Fetched(Found(gap), w, PlainScalar) :
        scanner' = Failed(scanner) \/ (~r.to.error /\ scanner' = r.to)
  BY <1>3
<1> DEFINE s == Found(gap)
<1>5. Scan(s) /\ (s.error \/ (Settled(s) /\ Held(scanner, s))) /\ text \in Texts
  BY <1>2, FetchingSettled DEF KInv, IInv
<1>6. r \in Error(s) \/ (~s.error /\ r \in PlainScalar(s, w))
  BY DEF Fetched
<1> HIDE DEF s
<1>7. r.to.error \/ (Held(scanner, s) /\ Met(s, r.to))
  BY <1>5, <1>6, ErrorSafe, PlainScalarSafe, SafeMet
<1>8. QED
  BY <1>2, <1>4, <1>7, FetchMet

LEMMA FlowScalarMeets == KInv /\ FetchFlowScalar => Met(scanner, scanner')
<1> SUFFICES ASSUME KInv, FetchFlowScalar PROVE Met(scanner, scanner')
  OBVIOUS
<1> DEFINE w == "quoted"
<1>1. Fetch(w, QuotedScalar)
  BY DEF FetchFlowScalar
<1> HIDE DEF w
<1>2. /\ Calling /\ scanner.stream_start_produced /\ NeedMore(Checked)
      /\ \E gap \in Gaps(Checked, w) : \E r \in Fetched(Found(gap), w, QuotedScalar) :
           scanner' = Failed(scanner) \/ (~r.to.error /\ scanner' = r.to)
  BY <1>1 DEF Fetch
<1>3. PICK gap \in Gaps(Checked, w) : \E r \in Fetched(Found(gap), w, QuotedScalar) :
        scanner' = Failed(scanner) \/ (~r.to.error /\ scanner' = r.to)
  BY <1>2
<1>4. PICK r \in Fetched(Found(gap), w, QuotedScalar) :
        scanner' = Failed(scanner) \/ (~r.to.error /\ scanner' = r.to)
  BY <1>3
<1> DEFINE s == Found(gap)
<1>5. Scan(s) /\ (s.error \/ (Settled(s) /\ Held(scanner, s))) /\ text \in Texts
  BY <1>2, FetchingSettled DEF KInv, IInv
<1>6. r \in Error(s) \/ (~s.error /\ r \in QuotedScalar(s, w))
  BY DEF Fetched
<1> HIDE DEF s
<1>7. r.to.error \/ (Held(scanner, s) /\ Met(s, r.to))
  BY <1>5, <1>6, ErrorSafe, QuotedScalarSafe, SafeMet
<1>8. QED
  BY <1>2, <1>4, <1>7, FetchMet

LEMMA DocumentIndicatorMeets == KInv /\ FetchDocumentIndicator => Met(scanner, scanner')
<1> SUFFICES ASSUME KInv, FetchDocumentIndicator PROVE Met(scanner, scanner')
  OBVIOUS
<1>1. PICK w \in {"---", "..."} : Fetch(w, Marker)
  BY DEF FetchDocumentIndicator
<1>2. /\ Calling /\ scanner.stream_start_produced /\ NeedMore(Checked)
      /\ \E gap \in Gaps(Checked, w) : \E r \in Fetched(Found(gap), w, Marker) :
           scanner' = Failed(scanner) \/ (~r.to.error /\ scanner' = r.to)
  BY <1>1 DEF Fetch
<1>3. PICK gap \in Gaps(Checked, w) : \E r \in Fetched(Found(gap), w, Marker) :
        scanner' = Failed(scanner) \/ (~r.to.error /\ scanner' = r.to)
  BY <1>2
<1>4. PICK r \in Fetched(Found(gap), w, Marker) :
        scanner' = Failed(scanner) \/ (~r.to.error /\ scanner' = r.to)
  BY <1>3
<1> DEFINE s == Found(gap)
<1>5. Scan(s) /\ (s.error \/ (Settled(s) /\ Held(scanner, s))) /\ text \in Texts
  BY <1>2, FetchingSettled DEF KInv, IInv
<1>6. r \in Error(s) \/ (~s.error /\ r \in Marker(s, w))
  BY DEF Fetched
<1> HIDE DEF s
<1>7. r.to.error \/ (Held(scanner, s) /\ Met(s, r.to))
  BY <1>5, <1>6, ErrorSafe, MarkerSafe, SafeMet
<1>8. QED
  BY <1>2, <1>4, <1>7, FetchMet

LEMMA DirectiveMeets == KInv /\ FetchDirective => Met(scanner, scanner')
<1> SUFFICES ASSUME KInv, FetchDirective PROVE Met(scanner, scanner')
  OBVIOUS
<1> DEFINE w == "%"
<1>1. Fetch(w, Directive)
  BY DEF FetchDirective
<1> HIDE DEF w
<1>2. /\ Calling /\ scanner.stream_start_produced /\ NeedMore(Checked)
      /\ \E gap \in Gaps(Checked, w) : \E r \in Fetched(Found(gap), w, Directive) :
           scanner' = Failed(scanner) \/ (~r.to.error /\ scanner' = r.to)
  BY <1>1 DEF Fetch
<1>3. PICK gap \in Gaps(Checked, w) : \E r \in Fetched(Found(gap), w, Directive) :
        scanner' = Failed(scanner) \/ (~r.to.error /\ scanner' = r.to)
  BY <1>2
<1>4. PICK r \in Fetched(Found(gap), w, Directive) :
        scanner' = Failed(scanner) \/ (~r.to.error /\ scanner' = r.to)
  BY <1>3
<1> DEFINE s == Found(gap)
<1>5. Scan(s) /\ (s.error \/ (Settled(s) /\ Held(scanner, s))) /\ text \in Texts
  BY <1>2, FetchingSettled DEF KInv, IInv
<1>6. r \in Error(s) \/ (~s.error /\ r \in Directive(s, w))
  BY DEF Fetched
<1> HIDE DEF s
<1>7. r.to.error \/ (Held(scanner, s) /\ Met(s, r.to))
  BY <1>5, <1>6, ErrorSafe, DirectiveSafe, SafeMet
<1>8. QED
  BY <1>2, <1>4, <1>7, FetchMet

LEMMA StreamEndMeets == KInv /\ FetchStreamEnd => Met(scanner, scanner')
<1> SUFFICES ASSUME KInv, FetchStreamEnd PROVE Met(scanner, scanner')
  OBVIOUS
<1> DEFINE w == "end"
<1>1. Fetch(w, StreamEnd)
  BY DEF FetchStreamEnd
<1> HIDE DEF w
<1>2. /\ Calling /\ scanner.stream_start_produced /\ NeedMore(Checked)
      /\ \E gap \in Gaps(Checked, w) : \E r \in Fetched(Found(gap), w, StreamEnd) :
           scanner' = Failed(scanner) \/ (~r.to.error /\ scanner' = r.to)
  BY <1>1 DEF Fetch
<1>3. PICK gap \in Gaps(Checked, w) : \E r \in Fetched(Found(gap), w, StreamEnd) :
        scanner' = Failed(scanner) \/ (~r.to.error /\ scanner' = r.to)
  BY <1>2
<1>4. PICK r \in Fetched(Found(gap), w, StreamEnd) :
        scanner' = Failed(scanner) \/ (~r.to.error /\ scanner' = r.to)
  BY <1>3
<1> DEFINE s == Found(gap)
<1>5. Scan(s) /\ (s.error \/ (Settled(s) /\ Held(scanner, s))) /\ text \in Texts
  BY <1>2, FetchingSettled DEF KInv, IInv
<1>6. r \in Error(s) \/ (~s.error /\ r \in StreamEnd(s, w))
  BY DEF Fetched
<1> HIDE DEF s
<1>7. r.to.error \/ (Held(scanner, s) /\ Met(s, r.to))
  BY <1>5, <1>6, ErrorSafe, StreamEndSafe, SafeMet
<1>8. QED
  BY <1>2, <1>4, <1>7, FetchMet

LEMMA GarbageMeets == KInv /\ FetchGarbage => Met(scanner, scanner')
<1> SUFFICES ASSUME KInv, FetchGarbage PROVE Met(scanner, scanner')
  OBVIOUS
<1> DEFINE w == "garbage"
<1>1. Fetch(w, Garbage)
  BY DEF FetchGarbage
<1> HIDE DEF w
<1>2. /\ Calling /\ scanner.stream_start_produced /\ NeedMore(Checked)
      /\ \E gap \in Gaps(Checked, w) : \E r \in Fetched(Found(gap), w, Garbage) :
           scanner' = Failed(scanner) \/ (~r.to.error /\ scanner' = r.to)
  BY <1>1 DEF Fetch
<1>3. PICK gap \in Gaps(Checked, w) : \E r \in Fetched(Found(gap), w, Garbage) :
        scanner' = Failed(scanner) \/ (~r.to.error /\ scanner' = r.to)
  BY <1>2
<1>4. PICK r \in Fetched(Found(gap), w, Garbage) :
        scanner' = Failed(scanner) \/ (~r.to.error /\ scanner' = r.to)
  BY <1>3
<1> DEFINE s == Found(gap)
<1>5. Scan(s) /\ (s.error \/ (Settled(s) /\ Held(scanner, s))) /\ text \in Texts
  BY <1>2, FetchingSettled DEF KInv, IInv
<1>6. r \in Error(s) \/ (~s.error /\ r \in Garbage(s, w))
  BY DEF Fetched
<1> HIDE DEF s
<1>7. r.to.error \/ (Held(scanner, s) /\ Met(s, r.to))
  BY <1>5, <1>6, ErrorSafe DEF Garbage
<1>8. QED
  BY <1>2, <1>4, <1>7, FetchMet

LEMMA StreamStartMeets == KInv /\ FetchStreamStart => Met(scanner, scanner')
<1> SUFFICES ASSUME KInv, FetchStreamStart PROVE Met(scanner, scanner')
  OBVIOUS
<1>1. Fresh(scanner)
  BY DEF KInv, IInv, FetchStreamStart, Steady, Sound, Finished
<1> DEFINE p == Push(AllowKey(scanner), "StreamStart", scanner.mark)
           keys == Append(p.simple_keys, NoKey)
           t == [p EXCEPT !.stream_start_produced = TRUE, !.simple_keys = keys]
<1>2. scanner.simple_keys = <<>> /\ "simple_keys" \in DOMAIN scanner
  BY <1>1 DEF Fresh, State, Scanners
<1>3. p.simple_keys = <<>> /\ "simple_keys" \in DOMAIN p
  BY <1>2 DEF Push, AllowKey
<1>4. scanner' = t
  BY DEF FetchStreamStart
<1> HIDE DEF p
<1>5. keys = <<NoKey>>
  BY <1>3
<1> HIDE DEF keys
<1>6. t.simple_keys = <<NoKey>>
  BY <1>3, <1>5
<1> HIDE DEF t
<1>7. \A i \in 1 .. Len(t.simple_keys) : ~Presses(t, i)
  BY <1>6 DEF Presses, NoKey
<1>8. Due(t)
  BY <1>7 DEF Due
<1>9. Turned(scanner, t)
  BY <1>2 DEF Turned
<1>10. QED
  BY <1>4, <1>8, <1>9 DEF Met

LEMMA StaleMeets == KInv /\ StaleKeyIsRequired => Met(scanner, scanner')
<1> SUFFICES ASSUME KInv, StaleKeyIsRequired PROVE Met(scanner, scanner')
  OBVIOUS
<1>1. "error" \in DOMAIN scanner
  BY DEF KInv, IInv, Fresh, Steady, Sound, Finished, State, Scanners
<1>2. QED
  BY <1>1 DEF StaleKeyIsRequired, Failed, Met

LEMMA DeliverMeets == KInv /\ Deliver => Met(scanner, scanner')
<1> SUFFICES ASSUME KInv, Deliver PROVE Met(scanner, scanner')
  OBVIOUS
<1> DEFINE c == Checked
           ends == Head(scanner.tokens).kind = "StreamEnd"
           us == Tail(c.tokens)
           n == c.tokens_parsed + 1
           t == [c EXCEPT !.tokens = us, !.tokens_parsed = n, !.stream_end_produced = ends]
           keys == scanner.simple_keys
<1>1. /\ scanner.tokens # <<>> /\ ~scanner.error /\ ~c.error
      /\ scanner' = [c EXCEPT !.tokens = Tail(@), !.tokens_parsed = @ + 1,
                              !.stream_end_produced = ends]
  BY DEF Deliver, Calling
<1>2. Scan(scanner)
  <2>1. Steady(scanner) \/ Finished(scanner)
    BY <1>1 DEF KInv, IInv, Fresh
  <2>2. CASE Steady(scanner)
    BY <2>2, SteadySound, SoundScan
  <2>3. CASE Finished(scanner)
    BY <2>3 DEF Finished, Scanners, Scan
  <2>4. QED
    BY <2>1, <2>2, <2>3
<1>3. Carries(scanner, scanner) /\ Due(scanner)
  BY <1>1, <1>2, CarriesSame DEF KInv
<1>4. /\ Carries(scanner, c) /\ c.mark = scanner.mark /\ c.flow_level = scanner.flow_level
      /\ c.simple_key_allowed = scanner.simple_key_allowed
      /\ \A i \in 1 .. Len(c.simple_keys) :
           Presses(c, i) => i \in 1 .. Len(keys) /\ c.simple_keys[i] = keys[i]
  BY <1>1, <1>3, ForgetCarries DEF Checked, StaleSimpleKeys
<1> HIDE DEF c, ends
<1>5. scanner' = t
  BY <1>1, <1>4 DEF Carries, Scan
<1> HIDE DEF us, n
<1>6. Onward(c, t)
  <2>1. Scan(c) /\ c.mark.line \in Nat
    BY <1>4, ScanLine DEF Carries
  <2>2. QED
    BY <2>1 DEF Scan, Onward, Moves
<1> HIDE DEF t
<1>7. /\ Carries(scanner, t) /\ t.simple_keys = c.simple_keys /\ t.error = c.error
      /\ t.simple_key_allowed = scanner.simple_key_allowed /\ t.flow_level = scanner.flow_level
      /\ scanner.mark.line <= t.mark.line
  BY <1>4, <1>6, OnwardCarries DEF Onward, Moves
<1>8. Held(scanner, t) /\ Outermost(t)
  BY <1>1, <1>7 DEF Carries
<1>9. Due(t)
  <2> SUFFICES ASSUME NEW i \in 1 .. Len(t.simple_keys), Presses(t, i),
                      t.flow_level = 0, t.simple_key_allowed
               PROVE  t.simple_keys[i].mark.line < t.mark.line
    BY <1>8 DEF Due, Outermost
  <2>1. i \in 1 .. Len(keys) /\ t.simple_keys[i] = keys[i]
    BY <1>4, <1>7 DEF Presses
  <2>2. keys[i].mark.line < scanner.mark.line
    BY <1>3, <1>7, <2>1 DEF Due, Presses
  <2>3. keys[i].mark.line \in Nat /\ scanner.mark.line \in Nat /\ t.mark.line \in Nat
    BY <1>2, <1>7, <2>1, ScanKeys DEF Carries
  <2>4. QED
    BY <1>7, <2>1, <2>2, <2>3
<1>10. QED
  BY <1>5, <1>8, <1>9 DEF Met, Held, Turned

LEMMA StepMeets == KInv /\ Next => Met(scanner, scanner')
BY StreamStartMeets, StaleMeets, DeliverMeets,
   FlowCollectionStartMeets, FlowCollectionEndMeets, FlowEntryMeets, BlockEntryMeets, KeyMeets,
   ValueMeets, PropertyMeets, BlockScalarMeets, PlainScalarMeets, FlowScalarMeets,
   DocumentIndicatorMeets, DirectiveMeets, StreamEndMeets, GarbageMeets DEF Next

LEMMA KeysStay == KInv /\ [Next]_vars => KInv' /\ Met(scanner, scanner')
<1> SUFFICES ASSUME KInv, [Next]_vars PROVE KInv' /\ Met(scanner, scanner')
  OBVIOUS
<1>1. IInv'
  BY Keeps DEF KInv
<1>2. CASE Next
  <2>1. Met(scanner, scanner')
    BY <1>2, StepMeets
  <2>2. scanner'.error \/ Due(scanner')
    BY <2>1 DEF Met
  <2>3. QED
    BY <1>1, <2>1, <2>2 DEF KInv
<1>3. CASE UNCHANGED vars
  <2>1. scanner' = scanner
    BY <1>3 DEF vars
  <2>2. scanner.error \/ Due(scanner)
    BY DEF KInv
  <2>3. Turned(scanner, scanner)
    BY DEF Turned
  <2>4. Met(scanner, scanner')
    BY <2>1, <2>2, <2>3 DEF Met
  <2>5. QED
    BY <1>1, <2>1, <2>2, <2>4 DEF KInv
<1>4. QED
  BY <1>2, <1>3

\* A node at the indentation of an open block mapping, which must become a key, is never
\* forgotten, overwritten or passed on as content: the step that gives it up queues its Key
\* or fails (save_simple_key, remove_simple_key, stale_simple_keys).
THEOREM RequiredKeysStay == Spec => RequiredKeysAreKept
<1> DEFINE Stands == \A i \in DOMAIN scanner.simple_keys :
                     LET key == scanner.simple_keys[i]
                     IN  key.possible /\ key.required =>
                           \/ scanner'.error
                           \/ i \in DOMAIN scanner'.simple_keys /\ scanner'.simple_keys[i] = key
                           \/ Contains(scanner'.tokens, Token("Key", key.mark))
<1>1. KInv /\ [Next]_vars => [Stands]_vars
  <2> SUFFICES ASSUME KInv, [Next]_vars PROVE Stands
    OBVIOUS
  <2>1. KInv' /\ Met(scanner, scanner')
    BY KeysStay
  <2>2. CASE Fresh(scanner)
    BY <2>2 DEF Fresh
  <2>3. CASE ~Fresh(scanner)
    <3>1. /\ scanner.simple_keys \in Seq(SimpleKeys)
          /\ scanner'.simple_keys \in Seq(SimpleKeys)
      <4>1. scanner.simple_keys \in Seq(SimpleKeys)
        BY DEF KInv, IInv, Fresh, Steady, Sound, Finished, State, Scanners
      <4>2. scanner'.simple_keys \in Seq(SimpleKeys)
        BY <2>1 DEF KInv, IInv, Fresh, Steady, Sound, Finished, State, Scanners
      <4>3. QED
        BY <4>1, <4>2
    <3>2. /\ DOMAIN scanner.simple_keys = 1 .. Len(scanner.simple_keys)
          /\ DOMAIN scanner'.simple_keys = 1 .. Len(scanner'.simple_keys)
      BY <3>1
    <3>3. QED
      BY <2>1, <3>2 DEF Met, Turned, Presses
  <2>4. QED
    BY <2>2, <2>3
<1>2. QED
  BY <1>1, KeysStart, KeysStay, PTL DEF Spec, RequiredKeysAreKept
===============================================================================
